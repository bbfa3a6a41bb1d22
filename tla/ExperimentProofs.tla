-------------------------- MODULE ExperimentProofs --------------------------
(***************************************************************************)
(* Proofs about Experiment, for any jobs, batches and faults.              *)
(***************************************************************************)
EXTENDS Experiment, TLAPS

-----------------------------------------------------------------------------
(* The invariant: what run, get_logs and the pool have got to.             *)

Steps == {"idle", "watch", "log", "times", "delete", "returned", "raised"}
Types ==
  /\ leader \in [Job -> {"none", "Pending", "Running", "Succeeded", "Failed", "deleted"}]
  /\ pc \in [Job -> Steps]
  /\ batch \in Nat \ {0} /\ submitted \in Nat
  /\ ready \subseteq Job

\* A batch run has not come to is untouched.
LaterUntouched ==
  \A b \in DOMAIN Batches : b > batch =>
    \A j \in JobsOf(b) : leader[j] = "none" /\ pc[j] = "idle"

\* The batches before are done with.
EarlierReady == \A b \in DOMAIN Batches : b < batch => JobsOf(b) \subseteq ready

\* A process records the output, then the times, then returns.
RecordedInOrder ==
  \A j \in Job :
    /\ pc[j] \in {"times", "delete", "returned"} => j \in output
    /\ pc[j] \in {"delete", "returned"} => j \in times
    /\ j \in times => j \in output /\ j \in started
ReadyReturned == \A j \in ready : pc[j] = "returned"

ExperimentInv ==
  /\ Types /\ times \subseteq Job
  /\ LaterUntouched /\ EarlierReady /\ RecordedInOrder /\ ReadyReturned

-----------------------------------------------------------------------------
(* The steps keep it.                                                      *)

\* The jobs of a batch are jobs, and of that batch only.
LEMMA JobsOfBatch ==
  ASSUME NEW b \in DOMAIN Batches
  PROVE  /\ b \in Nat \ {0}
         /\ JobsOf(b) \subseteq Job
         /\ Len(Batches[b]) \in Nat
         /\ \A i \in 1..Len(Batches[b]) : Batches[b][i] \in JobsOf(b)
         /\ \A c \in DOMAIN Batches : c # b => JobsOf(b) \cap JobsOf(c) = {}
<1>1. b \in 1..Len(Batches) /\ Batches[b] \in Seq(Job)
  BY BatchesAssumption
<1>2. DOMAIN Batches[b] = 1..Len(Batches[b]) /\ \A i \in DOMAIN Batches[b] : Batches[b][i] \in Job
  BY <1>1
<1>3. \A c \in DOMAIN Batches : c # b => JobsOf(b) \cap JobsOf(c) = {}
  BY BatchesAssumption
<1>4. Len(Batches) \in Nat /\ Len(Batches[b]) \in Nat
  BY <1>1, BatchesAssumption
<1>5. JobsOf(b) \subseteq Job /\ \A i \in 1..Len(Batches[b]) : Batches[b][i] \in JobsOf(b)
  BY <1>2 DEF JobsOf
<1> QED
  BY <1>1, <1>3, <1>4, <1>5

\* While run is not at the end, its batch is one of the list.
LEMMA BatchIsListed ==
  ASSUME Types, batch <= Len(Batches)
  PROVE  batch \in DOMAIN Batches
BY BatchesAssumption DEF Types

\* The script's own steps: submitting, starting the pool, going on.
LEMMA RunKeeps ==
  ASSUME ExperimentInv, Run
  PROVE  ExperimentInv'
<1> USE DEF ExperimentInv
<1>1. CASE SubmitJob
  <2>1. batch \in DOMAIN Batches /\ submitted + 1 \in 1..Len(Batches[batch])
    BY <1>1, BatchIsListed, JobsOfBatch DEF SubmitJob, Submitting, Types
  <2>2. PICK j \in JobsOf(batch) : j = Batches[batch][submitted + 1]
    BY <2>1, JobsOfBatch
  <2>3. /\ \/ leader' = [leader EXCEPT ![j] = "Pending"]
           \/ leader' = leader
        /\ submitted' = submitted + 1
        /\ UNCHANGED <<batch, pc, started, output, times, ready>>
    BY <1>1, <2>2 DEF SubmitJob, pods, files
  <2>4. Types'
    BY <2>3 DEF Types
  <2>5. LaterUntouched'
    <3>1. ASSUME NEW b \in DOMAIN Batches, b > batch, NEW k \in JobsOf(b)
          PROVE  leader'[k] = leader[k]
      <4>1. k \in Job /\ k # j
        BY <2>1, <3>1, JobsOfBatch DEF Types
      <4> QED
        BY <2>3, <4>1 DEF Types
    <3> QED
      BY <2>3, <3>1 DEF LaterUntouched
  <2> QED
    BY <2>3, <2>4, <2>5 DEF EarlierReady, RecordedInOrder, ReadyReturned
<1>2. CASE StartPool
  <2>1. batch \in DOMAIN Batches
    BY <1>2, BatchIsListed DEF StartPool
  <2>2. /\ \A j \in JobsOf(batch) : pc[j] = "idle"
        /\ pc' = [j \in Job |-> IF j \in JobsOf(batch) THEN "watch" ELSE pc[j]]
        /\ UNCHANGED <<leader, batch, submitted, started, output, times, ready>>
    BY <1>2 DEF StartPool, pods, script, files
  <2>3. Types'
    BY <2>2 DEF Types, Steps
  <2>4. \A j \in Job : j \notin JobsOf(batch) => pc'[j] = pc[j]
    BY <2>2
  <2>5. LaterUntouched'
    BY <2>1, <2>2, <2>4, JobsOfBatch DEF LaterUntouched, Types
  <2>6. RecordedInOrder' /\ ReadyReturned'
    BY <2>2 DEF RecordedInOrder, ReadyReturned, Types
  <2> QED
    BY <2>2, <2>3, <2>5, <2>6 DEF EarlierReady
<1>3. CASE NextBatch
  <2>1. batch \in DOMAIN Batches
    BY <1>3, BatchIsListed DEF NextBatch
  <2>2. /\ JobsOf(batch) \subseteq ready
        /\ batch' = batch + 1 /\ submitted' = 0
        /\ UNCHANGED <<leader, pc, started, output, times, ready>>
    BY <1>3 DEF NextBatch, pods, files
  <2>3. LaterUntouched' /\ EarlierReady'
    BY <2>1, <2>2, JobsOfBatch DEF LaterUntouched, EarlierReady, Types
  <2> QED
    BY <2>2, <2>3 DEF Types, RecordedInOrder, ReadyReturned
<1> QED
  BY <1>1, <1>2, <1>3 DEF Run

\* A process goes one step on, and what it has recorded by then is recorded.
LEMMA ProcessKeeps ==
  ASSUME ExperimentInv, NEW j \in Job, GetLogs(j) \/ CallFails(j)
  PROVE  ExperimentInv'
<1> USE DEF ExperimentInv
<1>1. /\ batch' = batch /\ submitted' = submitted /\ ready' = ready
      /\ pc[j] \in {"watch", "log", "times", "delete"}
      /\ \E s \in Steps \ {"idle"} : pc' = [pc EXCEPT ![j] = s]
      /\ \/ leader' = leader
         \/ leader' = [leader EXCEPT ![j] = "deleted"]
  BY DEF GetLogs, Poll, RecordOutput, LacksStartTime, RecordTimes, DeleteJob, CallFails, Goto, script, pods, files, Types, Steps
<1>2. Types'
  BY <1>1 DEF Types
<1>3. \A k \in Job \ {j} : leader'[k] = leader[k] /\ pc'[k] = pc[k]
  BY <1>1 DEF Types
<1>4. LaterUntouched'
  BY <1>1, <1>3, JobsOfBatch DEF LaterUntouched
<1>5. RecordedInOrder' /\ (times \subseteq Job)'
  BY DEF GetLogs, Poll, RecordOutput, LacksStartTime, RecordTimes, DeleteJob, CallFails, Goto, files, Types, Steps, RecordedInOrder
<1>6. EarlierReady' /\ ReadyReturned'
  BY <1>1, <1>3 DEF EarlierReady, ReadyReturned, Types
<1> QED
  BY <1>2, <1>4, <1>5, <1>6

\* The pool takes results only of processes that returned; the cluster only runs
\* pods that were submitted.
LEMMA SurroundingsKeep ==
  ASSUME ExperimentInv, NEW j \in Job, Pool(j) \/ Cluster(j)
  PROVE  ExperimentInv'
<1> USE DEF ExperimentInv
<1>1. CASE Pool(j)
  BY <1>1 DEF Pool, HandOn, HandOnError, pods, script, files, Types, LaterUntouched, EarlierReady, RecordedInOrder, ReadyReturned
<1>2. CASE Cluster(j)
  <2>1. /\ leader[j] # "none" \/ leader' = leader
        /\ \E s \in {"Running", "Succeeded", "Failed"} :
             leader' = leader \/ leader' = [leader EXCEPT ![j] = s]
        /\ UNCHANGED <<batch, submitted, pc, started, output, times, ready>>
    BY <1>2 DEF Cluster, RunLeader, RunOthers, EndLeader, script, files
  <2>2. Types'
    BY <2>1 DEF Types
  <2>3. \A k \in Job : leader[k] = "none" => leader'[k] = "none"
    BY <2>1 DEF Types
  <2>4. LaterUntouched'
    BY <2>1, <2>3, JobsOfBatch DEF LaterUntouched
  <2> QED
    BY <2>1, <2>2, <2>4 DEF EarlierReady, RecordedInOrder, ReadyReturned
<1> QED
  BY <1>1, <1>2

\* The invariant holds of every reachable state.
LEMMA ExperimentInvariance == Spec => []ExperimentInv
<1>1. Init => ExperimentInv
  BY JobsOfBatch DEF Init, ExperimentInv, Types, Steps, LaterUntouched, EarlierReady, RecordedInOrder, ReadyReturned
<1>2. ExperimentInv /\ [Next]_vars => ExperimentInv'
  <2> SUFFICES ASSUME ExperimentInv, [Next]_vars PROVE ExperimentInv'
    OBVIOUS
  <2>1. CASE UNCHANGED vars
    BY <2>1 DEF vars, pods, script, files, ExperimentInv, Types, LaterUntouched, EarlierReady, RecordedInOrder, ReadyReturned
  <2> QED
    BY <2>1, RunKeeps, ProcessKeeps, SurroundingsKeep DEF Next
<1> QED
  BY <1>1, <1>2, PTL DEF Spec

-----------------------------------------------------------------------------
(* What follows.                                                           *)

\* Batches do not mix: run submits a job of a batch only when the output and the times
\* of every job of the batches before are recorded, whatever calls fail and whichever
\* processes raise errors; and the pool has results only of jobs that returned.
THEOREM BatchesStayApart == Spec => []BatchesApart
<1>1. ExperimentInv => BatchesApart
  <2> SUFFICES ASSUME ExperimentInv PROVE BatchesApart
    OBVIOUS
  <2> USE DEF ExperimentInv
  <2>1. ASSUME NEW b \in DOMAIN Batches, \E j \in JobsOf(b) : leader[j] # "none"
        PROVE  Earlier(b) \subseteq times
    <3>1. b \in 1..Len(Batches) /\ b <= batch
      BY <2>1, BatchesAssumption DEF LaterUntouched, Types
    <3>2. \A c \in 1..(b - 1) : c \in DOMAIN Batches /\ c < batch
      BY <3>1, BatchesAssumption DEF Types
    <3>3. \A c \in 1..(b - 1) : JobsOf(c) \subseteq times
      BY <3>2 DEF EarlierReady, ReadyReturned, RecordedInOrder, Types
    <3> QED
      BY <3>3 DEF Earlier
  <2> QED
    BY <2>1 DEF BatchesApart, RecordedInOrder, ReadyReturned
<1> QED
  BY <1>1, ExperimentInvariance, PTL

=============================================================================
