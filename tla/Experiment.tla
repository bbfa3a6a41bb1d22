----------------------------- MODULE Experiment -----------------------------
(***************************************************************************)
(* run_experiments.py of docs/experiment/gke/run1: batches of jobs are     *)
(* submitted, and a pool of processes, one for each job of the batch,      *)
(* watches the leaders of the jobs, records their output and their times,  *)
(* and deletes the jobs.  The script is the load the sniffer's logs were   *)
(* taken under.                                                            *)
(*                                                                         *)
(* A job has a leader, which ends, and other pods, which sleep until the   *)
(* job is deleted; all of them are shown here by one.  The cluster runs as *)
(* many pods at a time as there is room for.                               *)
(*                                                                         *)
(* A definition marked (Slip: ...) is no part of the model: it is the one  *)
(* after it with a plausible mistake, to see that a property notices.      *)
(***************************************************************************)
EXTENDS Naturals, Sequences, FiniteSets

CONSTANTS
    Job,
    Batches,     \* the jobs of each batch
    Slots,       \* how many pods the cluster runs at a time
    MayFail,     \* may a leader fail?
    MaxFaults    \* bound: jobs for which kubectl commands or calls of the API fail

JobsOf(b) == {Batches[b][i] : i \in DOMAIN Batches[b]}
Earlier(b) == UNION {JobsOf(c) : c \in 1..(b - 1)}

ASSUME BatchesAssumption ==
    /\ Batches \in Seq(Seq(Job))
    /\ \A b, c \in DOMAIN Batches : b # c => JobsOf(b) \cap JobsOf(c) = {}
    /\ \A b \in DOMAIN Batches : \A i, j \in DOMAIN Batches[b] :
         Batches[b][i] = Batches[b][j] => i = j
    /\ Slots \in Nat /\ MaxFaults \in Nat /\ MayFail \in BOOLEAN

VARIABLES
    leader, others,  \* the phase of the leader and of the other pods of each job
    batch,           \* the batch run is at
    submitted,       \* how many of its jobs run has submitted
    pc,              \* the process that watches each job
    started,         \* the jobs for which it has a start_time
    output, times,   \* the jobs whose "Output" and "Times" are in their log file
    ready,           \* the jobs whose result the pool has handed on
    handler,         \* the thread of the pool that hands on results
    struck           \* the jobs for which a command or a call failed

pods == <<leader, others>>
script == <<batch, submitted>>
files == <<output, times>>
vars == <<pods, script, pc, started, files, ready, handler, struck>>

Init ==
    /\ leader = [j \in Job |-> "none"]
    /\ others = [j \in Job |-> "none"]
    /\ batch = 1
    /\ submitted = 0
    /\ pc = [j \in Job |-> "idle"]
    /\ started = {}
    /\ output = {}
    /\ times = {}
    /\ ready = {}
    /\ handler = "running"
    /\ struck = {}

Fault(j) ==
    /\ Cardinality(struck \cup {j}) <= MaxFaults
    /\ struck' = struck \cup {j}

-----------------------------------------------------------------------------
(* run.                                                                    *)

Submitting == batch <= Len(Batches) /\ submitted < Len(Batches[batch])

\* submit_job: the command may fail, and nobody looks at that.
SubmitJob ==
    /\ Submitting
    /\ LET j == Batches[batch][submitted + 1]
       IN \/ /\ leader' = [leader EXCEPT ![j] = "Pending"]
             /\ others' = [others EXCEPT ![j] = "Pending"]
             /\ UNCHANGED struck
          \/ Fault(j) /\ UNCHANGED pods
    /\ submitted' = submitted + 1
    /\ UNCHANGED <<batch, pc, started, files, ready, handler>>

\* After the last job of the batch: a process for every one of them.
StartPool ==
    /\ batch <= Len(Batches) /\ submitted = Len(Batches[batch])
    /\ \A j \in JobsOf(batch) : pc[j] = "idle"
    /\ pc' = [j \in Job |-> IF j \in JobsOf(batch) THEN "watch" ELSE pc[j]]
    /\ UNCHANGED <<pods, script, started, files, ready, handler, struck>>

\* (Slip: run waits for the first result only.)
NextBatchEarly ==
    /\ batch <= Len(Batches)
    /\ JobsOf(batch) \cap ready # {}
    /\ batch' = batch + 1
    /\ submitted' = 0
    /\ UNCHANGED <<pods, pc, started, files, ready, handler, struck>>

\* result.wait() for every result, and the next batch.
NextBatch ==
    /\ batch <= Len(Batches)
    /\ JobsOf(batch) \subseteq ready
    /\ batch' = batch + 1
    /\ submitted' = 0
    /\ UNCHANGED <<pods, pc, started, files, ready, handler, struck>>

-----------------------------------------------------------------------------
(* get_logs.                                                               *)

Goto(j, step) == pc' = [pc EXCEPT ![j] = step]

\* (Slip: a job is waited for until all of its pods run.)
PollAll(j) ==
    /\ pc[j] = "watch"
    /\ LET phases == {leader[j], others[j]}
       IN /\ started' = IF phases \cap {"Running", "Succeeded"} = {}
                           THEN started ELSE started \cup {j}
          /\ IF "Pending" \notin phases /\ leader[j] \in {"Succeeded", "Failed"}
               THEN Goto(j, "log") ELSE UNCHANGED pc
    /\ UNCHANGED <<pods, script, files, ready, handler, struck>>

\* The pods of the job are listed.  There is a start time (whether it is kept or
\* taken again) once one of them was seen to run or to have succeeded.  The loop
\* ends when the leader has.
Poll(j) ==
    /\ pc[j] = "watch"
    /\ LET phases == {leader[j], others[j]}
       IN /\ started' = IF phases \cap {"Running", "Succeeded"} = {}
                           THEN started ELSE started \cup {j}
          /\ IF leader[j] \in {"Succeeded", "Failed"} THEN Goto(j, "log") ELSE UNCHANGED pc
    /\ UNCHANGED <<pods, script, files, ready, handler, struck>>

\* The log of the leader is read and recorded.
RecordOutput(j) ==
    /\ pc[j] = "log"
    /\ output' = output \cup {j}
    /\ Goto(j, "times")
    /\ UNCHANGED <<pods, script, started, times, ready, handler, struck>>

\* A call of the API fails ...
CallFails(j) ==
    /\ pc[j] \in {"watch", "log"}
    /\ Fault(j)
    /\ Goto(j, "raised")
    /\ UNCHANGED <<pods, script, started, files, ready, handler>>

\* ... or there is no start time to subtract.
LacksStartTime(j) ==
    /\ pc[j] = "times" /\ j \notin started
    /\ Goto(j, "raised")
    /\ UNCHANGED <<pods, script, started, files, ready, handler, struck>>

RecordTimes(j) ==
    /\ pc[j] = "times" /\ j \in started
    /\ times' = times \cup {j}
    /\ Goto(j, "delete")
    /\ UNCHANGED <<pods, script, started, output, ready, handler, struck>>

\* delete_job: the other pods would go on for ever.  It may fail like submit_job.
DeleteJob(j) ==
    /\ pc[j] = "delete"
    /\ \/ /\ leader' = [leader EXCEPT ![j] = "deleted"]
          /\ others' = [others EXCEPT ![j] = "deleted"]
          /\ UNCHANGED struck
       \/ Fault(j) /\ UNCHANGED pods
    /\ Goto(j, "returned")
    /\ UNCHANGED <<script, started, files, ready, handler>>

-----------------------------------------------------------------------------
(* The pool hands on what its processes return.                            *)

HandOn(j) ==
    /\ handler = "running"
    /\ pc[j] = "returned" /\ j \notin ready
    /\ ready' = ready \cup {j}
    /\ UNCHANGED <<pods, script, pc, started, files, handler, struck>>

\* (Slip: an error ends the pool and its processes.)
HandOnErrorToAll(j) ==
    /\ handler = "running"
    /\ pc[j] = "raised"
    /\ handler' = "dead"
    /\ pc' = [k \in Job |-> IF pc[k] = "idle" THEN "idle" ELSE "killed"]
    /\ UNCHANGED <<pods, script, started, files, ready, struck>>

\* process_error_handler raises the error in the thread that hands on results,
\* before the result is marked as ready, and the thread ends.
HandOnError(j) ==
    /\ handler = "running"
    /\ pc[j] = "raised"
    /\ handler' = "dead"
    /\ UNCHANGED <<pods, script, pc, started, files, ready, struck>>

-----------------------------------------------------------------------------
(* The cluster.                                                            *)

Running == {<<j, "leader">> : j \in {k \in Job : leader[k] = "Running"}} \cup
           {<<j, "others">> : j \in {k \in Job : others[k] = "Running"}}

RunLeader(j) ==
    /\ leader[j] = "Pending"
    /\ Cardinality(Running) < Slots
    /\ leader' = [leader EXCEPT ![j] = "Running"]
    /\ UNCHANGED <<others, script, pc, started, files, ready, handler, struck>>

RunOthers(j) ==
    /\ others[j] = "Pending"
    /\ Cardinality(Running) < Slots
    /\ others' = [others EXCEPT ![j] = "Running"]
    /\ UNCHANGED <<leader, script, pc, started, files, ready, handler, struck>>

EndLeader(j) == \E phase \in {"Succeeded", "Failed"} :
    /\ leader[j] = "Running"
    /\ phase = "Failed" => MayFail
    /\ leader' = [leader EXCEPT ![j] = phase]
    /\ UNCHANGED <<others, script, pc, started, files, ready, handler, struck>>

-----------------------------------------------------------------------------

Run == SubmitJob \/ StartPool \/ NextBatch
GetLogs(j) ==
    Poll(j) \/ RecordOutput(j) \/ LacksStartTime(j) \/ RecordTimes(j) \/ DeleteJob(j)
Pool(j) == HandOn(j) \/ HandOnError(j)
Cluster(j) == RunLeader(j) \/ RunOthers(j) \/ EndLeader(j)

Next == Run \/ \E j \in Job : GetLogs(j) \/ CallFails(j) \/ Pool(j) \/ Cluster(j)

Spec == Init /\ [][Next]_vars

\* The processes of the script run, and so do pods there is room for; no call
\* has to fail.
FairSpec ==
    /\ Spec
    /\ WF_vars(Run)
    /\ \A j \in Job : /\ WF_vars(GetLogs(j)) /\ WF_vars(Pool(j))
                      /\ SF_vars(RunLeader(j)) /\ WF_vars(EndLeader(j))

-----------------------------------------------------------------------------
(* What is expected of it.                                                 *)

\* Batches do not mix: a job of the next batch is submitted only when the times
\* of all jobs before it are recorded, which come after their output, also when
\* processes raise errors; and the pool has a result only of a job that returned.
BatchesApart ==
    /\ \A b \in DOMAIN Batches :
         (\E j \in JobsOf(b) : leader[j] # "none") => Earlier(b) \subseteq times
    /\ times \subseteq output \cap started
    /\ \A j \in ready : pc[j] = "returned"

\* The results of a job that succeeds are recorded and the job is deleted, also when
\* the process of another job raised an error and the pool hands on nothing more.
\* Only a fault that befalls this job may come between.
SuccessRecorded ==
    \A j \in Job : (leader[j] = "Succeeded") ~>
        \/ j \in times /\ (leader[j] = "deleted" \/ j \in struck)
        \/ pc[j] = "raised" /\ j \in struck

\* Unless there is a fault or a process raises an error, all batches are run to
\* their end, or the cluster is clogged: the pods that sleep take all the room, each of
\* a job whose leader waits for room, so none is ever deleted.  That is the only way
\* to wait for ever, whatever the order in which the cluster runs the pods.
Clogged ==
    LET sleeping == {j \in Job : others[j] = "Running"}
    IN Cardinality(sleeping) = Slots /\ \A j \in sleeping : leader[j] = "Pending"
RunEnds ==
    [](struck = {} /\ \A j \in Job : pc[j] # "raised")
        => <>(batch > Len(Batches)) \/ <>[]Clogged
=============================================================================
