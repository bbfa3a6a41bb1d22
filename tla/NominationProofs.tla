--------------------------- MODULE NominationProofs ---------------------------
(***************************************************************************)
(* Proofs about Nomination, for any pods, nodes, priorities and binding    *)
(* goroutines: who is nominated, and that the room preemption made for a   *)
(* pod is kept for it.                                                     *)
(***************************************************************************)
EXTENDS Nomination, SequenceTheorems, TLAPS

-----------------------------------------------------------------------------
(* The invariant.                                                          *)

Info == Nominee \cup {Keep}
Jobs ==
  [at : {"idle"}]
    \cup [at : {"popped"}, pod : Pod, nnn : Nominee]
    \cup [at : {"reserve", "bind"}, pod : Pod, nnn : Nominee, node : Node]
    \cup [at : {"failed"}, pod : Pod, nnn : Nominee, info : Info]
    \cup [at : {"requeue", "nominate", "update"}, pod : Pod, nnn : Nominee, info : Info,
          queued : BOOLEAN, cached : Nominee]
JobTypes == job \in [Threads -> Jobs]

Failing(t) == job[t].at \in {"failed", "requeue", "nominate"}
Binding(t) == job[t].at \in {"reserve", "bind"}

\* A cycle is the scheduling loop's, and only there a failure can have another
\* outcome than the end of the nomination, for a pod that is not assumed.
Roles ==
  /\ \A t \in Threads : job[t].at \in {"popped", "reserve"} => t = Loop
  /\ \A t \in Threads : Failing(t) /\ job[t].info # NoNode => t = Loop
  /\ Failing(Loop) => assumed[job[Loop].pod] = NoNode

\* Two threads bind a pod only when the informers have seen it bound.
OneBinds ==
  \A t, u \in Threads :
    Binding(t) /\ Binding(u) /\ job[t].pod = job[u].pod /\ t # u => ~Pending(view[job[t].pod])

\* A pod that got its node, or is gone, will not want one again, in no version to come.
NeverPendingAgain ==
  \A p \in Pod : \A i \in DOMAIN coming[p] :
    /\ ~Pending(view[p]) => ~Pending(coming[p][i])
    /\ \A j \in DOMAIN coming[p] : i <= j /\ ~Pending(coming[p][i]) => ~Pending(coming[p][j])
BoundNotNominated == \A p \in Pod : ~Pending(view[p]) => nominated[p] = NoNode

\* The loop nominates what it has put into the queue, or what needs no node any more.
LoopRequeued ==
  At(Loop, "nominate") =>
    job[Loop].pod \in queue \/ ~Pending(Stored(job[Loop].pod))

\* Until the next cycle of its pod a promised node is the one nominated in memory, no
\* other nomination is on its way to the queue, and the pod is there.
WithLoop(p) == job[Loop].at \in {"popped", "failed", "requeue", "nominate"} /\ job[Loop].pod = p
PromiseStands ==
  \A p \in Pod : promised[p] \in Node =>
    /\ assumed[p] = NoNode
    /\ view[p].nnn \in {NoNode, promised[p]}
    /\ WithLoop(p) \/ (p \in queue /\ nominated[p] = promised[p])

NomInv ==
  /\ TypeOK /\ JobTypes
  /\ Roles /\ OneBinds /\ NeverPendingAgain /\ BoundNotNominated
  /\ LoopRequeued /\ PromiseStands /\ NominatedWantsNode

-----------------------------------------------------------------------------
(* Jobs, versions and sequences of them.                                   *)

\* What is not a node, and not a binder.
LEMMA Names ==
  /\ NoNode \notin Node /\ Gone \notin Node /\ Keep \notin Node
  /\ NoNode # Gone /\ NoNode # Keep /\ Loop \in Threads
BY NominationAssumption DEF Threads

\* The fields of a job at each place.
LEMMA JobParts ==
  ASSUME JobTypes, NEW t \in Threads
  PROVE  /\ job[t].at \in {"idle", "popped", "reserve", "bind", "failed", "requeue", "nominate", "update"}
         /\ job[t].at # "idle" => job[t].pod \in Pod /\ job[t].nnn \in Nominee
         /\ Binding(t) => job[t] \in [at : {"reserve", "bind"}, pod : Pod, nnn : Nominee, node : Node]
         /\ Failing(t) \/ job[t].at = "update" => job[t].info \in Info
         /\ job[t].at \in {"requeue", "nominate", "update"} =>
              /\ job[t].cached \in Nominee
              /\ job[t] \in [at : {"requeue", "nominate", "update"}, pod : Pod, nnn : Nominee,
                             info : Info, queued : BOOLEAN, cached : Nominee]
<1>1. job[t] \in Jobs
  BY DEF JobTypes
<1> QED
  BY <1>1 DEF Jobs, Binding, Failing

\* What becomes of a sequence of versions.
LEMMA Queues ==
  ASSUME NEW S, NEW s \in Seq(S)
  PROVE  /\ s # <<>> => /\ Len(s) \in Nat /\ Len(s) >= 1 /\ 1 \in DOMAIN s
                        /\ Head(s) = s[1] /\ Head(s) \in S
                        /\ Last(s) = s[Len(s)] /\ Last(s) \in S /\ Len(s) \in DOMAIN s
                        /\ Tail(s) \in Seq(S) /\ DOMAIN Tail(s) = 1..(Len(s) - 1)
                        /\ \A i \in 1..(Len(s) - 1) : Tail(s)[i] = s[i + 1] /\ i + 1 \in DOMAIN s
         /\ DOMAIN s = 1..Len(s) /\ Len(s) \in Nat
         /\ \A v \in S : /\ Append(s, v) \in Seq(S) /\ Append(s, v) # <<>>
                         /\ DOMAIN Append(s, v) = 1..(Len(s) + 1)
                         /\ Append(s, v)[Len(s) + 1] = v
                         /\ \A i \in 1..Len(s) : Append(s, v)[i] = s[i]
<1>1. DOMAIN s = 1..Len(s) /\ Len(s) \in Nat
  OBVIOUS
<1>2. ASSUME s # <<>>
      PROVE  /\ Len(s) >= 1 /\ Head(s) = s[1] /\ Head(s) \in S /\ s[Len(s)] \in S
             /\ Tail(s) \in Seq(S) /\ Len(Tail(s)) = Len(s) - 1
             /\ \A i \in 1..(Len(s) - 1) : Tail(s)[i] = s[i + 1]
  <2>1. Len(s) >= 1
    BY <1>1, <1>2, EmptySeq
  <2> QED
    BY <1>1, <1>2, <2>1, HeadTailProperties
<1>3. ASSUME NEW v \in S
      PROVE  /\ Append(s, v) \in Seq(S) /\ Len(Append(s, v)) = Len(s) + 1
             /\ Append(s, v)[Len(s) + 1] = v
             /\ \A i \in 1..Len(s) : Append(s, v)[i] = s[i]
  BY <1>1, AppendProperties
<1>4. ASSUME NEW v \in S PROVE Append(s, v) # <<>> /\ DOMAIN Append(s, v) = 1..(Len(s) + 1)
  BY <1>1, <1>3, EmptySeq, LenProperties
<1>5. ASSUME s # <<>> PROVE DOMAIN Tail(s) = 1..(Len(s) - 1)
  BY <1>2, <1>5, LenProperties
<1> QED
  BY <1>1, <1>2, <1>3, <1>4, <1>5 DEF Last

\* The store and the API server have versions of the pod; once it is bound or gone for
\* the event handlers, it is for the store, and then for the API server.
LEMMA Versions ==
  ASSUME TypeOK, NeverPendingAgain, NEW p \in Pod
  PROVE  /\ Live(p) \in Version /\ Stored(p) \in Version /\ view[p] \in Version
         /\ p \in ahead => coming[p] # <<>> /\ Stored(p) = Head(coming[p]) /\ Stored(p) = coming[p][1]
         /\ p \notin ahead => Stored(p) = view[p]
         /\ ~Pending(view[p]) => ~Pending(Stored(p))
         /\ ~Pending(view[p]) => ~Pending(Live(p))
         /\ \A i \in DOMAIN coming[p] : ~Pending(coming[p][i]) => ~Pending(Live(p))
<1>1. view[p] \in Version /\ coming[p] \in Seq(Version) /\ (p \in ahead => coming[p] # <<>>)
  BY DEF TypeOK
<1>2. coming[p] # <<>> => /\ Head(coming[p]) = coming[p][1] /\ 1 \in DOMAIN coming[p]
                          /\ Last(coming[p]) = coming[p][Len(coming[p])]
                          /\ Len(coming[p]) \in DOMAIN coming[p]
                          /\ Head(coming[p]) \in Version /\ Last(coming[p]) \in Version
  BY <1>1, Queues
<1>3. \A i \in DOMAIN coming[p] : coming[p] # <<>> /\ i \in 1..Len(coming[p]) /\ i <= Len(coming[p])
  BY <1>1, EmptySeq, Queues
<1>4. \A i \in DOMAIN coming[p] :
        /\ ~Pending(view[p]) => ~Pending(coming[p][i])
        /\ ~Pending(coming[p][i]) => ~Pending(Live(p))
  BY <1>2, <1>3 DEF NeverPendingAgain, Live
<1> QED
  BY <1>1, <1>2, <1>4 DEF Live, Stored

\* A write of the API server changes neither what the handlers have seen nor the store.
LEMMA WriteKeeps ==
  ASSUME TypeOK, NeverPendingAgain, NEW p \in Pod, NEW v \in Version, Write(p, v),
         Pending(Live(p)) \/ ~Pending(v), UNCHANGED <<view, ahead>>
  PROVE  /\ coming' \in [Pod -> Seq(Version)] /\ ahead' \subseteq {q \in Pod : coming'[q] # <<>>}
         /\ \A q \in Pod : Stored(q)' = Stored(q)
         /\ NeverPendingAgain'
<1> DEFINE n == Len(coming[p])
<1>1. coming' = [coming EXCEPT ![p] = Append(@, v)] /\ coming \in [Pod -> Seq(Version)]
  BY DEF Write, TypeOK
<1>2. /\ coming[p] \in Seq(Version) /\ n \in Nat /\ DOMAIN coming[p] = 1..n
      /\ coming'[p] \in Seq(Version) /\ coming'[p] # <<>> /\ DOMAIN coming'[p] = 1..(n + 1)
      /\ coming'[p][n + 1] = v /\ \A i \in 1..n : coming'[p][i] = coming[p][i]
  BY <1>1, Queues
<1>3. \A q \in Pod \ {p} : coming'[q] = coming[q]
  BY <1>1
<1>4. coming' \in [Pod -> Seq(Version)]
  BY <1>1, <1>2
<1>5. ahead' \subseteq {q \in Pod : coming'[q] # <<>>}
  BY <1>2, <1>3 DEF TypeOK
<1>6. ASSUME NEW q \in Pod PROVE Stored(q)' = Stored(q)
  <2>1. CASE q = p /\ p \in ahead
    <3>1. 1 \in 1..n /\ Head(coming[p]) = coming[p][1] /\ Head(coming'[p]) = coming'[p][1]
      BY <1>2, <2>1, Queues DEF TypeOK
    <3> QED
      BY <1>2, <2>1, <3>1 DEF Stored
  <2>2. CASE ~(q = p /\ p \in ahead)
    BY <1>3, <2>2 DEF Stored
  <2> QED
    BY <2>1, <2>2
<1>7. NeverPendingAgain'
  <2>1. ASSUME NEW q \in Pod, NEW i \in DOMAIN coming'[q]
        PROVE  /\ ~Pending(view[q]) => ~Pending(coming'[q][i])
               /\ \A j \in DOMAIN coming'[q] :
                    i <= j /\ ~Pending(coming'[q][i]) => ~Pending(coming'[q][j])
    <3>1. CASE q # p
      BY <1>3, <2>1, <3>1 DEF NeverPendingAgain
    <3>2. CASE q = p
      <4>1. \A j \in 1..n : ~Pending(coming[p][j]) => ~Pending(v)
        BY <1>2, Versions
      <4>2. ~Pending(view[p]) => ~Pending(v)
        BY Versions
      <4>3. \A j \in 1..(n + 1) : j \in 1..n \/ (j = n + 1 /\ coming'[p][j] = v)
        BY <1>2
      <4>4. \A j \in 1..n : ~(n + 1 <= j)
        BY <1>2
      <4> HIDE DEF n
      <4> QED
        BY <1>2, <2>1, <3>2, <4>1, <4>2, <4>3, <4>4 DEF NeverPendingAgain
    <3> QED
      BY <3>1, <3>2
  <2> QED
    BY <2>1 DEF NeverPendingAgain, Pending
<1> QED
  BY <1>4, <1>5, <1>6, <1>7

\* Without a change of the pods, none that is not pending becomes so.
LEMMA PodsKept ==
  ASSUME NeverPendingAgain, UNCHANGED <<view, coming, ahead>>
  PROVE  NeverPendingAgain' /\ \A p : Stored(p)' = Stored(p)
BY DEF NeverPendingAgain, Stored, Pending

-----------------------------------------------------------------------------
(* Steps of one thread that leave pods, nominations and promises alone.    *)

JobOnly(t) ==
  /\ UNCHANGED <<view, coming, ahead, queued, nominated, assumed, occupied, promised>>
  /\ cycles' \in 0..MaxCycles /\ faults' \in 0..MaxFaults
  /\ job' \in [Threads -> Jobs] /\ \A u \in Threads \ {t} : job'[u] = job[u]
  /\ queue' \subseteq queue

\* What the thread t is at then respects the invariant, and it was not about to nominate.

\* A step that changes only the place of a thread keeps the invariant.
LEMMA JobStep ==
  ASSUME NomInv, NEW t \in Threads, JobOnly(t),
         job[t].at \notin {"requeue", "nominate"},
         job'[t].at \notin {"reserve", "bind"},
         job'[t].at = "popped" => t = Loop,
         job'[t].at \in {"failed", "requeue", "nominate"} =>
           /\ job'[t].info # NoNode => t = Loop
           /\ t = Loop => assumed[job'[t].pod] = NoNode,
         job'[t].at = "nominate" => ~Pending(Stored(job'[t].pod)),
         \A p \in Pod : WithLoop(p) => WithLoop(p)' \/ promised[p] \notin Node,
         \A p \in queue \ queue' : t = Loop /\ WithLoop(p)'
  PROVE  NomInv'
<1> USE DEF JobOnly
<1>1. NeverPendingAgain' /\ \A p : Stored(p)' = Stored(p)
  BY PodsKept DEF NomInv
<1>2. JobTypes' /\ TypeOK /\ JobTypes
  BY DEF NomInv, JobTypes
<1>3. TypeOK'
  <2>1. \A u \in Threads :
          /\ job'[u].at # "idle" => job'[u].pod \in Pod /\ job'[u].nnn \in Nominee
          /\ job'[u].at \in {"reserve", "bind"} =>
               job'[u].node = assumed[job'[u].pod] \/ ~Pending(view[job'[u].pod])
    <3>1. ASSUME NEW u \in Threads
          PROVE  job'[u].at # "idle" => job'[u].pod \in Pod /\ job'[u].nnn \in Nominee
      BY <1>2, JobParts DEF JobTypes, Jobs
    <3>2. ASSUME NEW u \in Threads, job'[u].at \in {"reserve", "bind"}
          PROVE  job'[u].node = assumed[job'[u].pod] \/ ~Pending(view[job'[u].pod])
      BY <1>2, <3>2 DEF TypeOK
    <3> QED
      BY <3>1, <3>2
  <2> QED
    BY <1>2, <2>1 DEF TypeOK, At, Pending
<1>4. Roles'
  BY Names DEF NomInv, Roles, Failing
<1>5. OneBinds'
  BY DEF NomInv, OneBinds, Binding, Pending
<1>6. BoundNotNominated'
  BY DEF NomInv, BoundNotNominated, Pending
<1>7. LoopRequeued'
  <2>1. ASSUME job'[Loop].at = "nominate"
        PROVE  job'[Loop].pod \in queue' \/ ~Pending(Stored(job'[Loop].pod))
    <3>1. CASE t = Loop
      BY <2>1, <3>1
    <3>2. CASE t # Loop
      <4>1. job'[Loop] = job[Loop]
        BY <3>2, Names
      <4> QED
        BY <2>1, <4>1 DEF NomInv, LoopRequeued, At, WithLoop
    <3> QED
      BY <3>1, <3>2
  <2> QED
    BY <1>1, <2>1 DEF LoopRequeued, At, Pending
<1>8. PromiseStands'
  BY DEF NomInv, PromiseStands
<1>9. NominatedWantsNode'
  <2>1. \A p \in Pod : Handled(p) => Handled(p)'
    BY DEF Handled
  <2> QED
    BY <1>1, <2>1 DEF NomInv, NominatedWantsNode, Pending
<1> QED
  BY <1>1, <1>2, <1>3, <1>4, <1>5, <1>6, <1>7, <1>8, <1>9 DEF NomInv

\* The steps of a cycle that have no effect but on the thread's job.
LEMMA CycleStep ==
  ASSUME NomInv,
         (\E p \in Pod : Pop(p)) \/ Skip \/ AssumeFails \/ PostFilter \/ ScheduleFails
  PROVE  NomInv'
<1>1. TypeOK /\ JobTypes /\ Loop \in Threads
  BY Names DEF NomInv
<1>2. /\ cycles \in 0..MaxCycles /\ faults \in 0..MaxFaults /\ MaxCycles \in Nat /\ MaxFaults \in Nat
      /\ queue \subseteq Pod /\ queued \in [Pod -> Nominee]
  BY <1>1, NominationAssumption DEF TypeOK
<1>3. ASSUME NEW p \in Pod, Pop(p) PROVE NomInv'
  <2> DEFINE popped == [at |-> "popped", pod |-> p, nnn |-> queued[p]]
  <2>1. /\ job[Loop].at = "idle" /\ cycles' \in 0..MaxCycles /\ queue' = queue \ {p}
        /\ job' = [job EXCEPT ![Loop] = popped]
        /\ UNCHANGED <<view, coming, ahead, queued, nominated, assumed, occupied, promised, faults>>
    BY <1>2, <1>3 DEF Pop, At, pods
  <2>2. popped \in Jobs
    BY <1>2 DEF Jobs
  <2>3. JobOnly(Loop) /\ job'[Loop] = popped
    BY <1>1, <1>2, <2>1, <2>2 DEF JobOnly, JobTypes
  <2>4. \A q \in Pod : ~WithLoop(q)
    BY <2>1 DEF WithLoop
  <2>5. WithLoop(p)'
    BY <2>3 DEF WithLoop
  <2> QED
    BY <1>1, <2>1, <2>3, <2>4, <2>5, JobStep
<1>4. CASE Skip
  <2>1. /\ job[Loop].at = "popped" /\ assumed[job[Loop].pod] # NoNode
        /\ job' = [job EXCEPT ![Loop] = Idle]
        /\ UNCHANGED <<view, coming, ahead, queue, queued, nominated, assumed, occupied, promised,
                       cycles, faults>>
    BY <1>4 DEF Skip, At, pods, schedulingQueue, bounds
  <2>2. JobOnly(Loop) /\ job'[Loop] = Idle /\ Idle.at = "idle"
    BY <1>1, <1>2, <2>1 DEF JobOnly, JobTypes, Jobs, Idle
  <2>3. \A q \in Pod : WithLoop(q) => promised[q] \notin Node
    BY <2>1 DEF WithLoop, NomInv, PromiseStands
  <2> QED
    BY <1>1, <2>1, <2>2, <2>3, JobStep
<1>5. ASSUME NEW p \in Pod, NEW info \in Info, Selecting(p), Failed(Loop, info), faults' \in 0..MaxFaults,
             UNCHANGED <<view, coming, ahead, queue, queued, nominated, assumed, occupied,
                         promised, cycles>>
      PROVE  NomInv'
  <2> DEFINE f == [at |-> "failed", pod |-> job[Loop].pod, nnn |-> job[Loop].nnn, info |-> info]
  <2>1. job[Loop].at = "popped" /\ job[Loop].pod = p /\ assumed[p] = NoNode
    BY <1>5 DEF Selecting, At
  <2>2. job' = [job EXCEPT ![Loop] = f]
    BY <1>5 DEF Failed
  <2>3. f \in Jobs
    BY <1>1, <2>1, JobParts DEF Jobs
  <2>4. JobOnly(Loop) /\ job'[Loop] = f
    BY <1>1, <1>2, <1>5, <2>2, <2>3 DEF JobOnly, JobTypes
  <2>5. \A q \in Pod : WithLoop(q) => WithLoop(q)'
    BY <2>1, <2>4 DEF WithLoop
  <2> QED
    BY <1>1, <1>5, <2>1, <2>4, <2>5, JobStep
<1>6. CASE AssumeFails
  BY <1>2, <1>5, <1>6 DEF AssumeFails, pods, schedulingQueue, bounds, Info, Nominee
<1>7. CASE PostFilter
  BY <1>2, <1>5, <1>7 DEF PostFilter, pods, schedulingQueue, bounds, Info
<1>8. CASE ScheduleFails
  BY <1>2, <1>5, <1>8 DEF ScheduleFails, pods, schedulingQueue, Info, Nominee, Fault
<1> QED
  BY <1>3, <1>4, <1>6, <1>7, <1>8

\* Looking up a failed pod in the informer's store keeps it.
LEMMA LookUpStep == ASSUME NomInv, NEW t \in Threads, LookUpPod(t) PROVE NomInv'
<1> DEFINE p == job[t].pod
           stored == Stored(p)
           next == [at |-> IF Pending(stored) THEN "requeue" ELSE "nominate", pod |-> p,
                    nnn |-> job[t].nnn, info |-> job[t].info, queued |-> FALSE,
                    cached |-> IF Pending(stored) THEN stored.nnn ELSE job[t].nnn]
<1>1. /\ TypeOK /\ JobTypes /\ job[t].at = "failed"
      /\ job' = [job EXCEPT ![t] = next]
      /\ UNCHANGED <<view, coming, ahead, queue, queued, nominated, assumed, occupied, promised,
                     cycles, faults>>
  BY DEF NomInv, LookUpPod, At, pods, schedulingQueue, bounds
<1>2. p \in Pod /\ job[t].nnn \in Nominee /\ job[t].info \in Info
  BY <1>1, JobParts DEF Failing
<1>3. stored \in Version
  BY <1>1, <1>2, Versions DEF NomInv
<1>4. next \in Jobs
  BY <1>2, <1>3 DEF Jobs, Version
<1>5. JobOnly(t) /\ job'[t] = next
  BY <1>1, <1>4 DEF JobOnly, JobTypes, TypeOK
<1>6. next.at \in {"requeue", "nominate"} /\ next.pod = p /\ next.info = job[t].info
      /\ (next.at = "nominate" => ~Pending(stored))
  OBVIOUS
<1>7. \A q \in Pod : WithLoop(q) => WithLoop(q)'
  <2>1. CASE t = Loop
    BY <1>5, <1>6, <2>1 DEF WithLoop
  <2>2. CASE t # Loop
    BY <1>5, <2>2, Names DEF WithLoop, JobOnly
  <2> QED
    BY <2>1, <2>2
<1>8. /\ job[t].info # NoNode => t = Loop
      /\ t = Loop => assumed[p] = NoNode
  BY <1>1 DEF NomInv, Roles, Failing
<1> HIDE DEF next, stored
<1> QED
  BY <1>1, <1>5, <1>6, <1>7, <1>8, JobStep DEF stored

-----------------------------------------------------------------------------
(* Assuming and binding.                                                   *)

\* Assuming a pod, which deletes its nomination, keeps it.
LEMMA AssumeStep == ASSUME NomInv, Assume PROVE NomInv'
<1>1. PICK p \in Pod, n \in Node :
        /\ job[Loop].at = "popped" /\ p = job[Loop].pod /\ assumed[p] = NoNode
        /\ assumed' = [assumed EXCEPT ![p] = n]
        /\ nominated' = [nominated EXCEPT ![p] = NoNode]
        /\ promised' = [promised EXCEPT ![p] = NoNode]
        /\ job' = [job EXCEPT ![Loop] = [at |-> "reserve", pod |-> p, nnn |-> job[Loop].nnn, node |-> n]]
  <2>1. PICK p \in Pod, n \in Node :
          /\ Selecting(p)
          /\ assumed' = [assumed EXCEPT ![p] = n]
          /\ nominated' = AfterAssume(p)
          /\ promised' = [promised EXCEPT ![p] = NoNode]
          /\ job' = [job EXCEPT ![Loop] = [at |-> "reserve", pod |-> p, nnn |-> @.nnn, node |-> n]]
    BY DEF Assume
  <2> QED
    BY <2>1 DEF Selecting, At, AfterAssume, Without
<1>2. UNCHANGED <<view, coming, ahead, queue, queued, occupied, cycles, faults>>
  BY DEF Assume, pods, bounds
<1>3. TypeOK /\ JobTypes /\ Loop \in Threads /\ NoNode \notin Node
  BY Names DEF NomInv
<1> DEFINE next == [at |-> "reserve", pod |-> p, nnn |-> job[Loop].nnn, node |-> n]
<1>4. next \in Jobs
  BY <1>1, <1>3, JobParts DEF Jobs
<1>5. /\ JobTypes' /\ job'[Loop] = next /\ next.at = "reserve" /\ next.pod = p /\ next.node = n
      /\ \A u \in Threads \ {Loop} : job'[u] = job[u]
  BY <1>1, <1>3, <1>4 DEF JobTypes
<1>6. /\ assumed'[p] = n /\ nominated'[p] = NoNode /\ promised'[p] = NoNode
      /\ \A q \in Pod \ {p} : assumed'[q] = assumed[q] /\ nominated'[q] = nominated[q]
                              /\ promised'[q] = promised[q]
      /\ assumed' \in [Pod -> Nominee] /\ nominated' \in [Pod -> Nominee] /\ promised' \in [Pod -> Nominee]
  BY <1>1, <1>3 DEF TypeOK, Nominee
<1> HIDE DEF next
<1>7. NeverPendingAgain' /\ \A q : Stored(q)' = Stored(q)
  BY <1>2, PodsKept DEF NomInv
<1>8. ASSUME NEW u \in Threads \ {Loop}, job[u].at \in {"reserve", "bind"}, job[u].pod = p
      PROVE  ~Pending(view[p])
  <2>1. job[u].node \in Node
    BY <1>3, <1>8, JobParts DEF Binding
  <2> QED
    BY <1>1, <1>3, <1>8, <2>1 DEF TypeOK
<1>9. TypeOK'
  <2>1. ASSUME NEW u \in Threads, job'[u].at # "idle"
        PROVE  job'[u].pod \in Pod /\ job'[u].nnn \in Nominee
    BY <1>5, <2>1, JobParts DEF JobTypes, Jobs
  <2>2. ASSUME NEW u \in Threads, job'[u].at \in {"reserve", "bind"}
        PROVE  job'[u].node = assumed'[job'[u].pod] \/ ~Pending(view[job'[u].pod])
    <3>1. CASE u = Loop
      BY <1>5, <1>6, <3>1
    <3>2. CASE u # Loop /\ job[u].pod = p
      BY <1>5, <1>8, <2>2, <3>2
    <3>3. CASE u # Loop /\ job[u].pod # p
      <4>1. job[u].pod \in Pod
        BY <1>3, <1>5, <2>2, <3>3, JobParts
      <4>2. job[u].node = assumed[job[u].pod] \/ ~Pending(view[job[u].pod])
        BY <1>3, <1>5, <2>2, <3>3 DEF TypeOK
      <4>3. job'[u] = job[u] /\ assumed'[job[u].pod] = assumed[job[u].pod]
        BY <1>5, <1>6, <3>3, <4>1
      <4> QED
        BY <4>2, <4>3
    <3> QED
      BY <3>1, <3>2, <3>3
  <2> QED
    BY <1>2, <1>3, <1>6, <2>1, <2>2 DEF TypeOK, At, Pending
<1>10. Roles'
  <2>1. \A t \in Threads : job'[t].at \in {"popped", "reserve"} => t = Loop
    BY <1>5 DEF NomInv, Roles
  <2>2. \A t \in Threads : Failing(t)' => t # Loop /\ Failing(t) /\ job'[t] = job[t]
    BY <1>5 DEF Failing
  <2> QED
    BY <1>3, <2>1, <2>2 DEF NomInv, Roles
<1>11. OneBinds'
  <2>1. ASSUME NEW t \in Threads, NEW u \in Threads, t # u, Binding(t)', Binding(u)',
               job'[t].pod = job'[u].pod
        PROVE  ~Pending(view[job'[t].pod])
    BY <1>5, <1>8, <2>1 DEF NomInv, OneBinds, Binding
  <2> QED
    BY <1>2, <2>1 DEF OneBinds, Pending
<1>12. BoundNotNominated'
  BY <1>2, <1>6 DEF NomInv, BoundNotNominated, Pending
<1>13. LoopRequeued'
  BY <1>5 DEF LoopRequeued, At
<1>14. PromiseStands'
  <2>1. \A q \in Pod \ {p} : ~WithLoop(q)
    BY <1>1 DEF WithLoop
  <2> QED
    BY <1>2, <1>3, <1>6, <2>1 DEF NomInv, PromiseStands
<1>15. NominatedWantsNode'
  <2>1. \A q \in Pod : Handled(q) => Handled(q)'
    BY <1>1, <1>5 DEF Handled
  <2> QED
    BY <1>2, <1>3, <1>6, <1>7, <2>1 DEF NomInv, NominatedWantsNode, Pending
<1> QED
  BY <1>5, <1>7, <1>9, <1>10, <1>11, <1>12, <1>13, <1>14, <1>15 DEF NomInv

\* Handing a reserved pod to a binder keeps it.
LEMMA StartBindingStep == ASSUME NomInv, NEW b \in Binders, StartBinding(b) PROVE NomInv'
<1> DEFINE next == [job[Loop] EXCEPT !.at = "bind"]
           p == job[Loop].pod
<1>1. /\ job[Loop].at = "reserve" /\ job[b].at = "idle"
      /\ job' = [job EXCEPT ![b] = next, ![Loop] = Idle]
      /\ UNCHANGED <<view, coming, ahead, queue, queued, nominated, assumed, occupied, promised,
                     cycles, faults>>
  BY DEF StartBinding, At, pods, schedulingQueue, bounds
<1>2. /\ TypeOK /\ JobTypes /\ Loop \in Threads /\ b \in Threads /\ b # Loop
  BY NominationAssumption DEF NomInv, Threads
<1>3. /\ job[Loop] \in [at : {"reserve", "bind"}, pod : Pod, nnn : Nominee, node : Node]
      /\ p \in Pod
  BY <1>1, <1>2, JobParts DEF Binding
<1>4. /\ next \in Jobs /\ next.at = "bind" /\ next.pod = p /\ next.node = job[Loop].node
      /\ next.nnn = job[Loop].nnn
  BY <1>3 DEF Jobs
<1>5. Idle \in Jobs /\ Idle.at = "idle"
  BY DEF Idle, Jobs
<1> HIDE DEF next
<1>6. /\ JobTypes' /\ job'[b] = next /\ job'[Loop] = Idle
      /\ \A u \in Threads \ {b, Loop} : job'[u] = job[u]
  BY <1>1, <1>2, <1>4, <1>5 DEF JobTypes
<1>7. NeverPendingAgain' /\ \A q : Stored(q)' = Stored(q)
  BY <1>1, PodsKept DEF NomInv
<1>8. TypeOK'
  <2>1. ASSUME NEW u \in Threads, job'[u].at # "idle"
        PROVE  job'[u].pod \in Pod /\ job'[u].nnn \in Nominee
    BY <1>6, <2>1, JobParts DEF JobTypes, Jobs
  <2>2. ASSUME NEW u \in Threads, job'[u].at \in {"reserve", "bind"}
        PROVE  job'[u].node = assumed[job'[u].pod] \/ ~Pending(view[job'[u].pod])
    BY <1>1, <1>2, <1>4, <1>5, <1>6, <2>2, ZenonT(40) DEF TypeOK
  <2> QED
    BY <1>1, <1>2, <2>1, <2>2 DEF TypeOK, At, Pending
<1>9. Roles'
  <2>1. \A t \in Threads : job'[t].at \in {"popped", "reserve"} => t = Loop
    BY <1>4, <1>6 DEF NomInv, Roles
  <2>2. \A t \in Threads : Failing(t)' => t # Loop /\ Failing(t) /\ job'[t] = job[t]
    BY <1>4, <1>5, <1>6 DEF Failing
  <2> QED
    BY <1>2, <2>1, <2>2 DEF NomInv, Roles
<1>10. OneBinds'
  <2>1. ASSUME NEW t \in Threads, NEW u \in Threads, t # u, Binding(t)', Binding(u)',
               job'[t].pod = job'[u].pod
        PROVE  ~Pending(view[job'[t].pod])
    <3>1. t # Loop /\ u # Loop
      BY <1>5, <1>6, <2>1 DEF Binding
    <3>2. Binding(Loop)
      BY <1>1 DEF Binding
    <3> QED
      BY <1>2, <1>4, <1>6, <2>1, <3>1, <3>2 DEF NomInv, OneBinds, Binding
  <2> QED
    BY <1>1, <2>1 DEF OneBinds, Pending
<1>11. BoundNotNominated'
  BY <1>1 DEF NomInv, BoundNotNominated, Pending
<1>12. LoopRequeued'
  BY <1>5, <1>6 DEF LoopRequeued, At
<1>13. PromiseStands'
  <2>1. \A q \in Pod : ~WithLoop(q)
    BY <1>1 DEF WithLoop
  <2> QED
    BY <1>1, <2>1 DEF NomInv, PromiseStands
<1>14. NominatedWantsNode'
  <2>1. \A q \in Pod : Handled(q) => Handled(q)'
    BY <1>1, <1>6 DEF Handled
  <2> QED
    BY <1>1, <1>7, <2>1 DEF NomInv, NominatedWantsNode, Pending
<1> QED
  BY <1>6, <1>7, <1>8, <1>9, <1>10, <1>11, <1>12, <1>13, <1>14 DEF NomInv

\* A thread is done, or forgets the assumed pod that it could not bind, and what is
\* written of the pod is yet to come.
Coming ==
  /\ coming' \in [Pod -> Seq(Version)] /\ ahead' \subseteq {p \in Pod : coming'[p] # <<>>}
  /\ \A p \in Pod : Stored(p)' = Stored(p)
  /\ NeverPendingAgain'
Ends(t) ==
  /\ job[t].at \in {"reserve", "bind", "update"}
  /\ \/ job'[t].at = "idle" /\ assumed' = assumed
     \/ /\ Binding(t) /\ assumed' = [assumed EXCEPT ![job[t].pod] = NoNode]
        /\ job'[t].at = "failed" /\ job'[t].info = NoNode /\ job'[t].pod = job[t].pod

\* A thread that is done with its pod keeps it.
LEMMA EndStep ==
  ASSUME NomInv, NEW t \in Threads, Ends(t) \/ (assumed' = assumed /\ job'[t] = job[t]), Coming,
         UNCHANGED <<view, ahead, queue, queued, nominated, occupied, promised>>,
         cycles' \in 0..MaxCycles, faults' \in 0..MaxFaults,
         JobTypes', \A u \in Threads \ {t} : job'[u] = job[u]
  PROVE  NomInv'
<1> USE DEF Coming
<1>1. TypeOK /\ JobTypes /\ Loop \in Threads /\ NoNode \notin Node
  BY Names DEF NomInv
<1>2. ASSUME assumed' # assumed
      PROVE  /\ Binding(t) /\ job[t].pod \in Pod /\ assumed'[job[t].pod] = NoNode
             /\ \A q \in Pod \ {job[t].pod} : assumed'[q] = assumed[q]
             /\ job'[t].at = "failed" /\ job'[t].info = NoNode /\ job'[t].pod = job[t].pod
  BY <1>1, <1>2, JobParts DEF Ends, TypeOK, Binding
<1>3. assumed' \in [Pod -> Nominee] /\ \A q \in Pod : assumed'[q] \in {assumed[q], NoNode}
  <2>1. CASE assumed' = assumed
    BY <1>1, <2>1 DEF TypeOK
  <2>2. CASE assumed' # assumed
    <3>1. assumed' = [assumed EXCEPT ![job[t].pod] = NoNode]
      BY <2>2 DEF Ends
    <3> QED
      BY <1>1, <3>1 DEF TypeOK, Nominee
  <2> QED
    BY <2>1, <2>2
<1>4. TypeOK'
  <2>1. ASSUME NEW u \in Threads, job'[u].at # "idle"
        PROVE  job'[u].pod \in Pod /\ job'[u].nnn \in Nominee
    BY <2>1, JobParts DEF JobTypes, Jobs
  <2>2. ASSUME NEW u \in Threads, job'[u].at \in {"reserve", "bind"}
        PROVE  job'[u].node = assumed'[job'[u].pod] \/ ~Pending(view[job'[u].pod])
    <3>1. job'[u] = job[u]
      BY <2>2 DEF Ends
    <3>2. job[u].pod \in Pod /\ (job[u].node = assumed[job[u].pod] \/ ~Pending(view[job[u].pod]))
      BY <1>1, <2>2, <3>1, JobParts DEF TypeOK
    <3>3. CASE assumed' # assumed /\ job[u].pod = job[t].pod
      <4>1. u # t /\ Binding(u)
        BY <1>2, <2>2, <3>1, <3>3 DEF Binding
      <4> QED
        BY <1>2, <3>1, <3>3, <4>1 DEF NomInv, OneBinds
    <3> QED
      BY <1>2, <3>1, <3>2, <3>3
  <2> QED
    BY <1>1, <1>3, <2>1, <2>2 DEF TypeOK, At, Pending
<1>5. Roles'
  <2>1. \A u \in Threads : job'[u].at \in {"popped", "reserve"} => u = Loop
    BY DEF NomInv, Roles, Ends
  <2>2. \A u \in Threads : Failing(u)' =>
          \/ Failing(u) /\ job'[u] = job[u]
          \/ u = t /\ job'[u].info = NoNode /\ assumed'[job'[u].pod] = NoNode
    <3>1. ASSUME Ends(t), Failing(t)'
          PROVE  job'[t].info = NoNode /\ assumed'[job'[t].pod] = NoNode
      BY <1>1, <3>1, JobParts DEF Ends, Failing, Binding, TypeOK
    <3> QED
      BY <3>1 DEF Failing
  <2>3. Failing(Loop) => job[Loop].pod \in Pod
    BY <1>1, JobParts DEF Failing
  <2> QED
    BY <1>1, <1>3, <2>1, <2>2, <2>3 DEF NomInv, Roles
<1>6. OneBinds'
  <2>1. \A u \in Threads : Binding(u)' => Binding(u) /\ job'[u] = job[u]
    BY DEF Binding, Ends
  <2> QED
    BY <2>1 DEF NomInv, OneBinds, Pending
<1>7. BoundNotNominated'
  BY DEF NomInv, BoundNotNominated, Pending
<1>8. LoopRequeued'
  <2>1. At(Loop, "nominate")' => At(Loop, "nominate") /\ job'[Loop] = job[Loop]
    BY <1>1 DEF At, Ends
  <2>2. At(Loop, "nominate") => job[Loop].pod \in Pod
    BY <1>1, JobParts DEF At
  <2> QED
    BY <2>1, <2>2 DEF NomInv, LoopRequeued, Pending
<1>9. PromiseStands'
  <2>1. \A q \in Pod : WithLoop(q) => WithLoop(q)'
    BY <1>1 DEF WithLoop, Ends
  <2> QED
    BY <1>3, <2>1 DEF NomInv, PromiseStands
<1>10. NominatedWantsNode'
  <2>1. \A q \in Pod : Handled(q) => Handled(q)'
    BY DEF Handled, Ends
  <2> QED
    BY <1>3, <2>1 DEF NomInv, NominatedWantsNode, Pending
<1> QED
  BY <1>4, <1>5, <1>6, <1>7, <1>8, <1>9, <1>10 DEF NomInv

\* Nothing is written, or a version of the pod that is not pending if the last was not.
LEMMA ComingKept ==
  ASSUME NomInv, UNCHANGED <<view, ahead>>,
         \/ coming' = coming
         \/ \E p \in Pod, v \in Version : Write(p, v) /\ (Pending(Live(p)) \/ ~Pending(v))
  PROVE  Coming
<1>1. TypeOK /\ NeverPendingAgain
  BY DEF NomInv
<1>2. CASE coming' = coming
  BY <1>1, <1>2, PodsKept DEF Coming, TypeOK
<1>3. ASSUME NEW p \in Pod, NEW v \in Version, Write(p, v), Pending(Live(p)) \/ ~Pending(v)
      PROVE  Coming
  BY <1>1, <1>3, WriteKeeps DEF Coming
<1> QED
  BY <1>2, <1>3

\* Versions that are written: of a pod that got a node, or another nomination.
LEMMA Written ==
  ASSUME NomInv, NEW p \in Pod
  PROVE  /\ Live(p) \in Version
         /\ \A n \in Node \cup {Gone} : LET v == [Live(p) EXCEPT !.node = n]
                                       IN v \in Version /\ ~Pending(v)
         /\ \A n \in Nominee : LET v == [Live(p) EXCEPT !.nnn = n]
                               IN v \in Version /\ (Pending(v) <=> Pending(Live(p)))
<1>1. Live(p) \in Version
  BY Versions DEF NomInv
<1> QED
  BY <1>1, Names DEF Version, Pending, Nominee

\* A binding that succeeds, fails or is not permitted keeps it.
LEMMA BindSteps ==
  ASSUME NomInv, ReserveOrPermitFails \/ \E b \in Binders : Bind(b) \/ BindFails(b)
  PROVE  NomInv'
<1>1. TypeOK /\ JobTypes /\ Loop \in Threads /\ NoNode \in Info /\ Idle \in Jobs /\ Idle.at = "idle"
  BY Names DEF NomInv, Info, Nominee, Idle, Jobs
<1>2. cycles \in 0..MaxCycles /\ faults \in 0..MaxFaults /\ MaxFaults \in Nat
  BY <1>1, NominationAssumption DEF TypeOK
<1>3. Fault => faults' \in 0..MaxFaults
  BY <1>2 DEF Fault
<1>4. ASSUME NEW t \in Threads, Binding(t), Forget(job[t].pod), Failed(t, NoNode)
      PROVE  Ends(t) /\ JobTypes' /\ \A u \in Threads \ {t} : job'[u] = job[u]
  <2> DEFINE f == [at |-> "failed", pod |-> job[t].pod, nnn |-> job[t].nnn, info |-> NoNode]
  <2>1. job' = [job EXCEPT ![t] = f] /\ assumed' = [assumed EXCEPT ![job[t].pod] = NoNode]
    BY <1>4 DEF Failed, Forget
  <2>2. f \in Jobs
    BY <1>1, <1>4, JobParts DEF Jobs, Binding
  <2>3. JobTypes' /\ job'[t] = f /\ \A u \in Threads \ {t} : job'[u] = job[u]
    BY <1>1, <2>1, <2>2 DEF JobTypes
  <2> QED
    BY <1>4, <2>1, <2>3 DEF Ends, Binding
<1>5. CASE ReserveOrPermitFails
  <2>1. /\ Binding(Loop) /\ Fault /\ Forget(job[Loop].pod) /\ Failed(Loop, NoNode)
        /\ UNCHANGED <<view, coming, ahead, queue, queued, nominated, occupied, promised, cycles>>
    BY <1>5 DEF ReserveOrPermitFails, At, Binding, pods, schedulingQueue
  <2> QED
    BY <1>1, <1>2, <1>3, <1>4, <2>1, ComingKept, EndStep
<1>6. ASSUME NEW b \in Binders, Bind(b) PROVE NomInv'
  <2> DEFINE p == job[b].pod
             v == [Live(p) EXCEPT !.node = job[b].node]
  <2>1. /\ job[b].at = "bind" /\ Pending(Live(p)) /\ Write(p, v) /\ job' = [job EXCEPT ![b] = Idle]
        /\ UNCHANGED <<view, ahead, queue, queued, nominated, assumed, occupied, promised, cycles, faults>>
    BY <1>6 DEF Bind, At, schedulingQueue, bounds
  <2>2. b \in Threads /\ p \in Pod /\ job[b].node \in Node
    BY <1>1, <2>1, JobParts DEF Threads, Binding
  <2>3. v \in Version
    BY <2>2, Written
  <2> HIDE DEF v
  <2>4. Coming
    BY <2>1, <2>2, <2>3, ComingKept
  <2>5. JobTypes' /\ job'[b] = Idle /\ \A u \in Threads \ {b} : job'[u] = job[u]
    BY <1>1, <2>1, <2>2 DEF JobTypes
  <2>6. Ends(b)
    BY <1>1, <2>1, <2>5 DEF Ends
  <2> QED
    BY <1>2, <2>1, <2>2, <2>4, <2>5, <2>6, EndStep
<1>7. ASSUME NEW b \in Binders, BindFails(b) PROVE NomInv'
  <2> DEFINE p == job[b].pod
             v == [Live(p) EXCEPT !.node = job[b].node]
  <2>1. /\ job[b].at = "bind" /\ Forget(p) /\ Failed(b, NoNode)
        /\ faults' \in 0..MaxFaults
        /\ coming' = coming \/ (Write(p, v) /\ Pending(Live(p)))
        /\ UNCHANGED <<view, ahead, queue, queued, nominated, occupied, promised, cycles>>
    BY <1>2, <1>3, <1>7 DEF BindFails, At, schedulingQueue
  <2>2. b \in Threads /\ p \in Pod /\ job[b].node \in Node /\ Binding(b)
    BY <1>1, <2>1, JobParts DEF Threads, Binding
  <2>3. v \in Version
    BY <2>2, Written
  <2> HIDE DEF v
  <2>4. Coming
    BY <2>1, <2>2, <2>3, ComingKept
  <2>5. Ends(b) /\ JobTypes' /\ \A u \in Threads \ {b} : job'[u] = job[u]
    BY <1>4, <2>1, <2>2
  <2> QED
    BY <1>2, <2>1, <2>2, <2>4, <2>5, EndStep
<1> QED
  BY <1>5, <1>6, <1>7

\* The patch of the pod's status keeps it.
LEMMA UpdateStep == ASSUME NomInv, NEW t \in Threads, UpdatePod(t) PROVE NomInv'
<1> DEFINE p == job[t].pod
           info == job[t].info
           v == IF NeedsUpdate(job[t].nnn, info) THEN [Live(p) EXCEPT !.nnn = info] ELSE Live(p)
<1>1. TypeOK /\ JobTypes /\ Idle \in Jobs /\ Idle.at = "idle"
  BY DEF NomInv, Idle, Jobs
<1>2. /\ job[t].at = "update" /\ job' = [job EXCEPT ![t] = Idle]
      /\ coming' = coming \/ Write(p, v)
      /\ faults' = faults \/ Fault
      /\ UNCHANGED <<view, ahead, queue, queued, nominated, assumed, occupied, promised, cycles>>
  BY DEF UpdatePod, At, schedulingQueue
<1>3. p \in Pod /\ info \in Info
  BY <1>1, <1>2, JobParts
<1>4. v \in Version /\ (Pending(v) <=> Pending(Live(p)))
  BY <1>3, Written DEF Info, NeedsUpdate
<1> HIDE DEF v
<1>5. Coming
  BY <1>2, <1>3, <1>4, ComingKept
<1>6. JobTypes' /\ job'[t] = Idle /\ \A u \in Threads \ {t} : job'[u] = job[u]
  BY <1>1, <1>2 DEF JobTypes
<1>7. Ends(t)
  BY <1>1, <1>2, <1>6 DEF Ends
<1>8. cycles' \in 0..MaxCycles /\ faults' \in 0..MaxFaults
  BY <1>1, <1>2, NominationAssumption DEF TypeOK, Fault
<1> QED
  BY <1>2, <1>5, <1>6, <1>7, <1>8, EndStep

\* The deletion of a pod keeps it.
LEMMA DeleteStep == ASSUME NomInv, NEW p \in Pod, Delete(p) PROVE NomInv'
<1> DEFINE v == [Live(p) EXCEPT !.node = Gone]
<1>1. /\ Fault /\ Write(p, v) /\ job' = job
      /\ UNCHANGED <<view, ahead, queue, queued, nominated, assumed, occupied, promised, cycles>>
  BY DEF Delete, schedulingQueue
<1>2. v \in Version /\ ~Pending(v)
  BY Written
<1> HIDE DEF v
<1>3. Coming
  BY <1>1, <1>2, ComingKept
<1>4. cycles' \in 0..MaxCycles /\ faults' \in 0..MaxFaults
  BY <1>1, NominationAssumption DEF NomInv, TypeOK, Fault
<1>5. Loop \in Threads /\ JobTypes'
  BY <1>1, Names DEF NomInv, JobTypes
<1> QED
  BY <1>1, <1>3, <1>4, <1>5, EndStep

\* The steps of the failure handler that write the nominator: for its pod p, and only
\* if that is still pending anything but the end of a nomination.
Handles(t, p) ==
  /\ UNCHANGED <<view, coming, ahead, assumed, occupied, cycles, faults>>
  /\ job[t].at \in {"requeue", "nominate"} /\ p = job[t].pod
  /\ job'[t].at \in {"nominate", "update"}
  /\ job'[t].pod = p /\ job'[t].info = job[t].info
  /\ job' \in [Threads -> Jobs] /\ \A u \in Threads \ {t} : job'[u] = job[u]
  /\ queue \subseteq queue' /\ queue' \subseteq queue \cup {p}
  /\ job'[t].at = "nominate" => p \in queue'
  /\ queued' \in [Pod -> Nominee]
  /\ nominated' \in [Pod -> Nominee] /\ \A q \in Pod \ {p} : nominated'[q] = nominated[q]
  /\ ~Pending(Stored(p)) => nominated'[p] \in {nominated[p], NoNode}
  /\ job'[t].at = "update" => t = Loop \/ nominated'[p] = NoNode
  /\ promised' \in [Pod -> Nominee] /\ \A q \in Pod \ {p} : promised'[q] = promised[q]
  /\ promised'[p] \in Node =>
       /\ assumed[p] = NoNode /\ view[p].nnn \in {NoNode, promised'[p]}
       /\ WithLoop(p)' \/ (p \in queue' /\ nominated'[p] = promised'[p])

\* A step of the failure handler that settles the nomination of its pod keeps it.
LEMMA HandlesStep == ASSUME NomInv, NEW t \in Threads, NEW p \in Pod, Handles(t, p) PROVE NomInv'
<1> USE DEF Handles
<1>1. NeverPendingAgain' /\ \A q : Stored(q)' = Stored(q)
  BY PodsKept DEF NomInv
<1>2. TypeOK /\ JobTypes /\ JobTypes' /\ Loop \in Threads /\ NoNode \notin Node
  BY Names DEF NomInv, JobTypes
<1>3. TypeOK'
  <2>1. ASSUME NEW u \in Threads, job'[u].at # "idle"
        PROVE  job'[u].pod \in Pod /\ job'[u].nnn \in Nominee
    BY <1>2, <2>1, JobParts DEF JobTypes, Jobs
  <2>2. ASSUME NEW u \in Threads, job'[u].at \in {"reserve", "bind"}
        PROVE  job'[u].node = assumed[job'[u].pod] \/ ~Pending(view[job'[u].pod])
    BY <1>2, <2>2, ZenonT(40) DEF TypeOK
  <2> QED
    BY <1>2, <2>1, <2>2 DEF TypeOK, At, Pending
<1>4. Roles'
  <2>1. \A u \in Threads : job'[u].at \in {"popped", "reserve"} => u = Loop
    BY DEF NomInv, Roles
  <2>2. \A u \in Threads : Failing(u)' =>
          Failing(u) /\ job'[u].pod = job[u].pod /\ job'[u].info = job[u].info
    BY DEF Failing
  <2> QED
    BY <1>2, <2>1, <2>2 DEF NomInv, Roles
<1>5. OneBinds'
  <2>1. \A u \in Threads : Binding(u)' => Binding(u) /\ job'[u] = job[u]
    BY DEF Binding
  <2> QED
    BY <2>1 DEF NomInv, OneBinds, Pending
<1>6. BoundNotNominated'
  <2>1. ~Pending(view[p]) => nominated'[p] = NoNode
    BY Versions DEF NomInv, BoundNotNominated
  <2> QED
    BY <2>1 DEF NomInv, BoundNotNominated, Pending
<1>7. LoopRequeued'
  <2>1. CASE t = Loop
    BY <2>1 DEF LoopRequeued, At
  <2>2. CASE t # Loop
    BY <1>1, <1>2, <2>2 DEF NomInv, LoopRequeued, At, Pending
  <2> QED
    BY <2>1, <2>2
<1>8. PromiseStands'
  <2>1. \A q \in Pod \ {p} : WithLoop(q) => WithLoop(q)'
    BY <1>2 DEF WithLoop
  <2> QED
    BY <2>1 DEF NomInv, PromiseStands
<1>9. NominatedWantsNode'
  <2>1. ASSUME NEW q \in Pod \ {p} PROVE Handled(q) => Handled(q)'
    BY DEF Handled
  <2>2. ASSUME nominated'[p] \in Node
        PROVE  /\ Pending(Stored(p)) \/ p \in ahead
               /\ assumed[p] = NoNode \/ Handled(p)'
    <3>1. Pending(Stored(p)) \/ p \in ahead
      BY <1>2, <2>2 DEF NomInv, NominatedWantsNode
    <3>2. CASE job'[t].at = "update"
      BY <1>2, <2>2, <3>1, <3>2 DEF NomInv, Roles, Failing
    <3>3. CASE job'[t].at = "nominate"
      BY <3>1, <3>3 DEF Handled
    <3> QED
      BY <3>2, <3>3
  <2> QED
    BY <1>1, <2>1, <2>2 DEF NomInv, NominatedWantsNode, Pending
<1> QED
  BY <1>1, <1>2, <1>3, <1>4, <1>5, <1>6, <1>7, <1>8, <1>9 DEF NomInv

\* Putting a failed pod back into the queue keeps it.
LEMMA RequeueStep == ASSUME NomInv, NEW t \in Threads, Requeue(t) PROVE NomInv'
<1>1. TypeOK /\ JobTypes /\ Loop \in Threads /\ Keep # NoNode
  BY Names DEF NomInv
<1>p. PICK p \in Pod : p = job[t].pod
  BY <1>1, JobParts DEF Requeue, At
<1> DEFINE c == job[t].cached
           turned == [job[t] EXCEPT !.at = "nominate"]
           requeued == [job[t] EXCEPT !.at = "nominate", !.queued = TRUE]
<1>2. /\ job[t].at = "requeue"
      /\ UNCHANGED <<view, coming, ahead, assumed, occupied, promised, cycles, faults>>
      /\ \/ /\ p \in queue /\ UNCHANGED <<queue, queued, nominated>>
            /\ job' = [job EXCEPT ![t] = turned]
         \/ /\ p \notin queue /\ queue' = queue \cup {p} /\ queued' = [queued EXCEPT ![p] = c]
            /\ nominated' = Added(p, c, Keep)
            /\ job' = [job EXCEPT ![t] = requeued]
  BY <1>p DEF Requeue, At, Turn, schedulingQueue, pods, bounds
<1>3. /\ c \in Nominee
      /\ job[t] \in [at : {"requeue", "nominate", "update"}, pod : Pod, nnn : Nominee,
                     info : Info, queued : BOOLEAN, cached : Nominee]
  BY <1>1, <1>2, JobParts
<1>4. \A j \in {turned, requeued} :
        j \in Jobs /\ j.at = "nominate" /\ j.pod = p /\ j.info = job[t].info
  BY <1>3, <1>p DEF Jobs
<1> HIDE DEF turned, requeued
<1>5. /\ job' \in [Threads -> Jobs] /\ job'[t] \in {turned, requeued}
      /\ \A u \in Threads \ {t} : job'[u] = job[u]
  BY <1>1, <1>2, <1>4 DEF JobTypes
<1>6. /\ queue \subseteq queue' /\ queue' \subseteq queue \cup {p} /\ p \in queue'
      /\ queued' \in [Pod -> Nominee]
  BY <1>1, <1>2, <1>3 DEF TypeOK
<1>7. /\ nominated' \in [Pod -> Nominee] /\ \A q \in Pod \ {p} : nominated'[q] = nominated[q]
      /\ ~Pending(Stored(p)) => nominated'[p] \in {nominated[p], NoNode}
  BY <1>1, <1>2, <1>3 DEF TypeOK, Added, Nominee
<1>8. ASSUME promised'[p] \in Node
      PROVE  /\ assumed[p] = NoNode /\ view[p].nnn \in {NoNode, promised'[p]}
             /\ WithLoop(p)' \/ (p \in queue' /\ nominated'[p] = promised'[p])
  <2>1. WithLoop(p) => WithLoop(p)'
    <3>1. CASE t = Loop
      BY <1>4, <1>5, <1>p, <3>1 DEF WithLoop
    <3>2. CASE t # Loop
      BY <1>1, <1>4, <1>5, <1>p, <3>2 DEF WithLoop
    <3> QED
      BY <3>1, <3>2
  <2> QED
    BY <1>2, <1>3, <1>8, <2>1 DEF NomInv, PromiseStands
<1>9. Handles(t, p)
  BY <1>p, <1>1, <1>2, <1>3, <1>4, <1>5, <1>6, <1>7, <1>8 DEF Handles, TypeOK
<1> QED
  BY <1>9, HandlesStep

\* Nominating a node for a failed pod keeps it.
LEMMA AddNominatedStep == ASSUME NomInv, NEW t \in Threads, AddNominatedPod(t) PROVE NomInv'
<1>1. TypeOK /\ JobTypes /\ Loop \in Threads /\ Keep \notin Node /\ NoNode \notin Node /\ Keep # NoNode
  BY Names DEF NomInv
<1>p. PICK p \in Pod : p = job[t].pod
  BY <1>1, JobParts DEF AddNominatedPod, At
<1> DEFINE info == job[t].info
           turned == [job[t] EXCEPT !.at = "update"]
<1>2. PICK nnn \in {job[t].cached, queued[p]} :
        /\ job[t].at = "nominate"
        /\ nominated' = Added(p, nnn, info)
        /\ promised' = [promised EXCEPT ![p] =
             IF /\ info \in Node /\ Pending(Stored(p))
                /\ \A v \in {view[p], Stored(p)} : v.nnn = NoNode
             THEN info ELSE NoNode]
        /\ job' = [job EXCEPT ![t] = turned]
        /\ UNCHANGED <<view, coming, ahead, queue, queued, assumed, occupied, cycles, faults>>
  BY <1>p DEF AddNominatedPod, NominatedNow, At, Turn, pods, bounds
<1>3. /\ info \in Info /\ nnn \in Nominee
      /\ job[t] \in [at : {"requeue", "nominate", "update"}, pod : Pod, nnn : Nominee,
                     info : Info, queued : BOOLEAN, cached : Nominee]
  BY <1>1, <1>2, JobParts DEF TypeOK
<1>4. turned \in Jobs /\ turned.at = "update" /\ turned.pod = p /\ turned.info = info
  BY <1>3, <1>p DEF Jobs
<1> HIDE DEF turned
<1>5. /\ job' \in [Threads -> Jobs] /\ job'[t] = turned
      /\ \A u \in Threads \ {t} : job'[u] = job[u]
  BY <1>1, <1>2, <1>4 DEF JobTypes
<1>6. /\ nominated' \in [Pod -> Nominee] /\ \A q \in Pod \ {p} : nominated'[q] = nominated[q]
      /\ ~Pending(Stored(p)) => nominated'[p] = NoNode
      /\ info = NoNode => nominated'[p] = NoNode
      /\ Pending(Stored(p)) /\ info # Keep => nominated'[p] = info
  BY <1>1, <1>2, <1>3 DEF TypeOK, Added, Nominee, Info
<1>7. t = Loop \/ nominated'[p] = NoNode
  BY <1>2, <1>6 DEF NomInv, Roles, Failing
<1>8. /\ promised' \in [Pod -> Nominee] /\ \A q \in Pod \ {p} : promised'[q] = promised[q]
      /\ promised'[p] \in Node => /\ info = promised'[p] /\ Pending(Stored(p))
                                  /\ view[p].nnn = NoNode
  BY <1>1, <1>2, <1>3 DEF TypeOK, Nominee
<1>9. ASSUME promised'[p] \in Node
      PROVE  /\ assumed[p] = NoNode /\ view[p].nnn \in {NoNode, promised'[p]}
             /\ p \in queue' /\ nominated'[p] = promised'[p]
  <2>1. t = Loop
    BY <1>1, <1>2, <1>8, <1>9, <1>p DEF NomInv, Roles, Failing
  <2> QED
    BY <1>1, <1>2, <1>6, <1>8, <1>9, <1>p, <2>1 DEF NomInv, Roles, Failing, LoopRequeued, At
<1>10. Handles(t, p)
  BY <1>p, <1>1, <1>2, <1>3, <1>4, <1>5, <1>6, <1>7, <1>8, <1>9 DEF Handles, TypeOK
<1> QED
  BY <1>10, HandlesStep

\* The store gets what the event handlers will be told.
LEMMA ReceiveStep == ASSUME NomInv, NEW p \in Pod, Receive(p) PROVE NomInv'
<1>1. /\ coming[p] # <<>> /\ p \notin ahead /\ ahead' = ahead \cup {p}
      /\ UNCHANGED <<view, coming, queue, queued, nominated, assumed, occupied, job, promised,
                     cycles, faults>>
  BY DEF Receive, schedulingQueue, bounds
<1>2. TypeOK /\ NeverPendingAgain /\ JobTypes /\ Loop \in Threads
  BY Names DEF NomInv
<1>3. NeverPendingAgain'
  BY <1>1, <1>2 DEF NeverPendingAgain, Pending
<1>4. \A q \in Pod \ {p} : Stored(q)' = Stored(q)
  BY <1>1 DEF Stored
<1>5. ~Pending(Stored(p)) => ~Pending(Stored(p)')
  <2>1. 1 \in DOMAIN coming[p] /\ Stored(p)' = coming[p][1] /\ Stored(p) = view[p]
    <3>1. coming[p] \in Seq(Version)
      BY <1>2 DEF TypeOK
    <3>2. 1 \in DOMAIN coming[p] /\ Head(coming[p]) = coming[p][1]
      BY <1>1, <3>1, Queues
    <3> QED
      BY <1>1, <3>2 DEF Stored
  <2> QED
    BY <1>2, <2>1 DEF NeverPendingAgain
<1>6. TypeOK'
  BY <1>1, <1>2 DEF TypeOK, At, Pending
<1>7. JobTypes' /\ Roles' /\ OneBinds' /\ BoundNotNominated' /\ PromiseStands'
  BY <1>1 DEF NomInv, JobTypes, Roles, Failing, OneBinds, Binding, BoundNotNominated, PromiseStands,
              WithLoop, Pending
<1>8. LoopRequeued'
  <2>1. At(Loop, "nominate") => job[Loop].pod \in Pod
    BY <1>2, JobParts DEF At
  <2> QED
    BY <1>1, <1>4, <1>5, <2>1 DEF NomInv, LoopRequeued, At, Pending
<1>9. NominatedWantsNode'
  <2>1. \A q \in Pod : Handled(q)' <=> Handled(q)
    BY <1>1 DEF Handled
  <2> QED
    BY <1>1, <1>4, <2>1 DEF NomInv, NominatedWantsNode, Pending
<1> QED
  BY <1>2, <1>3, <1>6, <1>7, <1>8, <1>9 DEF NomInv

\* A victim that goes away keeps it.
LEMMA VacateStep == ASSUME NomInv, NEW n \in Node, Vacate(n) PROVE NomInv'
<1>1. /\ occupied' \subseteq occupied
      /\ UNCHANGED <<view, coming, ahead, queue, queued, nominated, assumed, job, promised,
                     cycles, faults>>
  BY DEF Vacate, schedulingQueue, bounds, pods
<1>2. NeverPendingAgain' /\ \A q : Stored(q)' = Stored(q)
  BY <1>1, PodsKept DEF NomInv
<1>3. TypeOK' /\ JobTypes'
  BY <1>1 DEF NomInv, TypeOK, JobTypes, At, Pending
<1>4. Roles' /\ OneBinds' /\ BoundNotNominated' /\ PromiseStands'
  BY <1>1 DEF NomInv, Roles, Failing, OneBinds, Binding, BoundNotNominated, PromiseStands,
              WithLoop, Pending
<1>5. LoopRequeued'
  BY <1>1, <1>2 DEF NomInv, LoopRequeued, At, Pending
<1>6. NominatedWantsNode'
  <2>1. \A q \in Pod : Handled(q)' <=> Handled(q)
    BY <1>1 DEF Handled
  <2> QED
    BY <1>1, <1>2, <2>1 DEF NomInv, NominatedWantsNode, Pending
<1> QED
  BY <1>2, <1>3, <1>4, <1>5, <1>6 DEF NomInv

\* The versions to come, without the one that is handled.
LEMMA HandledVersions ==
  ASSUME NomInv, NEW p \in Pod, Handle(p)
  PROVE  /\ Stored(p) \in Version /\ view' = [view EXCEPT ![p] = Stored(p)]
         /\ coming' \in [Pod -> Seq(Version)] /\ ahead' \subseteq {q \in Pod : coming'[q] # <<>>}
         /\ p \notin ahead' /\ \A q \in Pod \ {p} : q \in ahead' <=> q \in ahead
         /\ \A q \in Pod : Stored(q)' = Stored(q)
         /\ ~Pending(view[p]) => ~Pending(Stored(p))
         /\ NeverPendingAgain'
<1>1. TypeOK /\ NeverPendingAgain
  BY DEF NomInv
<1>2. /\ p \in ahead /\ view' = [view EXCEPT ![p] = Head(coming[p])]
      /\ coming' = [coming EXCEPT ![p] = Tail(@)] /\ ahead' = ahead \ {p}
  BY DEF Handle
<1>3. /\ Stored(p) \in Version /\ Stored(p) = Head(coming[p]) /\ Stored(p) = coming[p][1]
      /\ coming[p] # <<>> /\ (~Pending(view[p]) => ~Pending(Stored(p)))
  BY <1>1, <1>2, Versions
<1>4. /\ coming \in [Pod -> Seq(Version)] /\ view \in [Pod -> Version]
      /\ coming[p] \in Seq(Version)
  BY <1>1 DEF TypeOK
<1>5. /\ Len(coming[p]) \in Nat /\ 1 \in DOMAIN coming[p] /\ DOMAIN coming[p] = 1..Len(coming[p])
      /\ Tail(coming[p]) \in Seq(Version) /\ DOMAIN Tail(coming[p]) = 1..(Len(coming[p]) - 1)
      /\ \A i \in 1..(Len(coming[p]) - 1) :
           Tail(coming[p])[i] = coming[p][i + 1] /\ i + 1 \in DOMAIN coming[p]
  BY <1>3, <1>4, Queues
<1>6. /\ coming' \in [Pod -> Seq(Version)] /\ coming'[p] = Tail(coming[p]) /\ view'[p] = Stored(p)
      /\ \A q \in Pod \ {p} : coming'[q] = coming[q] /\ view'[q] = view[q]
  BY <1>2, <1>3, <1>4, <1>5
<1>7. ahead' \subseteq {q \in Pod : coming'[q] # <<>>}
  BY <1>1, <1>2, <1>6 DEF TypeOK
<1>8. \A q \in Pod : Stored(q)' = Stored(q)
  BY <1>2, <1>3, <1>6 DEF Stored
<1>9. NeverPendingAgain'
  <2>1. ASSUME NEW q \in Pod, NEW i \in DOMAIN coming'[q]
        PROVE  /\ ~Pending(view'[q]) => ~Pending(coming'[q][i])
               /\ \A j \in DOMAIN coming'[q] :
                    i <= j /\ ~Pending(coming'[q][i]) => ~Pending(coming'[q][j])
    <3>1. CASE q # p
      BY <1>1, <1>6, <2>1, <3>1 DEF NeverPendingAgain
    <3>2. CASE q = p
      <4>1. /\ DOMAIN coming'[q] = 1..(Len(coming[p]) - 1)
            /\ \A j \in DOMAIN coming'[q] : coming'[q][j] = coming[p][j + 1] /\ j + 1 \in DOMAIN coming[p]
        BY <1>5, <1>6, <3>2
      <4>2. \A j \in DOMAIN coming'[q] : 1 <= j + 1 /\ (i <= j => i + 1 <= j + 1)
        BY <1>5, <2>1, <4>1
      <4>3. ~Pending(view'[q]) => ~Pending(coming'[q][i])
        BY <1>1, <1>3, <1>5, <1>6, <2>1, <3>2, <4>1, <4>2 DEF NeverPendingAgain
      <4>4. ASSUME NEW j \in DOMAIN coming'[q], i <= j, ~Pending(coming'[q][i])
            PROVE  ~Pending(coming'[q][j])
        BY <1>1, <2>1, <4>1, <4>2, <4>4 DEF NeverPendingAgain
      <4> QED
        BY <4>3, <4>4
    <3> QED
      BY <3>1, <3>2
  <2> QED
    BY <2>1 DEF NeverPendingAgain, Pending
<1> QED
  BY <1>2, <1>3, <1>6, <1>7, <1>8, <1>9

\* A version that the event handlers get keeps it.
LEMMA HandleStep == ASSUME NomInv, NEW p \in Pod, Handle(p) PROVE NomInv'
<1> DEFINE old == view[p]
           new == Stored(p)
<1>1. TypeOK /\ JobTypes /\ Loop \in Threads /\ NoNode \notin Node /\ Keep # NoNode /\ Keep \notin Node
  BY Names DEF NomInv
<1>2. /\ new \in Version /\ view' = [view EXCEPT ![p] = new]
      /\ coming' \in [Pod -> Seq(Version)] /\ ahead' \subseteq {q \in Pod : coming'[q] # <<>>}
      /\ \A q \in Pod \ {p} : q \in ahead' <=> q \in ahead
      /\ \A q \in Pod : Stored(q)' = Stored(q)
      /\ ~Pending(old) => ~Pending(new)
      /\ NeverPendingAgain'
  BY HandledVersions
<1>3. new = Head(coming[p])
  BY <1>1, Versions DEF NomInv, Handle
<1> HIDE DEF new
<1>4. /\ assumed' = [assumed EXCEPT ![p] = IF new.node \in Node THEN NoNode ELSE @]
      /\ promised' = [promised EXCEPT ![p] =
           IF Pending(new) /\ p \in queue /\ new.nnn \in {old.nnn, @} THEN @ ELSE NoNode]
      /\ UNCHANGED <<occupied, job, cycles, faults>>
      /\ \/ /\ ~Pending(old) \/ (Pending(new) /\ assumed[p] # NoNode)
            /\ UNCHANGED <<queue, queued, nominated>>
         \/ /\ Pending(old) /\ Pending(new) /\ assumed[p] = NoNode
            /\ queue' = queue \cup {p} /\ queued' = [queued EXCEPT ![p] = new.nnn]
            /\ nominated' = IF p \in queue THEN Updated(p, old, new) ELSE Added(p, new.nnn, Keep)
         \/ /\ Pending(old) /\ ~Pending(new)
            /\ queue' = queue \ {p} /\ nominated' = Without(p) /\ queued' = queued
  BY <1>3 DEF Handle, schedulingQueue, bounds
<1>5. new.node \in Nominee \cup {Gone} /\ new.nnn \in Nominee /\ old.nnn \in Nominee
  BY <1>1, <1>2 DEF Version, TypeOK
<1>6. /\ assumed' \in [Pod -> Nominee] /\ promised' \in [Pod -> Nominee] /\ view' \in [Pod -> Version]
      /\ assumed'[p] = assumed[p] \/ (assumed'[p] = NoNode /\ ~Pending(new))
      /\ promised'[p] \in Node => /\ Pending(new) /\ p \in queue /\ promised'[p] = promised[p]
                                  /\ new.nnn \in {old.nnn, promised[p]}
      /\ view'[p] = new
      /\ \A q \in Pod \ {p} : /\ assumed'[q] = assumed[q] /\ promised'[q] = promised[q]
                              /\ view'[q] = view[q]
  BY <1>1, <1>2, <1>4 DEF TypeOK, Nominee, Pending
<1>7. /\ queue' \subseteq Pod /\ queued' \in [Pod -> Nominee]
      /\ \A q \in Pod \ {p} : q \in queue => q \in queue'
      /\ Pending(new) /\ p \in queue => p \in queue'
  BY <1>1, <1>4, <1>5 DEF TypeOK
<1>8. \A nnn \in Nominee, info \in Info :
        /\ Added(p, nnn, info) \in [Pod -> Nominee]
        /\ Added(p, nnn, info)[p] = IF ~Pending(new) THEN NoNode ELSE IF info = Keep THEN nnn ELSE info
        /\ \A q \in Pod \ {p} : Added(p, nnn, info)[q] = nominated[q]
  BY <1>1 DEF Added, TypeOK, Info, Nominee, new
<1>9. Pending(new) =>
        /\ Updated(p, old, new) \in [Pod -> Nominee]
        /\ Updated(p, old, new)[p] = IF old.nnn = NoNode /\ new.nnn = NoNode
                                     THEN nominated[p] ELSE new.nnn
        /\ \A q \in Pod \ {p} : Updated(p, old, new)[q] = nominated[q]
  BY <1>1, <1>5, <1>8 DEF Updated, TypeOK, Info, Nominee
<1>10. /\ nominated' \in [Pod -> Nominee] /\ \A q \in Pod \ {p} : nominated'[q] = nominated[q]
       /\ ~Pending(new) => nominated'[p] = NoNode
       /\ nominated'[p] \in Node => assumed[p] = NoNode \/ nominated'[p] = nominated[p]
       /\ Pending(new) /\ p \in queue =>
            \/ nominated'[p] = nominated[p]
            \/ nominated'[p] = new.nnn /\ (old.nnn # NoNode \/ new.nnn # NoNode)
  <2>1. CASE UNCHANGED <<queue, queued, nominated>> /\ (~Pending(old) \/ Pending(new))
    BY <1>1, <2>1 DEF NomInv, TypeOK, BoundNotNominated
  <2>2. CASE /\ Pending(new) /\ assumed[p] = NoNode
             /\ nominated' = IF p \in queue THEN Updated(p, old, new) ELSE Added(p, new.nnn, Keep)
    BY <1>5, <1>8, <1>9, <2>2 DEF Info
  <2>3. CASE ~Pending(new) /\ nominated' = Without(p)
    BY <1>1, <2>3 DEF Without, TypeOK, Nominee
  <2> QED
    BY <1>4, <2>1, <2>2, <2>3
<1>11. \A q \in Pod : ~Pending(view[q]) => ~Pending(view'[q])
  BY <1>2, <1>6
<1>12. TypeOK'
  <2>1. ASSUME NEW u \in Threads, job[u].at \in {"reserve", "bind"}
        PROVE  job[u].node = assumed'[job[u].pod] \/ ~Pending(view'[job[u].pod])
    <3>1. job[u].pod \in Pod /\ (job[u].node = assumed[job[u].pod] \/ ~Pending(view[job[u].pod]))
      BY <1>1, <2>1, JobParts DEF TypeOK
    <3> QED
      BY <1>6, <1>11, <3>1
  <2> QED
    BY <1>1, <1>2, <1>4, <1>6, <1>7, <1>10, <2>1 DEF TypeOK, At, Pending
<1>13. JobTypes'
  BY <1>1, <1>4 DEF JobTypes
<1>14. Roles'
  <2>1. Failing(Loop) => job[Loop].pod \in Pod
    BY <1>1, JobParts DEF Failing
  <2> QED
    BY <1>4, <1>6, <2>1 DEF NomInv, Roles, Failing
<1>15. OneBinds'
  <2>1. \A u \in Threads : Binding(u) => job[u].pod \in Pod
    BY <1>1, JobParts DEF Binding
  <2> QED
    BY <1>4, <1>11, <2>1 DEF NomInv, OneBinds, Binding, Pending
<1>16. BoundNotNominated'
  BY <1>6, <1>10 DEF NomInv, BoundNotNominated, Pending
<1>17. LoopRequeued'
  <2>1. At(Loop, "nominate") => job[Loop].pod \in Pod
    BY <1>1, JobParts DEF At
  <2> QED
    BY <1>2, <1>4, <1>7, <2>1 DEF NomInv, LoopRequeued, At, Pending, new
<1>18. PromiseStands'
  <2>1. ASSUME NEW q \in Pod, promised'[q] \in Node
        PROVE  /\ assumed'[q] = NoNode
               /\ view'[q].nnn \in {NoNode, promised'[q]}
               /\ WithLoop(q) \/ (q \in queue' /\ nominated'[q] = promised'[q])
    <3>1. CASE q # p
      BY <1>6, <1>7, <1>10, <2>1, <3>1 DEF NomInv, PromiseStands
    <3>2. CASE q = p
      BY <1>6, <1>7, <1>10, <2>1, <3>2 DEF NomInv, PromiseStands
    <3> QED
      BY <3>1, <3>2
  <2> QED
    BY <1>4, <2>1 DEF PromiseStands, WithLoop
<1>19. NominatedWantsNode'
  <2>1. \A q \in Pod : Handled(q)' <=> Handled(q)
    BY <1>4 DEF Handled
  <2>2. ASSUME NEW q \in Pod, nominated'[q] \in Node
        PROVE  /\ Pending(Stored(q)) \/ q \in ahead'
               /\ assumed'[q] = NoNode \/ Handled(q)
    <3>1. CASE q # p
      BY <1>2, <1>6, <1>10, <2>2, <3>1 DEF NomInv, NominatedWantsNode
    <3>2. CASE q = p
      BY <1>1, <1>6, <1>10, <2>2, <3>2 DEF NomInv, NominatedWantsNode, new
    <3> QED
      BY <3>1, <3>2
  <2> QED
    BY <1>2, <2>1, <2>2 DEF NominatedWantsNode, Pending
<1> QED
  BY <1>2, <1>12, <1>13, <1>14, <1>15, <1>16, <1>17, <1>18, <1>19 DEF NomInv

-----------------------------------------------------------------------------
(* The invariant holds.                                                    *)

\* The invariant holds initially.
LEMMA NomInit == ASSUME Init PROVE NomInv
<1>1. /\ view = [p \in Pod |-> [node |-> NoNode, nnn |-> NoNode]] /\ coming = [p \in Pod |-> <<>>]
      /\ ahead = {} /\ queue = Pod /\ occupied \in SUBSET Node /\ cycles = 0 /\ faults = 0
      /\ queued = [p \in Pod |-> NoNode] /\ nominated = [p \in Pod |-> NoNode]
      /\ assumed = [p \in Pod |-> NoNode] /\ promised = [p \in Pod |-> NoNode]
      /\ job = [t \in Threads |-> Idle] /\ Idle.at = "idle" /\ Idle \in Jobs
      /\ NoNode \notin Node /\ MaxCycles \in Nat /\ MaxFaults \in Nat /\ Loop \in Threads
  BY Names, NominationAssumption DEF Init, Idle, Jobs
<1>2. [node |-> NoNode, nnn |-> NoNode] \in Version /\ NoNode \in Nominee /\ <<>> \in Seq(Version)
  BY DEF Version, Nominee
<1>3. TypeOK
  BY <1>1, <1>2 DEF TypeOK, At
<1>4. JobTypes /\ Roles /\ OneBinds /\ LoopRequeued
  BY <1>1 DEF JobTypes, Roles, Failing, OneBinds, Binding, LoopRequeued, At
<1>5. NeverPendingAgain /\ BoundNotNominated /\ PromiseStands /\ NominatedWantsNode
  BY <1>1 DEF NeverPendingAgain, BoundNotNominated, PromiseStands, NominatedWantsNode, Pending
<1> QED
  BY <1>3, <1>4, <1>5 DEF NomInv

\* Every step keeps the invariant.
LEMMA NomStep == ASSUME NomInv, [Next]_vars PROVE NomInv'
<1>1. CASE SchedulingCycle
  BY <1>1, CycleStep, AssumeStep, BindSteps DEF SchedulingCycle
<1>2. ASSUME NEW b \in Binders, BindingCycle(b) PROVE NomInv'
  BY <1>2, StartBindingStep, BindSteps DEF BindingCycle
<1>3. ASSUME NEW t \in Threads, FailureHandler(t) PROVE NomInv'
  BY <1>3, LookUpStep, RequeueStep, AddNominatedStep, UpdateStep DEF FailureHandler
<1>4. ASSUME NEW p \in Pod, Delete(p) \/ Receive(p) \/ Handle(p) PROVE NomInv'
  BY <1>4, DeleteStep, ReceiveStep, HandleStep
<1>5. ASSUME NEW n \in Node, Vacate(n) PROVE NomInv'
  BY <1>5, VacateStep
<1>6. CASE UNCHANGED vars
  <2>1. UNCHANGED <<view, coming, ahead, queue, queued, nominated, assumed, occupied, job, promised,
                    cycles, faults>>
    BY <1>6 DEF vars, pods, schedulingQueue, bounds
  <2>2. Loop \in Threads /\ JobTypes /\ TypeOK
    BY Names DEF NomInv
  <2>3. Coming
    BY <2>1, ComingKept
  <2>4. JobTypes' /\ cycles' \in 0..MaxCycles /\ faults' \in 0..MaxFaults
    BY <2>1, <2>2 DEF JobTypes, TypeOK
  <2> QED
    BY <2>1, <2>2, <2>3, <2>4, EndStep
<1> QED
  BY <1>1, <1>2, <1>3, <1>4, <1>5, <1>6 DEF Next

\* The invariant holds in every reachable state.
LEMMA NomInvariance == Spec => []NomInv
BY NomInit, NomStep, PTL DEF Spec

-----------------------------------------------------------------------------
(* What follows.                                                           *)

\* Every variable keeps its type, the informer's store is never ahead of the API server,
\* and a thread binds a pod to the node it is assumed on, unless it is known to be bound.
THEOREM NominationTypes == Spec => []TypeOK
BY NomInvariance, PTL DEF NomInv

\* The nominator (AddNominatedPod, schedule_one.go:1113) has only pods that want a node:
\* no nomination outlives its pod, but until the event of that is handled, or goes with an
\* assumption, but while the failure of a cycle is handled.
THEOREM OnlyWantingNominated == Spec => []NominatedWantsNode
BY NomInvariance, PTL DEF NomInv

\* Nobody of lower priority is assumed on a promised node.
LEMMA RoomKeptStep ==
  ASSUME NomInv, [Next]_vars, NEW p \in Pod, NEW q \in Pod, NEW n \in Node,
         promised[p] = n, Priority[q] < Priority[p], assumed[q] = NoNode
  PROVE  assumed'[q] # n
<1>1. /\ TypeOK /\ NoNode \notin Node /\ Priority[p] \in Nat /\ Priority[q] \in Nat /\ p # q
      /\ assumed \in [Pod -> Nominee]
  BY Names, NominationAssumption DEF NomInv, TypeOK
<1>2. CASE Assume
  <2>1. PICK r \in Pod, m \in Node :
          /\ Selecting(r) /\ m \in Hosts(r, job[Loop].nnn)
          /\ assumed' = [assumed EXCEPT ![r] = m]
    BY <1>2 DEF Assume
  <2>2. CASE r = q /\ m = n
    <3>1. ~WithLoop(p)
      BY <1>1, <2>1, <2>2 DEF Selecting, At, WithLoop
    <3>2. nominated[p] = n
      BY <3>1 DEF NomInv, PromiseStands
    <3>3. Fits(q, n)
      BY <2>1, <2>2 DEF Hosts
    <3> QED
      BY <1>1, <3>2, <3>3 DEF Fits
  <2> QED
    BY <1>1, <2>1, <2>2
<1>3. CASE ~Assume
  <2>1. \/ assumed' = assumed
        \/ \E r : assumed' = [assumed EXCEPT ![r] = NoNode]
        \/ \E r \in Pod : Handle(r)
    BY <1>3 DEF Next, SchedulingCycle, BindingCycle, FailureHandler, vars, Pop, Skip, AssumeFails,
                PostFilter, ScheduleFails, ReserveOrPermitFails, StartBinding, Bind, BindFails, Forget,
                LookUpPod, Requeue, AddNominatedPod, UpdatePod, Delete, Receive, Vacate
  <2>2. ASSUME NEW r \in Pod, Handle(r) PROVE assumed'[q] # n
    BY <1>1, <2>2 DEF Handle
  <2> QED
    BY <1>1, <2>1, <2>2
<1> QED
  BY <1>2, <1>3

\* Preemption is not in vain (nominatedNodeName, schedule_one.go:1113): until the next
\* cycle of the pod no pod of less priority is assumed on the node promised to it,
\* whatever the event handlers and failing binding cycles do in between.
THEOREM RoomForThePromised == Spec => RoomIsKept
<1>1. ASSUME NomInv, [Next]_vars
      PROVE  [\A p, q \in Pod, n \in Node :
               promised[p] = n /\ Priority[q] < Priority[p] /\ assumed[q] = NoNode
                 => assumed'[q] # n]_vars
  BY <1>1, RoomKeptStep
<1> QED
  BY <1>1, NomInvariance, PTL DEF Spec, RoomIsKept

==================================================
