--------------------------- MODULE SchedulerProofs ---------------------------
(***************************************************************************)
(* Proofs about Scheduler, for any pods, nodes, goroutines and faults.     *)
(*                                                                         *)
(* Four invariants, the last two of which use the two before them:         *)
(*   Inv        the cache, the assumed pods and the pods that wait,        *)
(*   CarrierInv the goroutines and the pods they bind,                     *)
(*   RoomInv    the room on the nodes,                                     *)
(*   WakeInv    the pods that wait for room, the threads that move them.   *)
(***************************************************************************)
EXTENDS Scheduler, SequenceTheorems, FiniteSetTheorems, TLAPS

-----------------------------------------------------------------------------
(* Which steps touch which state.                                          *)

\* Only a bind, a deletion or an informer changes what is known of the pods.
LEMMA ApiFrame ==
  ASSUME [Next]_vars
  PROVE  \/ UNCHANGED api
         \/ \E t \in Binders : Bind(t)
         \/ \E p \in Pods : Observe(p) \/ Delete(p)
BY DEF Next, ScheduleOne, BindingCycle, FailureHandler, Surroundings, NextPod, SkipPod, SchedulePod, SendScheduleSuccess, Assume, StartBinding, ReserveOrPermitFails, WaitOnPermit, SendBindingSuccess, FinishBinding, Cleanup, MovePods, DeferredMove, LookUpPod, Drop, Requeue, BackoffCompleted, FlushUnschedulable, PodUpdated, vars, api, schedulingQueue, schedulerCache, locals

\* The steps that change the scheduling queue.
LEMMA QueueFrame ==
  ASSUME [Next]_vars
  PROVE  \/ UNCHANGED schedulingQueue
         \/ StartBinding
         \/ \E t \in Binders : FinishBinding(t) \/ MovePods(t) \/ DeferredMove(t)
         \/ \E t \in Threads : Drop(t) \/ Requeue(t)
         \/ \E p \in Pods : NextPod(p) \/ BackoffCompleted(p) \/ FlushUnschedulable(p) \/ PodUpdated(p) \/ Observe(p)
BY DEF Next, ScheduleOne, BindingCycle, FailureHandler, Surroundings, SkipPod, SchedulePod, SendScheduleSuccess, Assume, ReserveOrPermitFails, WaitOnPermit, Bind, SendBindingSuccess, Cleanup, LookUpPod, Delete, vars, api, schedulingQueue, schedulerCache, locals

\* The steps that change the cache.
LEMMA CacheFrame ==
  ASSUME [Next]_vars
  PROVE  \/ UNCHANGED schedulerCache
         \/ Assume
         \/ ReserveOrPermitFails
         \/ \E t \in Binders : Cleanup(t)
         \/ \E p \in Pods : Observe(p)
BY DEF Next, ScheduleOne, BindingCycle, FailureHandler, Surroundings, NextPod, SkipPod, SchedulePod, SendScheduleSuccess, StartBinding, WaitOnPermit, Bind, SendBindingSuccess, FinishBinding, MovePods, DeferredMove, LookUpPod, Drop, Requeue, BackoffCompleted, FlushUnschedulable, PodUpdated, Delete, vars, api, schedulingQueue, schedulerCache, locals

\* The steps that write a record or fail.
LEMMA LogFrame ==
  ASSUME [Next]_vars
  PROVE  \/ UNCHANGED <<log, faults>>
         \/ SchedulePod
         \/ SendScheduleSuccess
         \/ ReserveOrPermitFails
         \/ \E t \in Binders : WaitOnPermit(t) \/ Bind(t) \/ SendBindingSuccess(t)
BY DEF Next, ScheduleOne, BindingCycle, FailureHandler, Surroundings, NextPod, SkipPod, Assume, StartBinding, FinishBinding, Cleanup, MovePods, DeferredMove, LookUpPod, Drop, Requeue, BackoffCompleted, FlushUnschedulable, PodUpdated, Observe, Delete, vars, api, schedulingQueue, schedulerCache, locals

\* Threads move by their own steps only.
LEMMA ThreadFrame ==
  ASSUME [Next]_vars
  PROVE  \/ UNCHANGED <<locals, owed>>
         \/ SkipPod
         \/ SchedulePod
         \/ SendScheduleSuccess
         \/ Assume
         \/ StartBinding
         \/ ReserveOrPermitFails
         \/ \E t \in Binders : WaitOnPermit(t) \/ Bind(t) \/ SendBindingSuccess(t) \/ FinishBinding(t) \/ Cleanup(t) \/ MovePods(t) \/ DeferredMove(t)
         \/ \E t \in Threads : LookUpPod(t) \/ Drop(t) \/ Requeue(t)
         \/ \E p \in Pods : NextPod(p)
BY DEF Next, ScheduleOne, BindingCycle, FailureHandler, Surroundings, BackoffCompleted, FlushUnschedulable, PodUpdated, Observe, Delete, vars, api, schedulingQueue, schedulerCache, locals

-----------------------------------------------------------------------------
(* The versions of a pod only grow.                                        *)

\* What a step that writes a new version of p leaves of the old ones.
LEMMA NewVersion ==
  ASSUME ApiTypeOK, NEW p \in Pods, NEW v \in Nodes \cup Phases,
         versions' = [versions EXCEPT ![p] = Append(@, v)]
  PROVE  /\ versions' \in [Pods -> Seq(Nodes \cup Phases) \ {<<>>}]
         /\ Len(versions[p]) \in Nat \ {0}
         /\ Len(versions'[p]) = Len(versions[p]) + 1
         /\ \A i \in 1..Len(versions[p]) : versions'[p][i] = versions[p][i]
         /\ versions'[p][Len(versions[p]) + 1] = v
         /\ \A q \in Pods \ {p} : versions'[q] = versions[q]
<1> DEFINE old == versions[p]
           new == Append(old, v)
<1>1. old \in Seq(Nodes \cup Phases) /\ old # <<>>
  BY DEF ApiTypeOK
<1>2. new \in Seq(Nodes \cup Phases) /\ Len(new) = Len(old) + 1
  BY <1>1, AppendProperties
<1>3. Len(old) \in Nat \ {0}
  BY <1>1, LenProperties, EmptySeq
<1>4. new # <<>>
  BY <1>2, <1>3, EmptySeq
<1>5. (\A i \in 1..Len(old) : new[i] = old[i]) /\ new[Len(old) + 1] = v
  BY <1>1, AppendProperties
<1>6. versions'[p] = new /\ \A q \in Pods \ {p} : versions'[q] = versions[q]
  BY DEF ApiTypeOK
<1>7. versions' \in [Pods -> Seq(Nodes \cup Phases) \ {<<>>}]
  <2> HIDE DEF new
  <2> QED
    BY <1>2, <1>4, <1>6 DEF ApiTypeOK
<1> QED
  BY <1>2, <1>3, <1>5, <1>6, <1>7

-----------------------------------------------------------------------------
(* Types.                                                                  *)

\* The versions of the pods keep their type.
LEMMA ApiTypeStep == TypeOK /\ [Next]_vars => ApiTypeOK'
<1> SUFFICES ASSUME TypeOK, [Next]_vars PROVE ApiTypeOK'
  OBVIOUS
<1> USE NamesAssumption
<1>0. ASSUME NEW t \in Binders, Bind(t) PROVE misreported' \subseteq Pods
  BY <1>0 DEF Bind, TypeOK, ApiTypeOK, ThreadTypeOK, Threads
<1>1. ASSUME NEW p \in Pods, NEW v \in Nodes \cup Phases, seen' = seen,
             misreported' \subseteq Pods,
             versions' = [versions EXCEPT ![p] = Append(@, v)]
      PROVE  ApiTypeOK'
  <2>1. ApiTypeOK
    BY DEF TypeOK
  <2>2. /\ versions' \in [Pods -> Seq(Nodes \cup Phases) \ {<<>>}]
        /\ seen' \in [Pods -> Nat]
        /\ \A q \in Pods : seen'[q] <= Len(versions'[q])
    BY <1>1, <2>1, NewVersion DEF ApiTypeOK
  <2> QED
    BY <1>1, <2>2 DEF ApiTypeOK
<1>2. ASSUME UNCHANGED api PROVE ApiTypeOK'
  BY <1>2 DEF TypeOK, ApiTypeOK, api
<1>3. ASSUME NEW t \in Binders, Bind(t) PROVE ApiTypeOK'
  <2>1. pod[t] \in Pods /\ host[t] \in Nodes \cup Phases
    BY <1>3 DEF Bind, TypeOK, ThreadTypeOK, Threads, HasHost
  <2>2. seen' = seen /\ \/ versions' = versions /\ misreported' = misreported
                        \/ versions' = [versions EXCEPT ![pod[t]] = Append(@, host[t])]
    BY <1>3 DEF Bind
  <2> QED
    BY <2>1, <2>2, <1>0, <1>1, <1>2, <1>3 DEF api
<1>4. ASSUME NEW p \in Pods, Observe(p) PROVE ApiTypeOK'
  BY <1>4 DEF Observe, TypeOK, ApiTypeOK
<1>5. ASSUME NEW p \in Pods, Delete(p) PROVE ApiTypeOK'
  BY <1>5, <1>1 DEF Delete, Phases, TypeOK, ApiTypeOK
<1> QED
  BY ApiFrame, <1>2, <1>3, <1>4, <1>5

\* The queue keeps its type.
LEMMA QueueTypeStep == TypeOK /\ [Next]_vars => QueueTypeOK'
<1> SUFFICES ASSUME TypeOK, [Next]_vars PROVE QueueTypeOK'
  OBVIOUS
<1> USE NamesAssumption, BoundsAssumption
<1>1. ASSUME NEW p \in Pods, NextPod(p) PROVE QueueTypeOK'
  BY <1>1 DEF NextPod, TypeOK, QueueTypeOK, ThreadTypeOK, Places, Unschedulable, Threads,
     schedulingQueue
<1>2. ASSUME StartBinding PROVE QueueTypeOK'
  BY <1>2 DEF StartBinding, Activated, TypeOK, QueueTypeOK, ThreadTypeOK, Places,
     Unschedulable, Threads, schedulingQueue
<1>3. ASSUME NEW t \in Binders, FinishBinding(t) PROVE QueueTypeOK'
  BY <1>3 DEF FinishBinding, Leave, Done, Activated, TypeOK, QueueTypeOK, ThreadTypeOK,
     Places, Unschedulable, Threads, schedulingQueue
<1>4. ASSUME NEW t \in Binders, MovePods(t) PROVE QueueTypeOK'
  BY <1>4 DEF MovePods, Goto, MoveAll, TypeOK, QueueTypeOK, ThreadTypeOK, Places,
     Unschedulable, Threads, schedulingQueue
<1>5. ASSUME NEW t \in Binders, DeferredMove(t) PROVE QueueTypeOK'
  BY <1>5 DEF DeferredMove, Leave, MoveAll, TypeOK, QueueTypeOK, ThreadTypeOK, Places,
     Unschedulable, Threads, schedulingQueue
<1>6. ASSUME NEW t \in Threads, Drop(t) PROVE QueueTypeOK'
  BY <1>6 DEF Drop, Goto, Leave, Return, Done, TypeOK, QueueTypeOK, ThreadTypeOK, Places,
     Unschedulable, Threads, schedulingQueue
<1>7. ASSUME NEW t \in Threads, Requeue(t) PROVE QueueTypeOK'
  BY <1>7 DEF Requeue, Goto, Leave, Return, Done, AddUnschedulableIfNotPresent, TypeOK,
     QueueTypeOK, ThreadTypeOK, Places, Unschedulable, Threads, schedulingQueue
<1>8. ASSUME NEW p \in Pods, BackoffCompleted(p) PROVE QueueTypeOK'
  BY <1>8 DEF BackoffCompleted, TypeOK, QueueTypeOK, ThreadTypeOK, Places, Unschedulable,
     Threads, schedulingQueue
<1>9. ASSUME NEW p \in Pods, FlushUnschedulable(p) PROVE QueueTypeOK'
  BY <1>9 DEF FlushUnschedulable, TypeOK, QueueTypeOK, ThreadTypeOK, Places, Unschedulable,
     Threads, schedulingQueue
<1>10. ASSUME NEW p \in Pods, PodUpdated(p) PROVE QueueTypeOK'
  BY <1>10 DEF PodUpdated, TypeOK, QueueTypeOK, ThreadTypeOK, Places, Unschedulable, Threads,
     schedulingQueue
<1>11. ASSUME NEW p \in Pods, Observe(p) PROVE QueueTypeOK'
  BY <1>11 DEF Observe, MoveAll, TypeOK, QueueTypeOK, ThreadTypeOK, Places, Unschedulable,
     Threads, schedulingQueue
<1>12. ASSUME UNCHANGED schedulingQueue PROVE QueueTypeOK'
  BY <1>12 DEF TypeOK, QueueTypeOK, schedulingQueue
<1> QED
  BY QueueFrame, <1>1, <1>2, <1>3, <1>4, <1>5, <1>6, <1>7, <1>8, <1>9, <1>10, <1>11, <1>12

\* The cache keeps its type.
LEMMA CacheTypeStep == TypeOK /\ [Next]_vars => CacheTypeOK'
<1> SUFFICES ASSUME TypeOK, [Next]_vars PROVE CacheTypeOK'
  OBVIOUS
<1> USE NamesAssumption, BoundsAssumption
<1>1. ASSUME Assume PROVE CacheTypeOK'
  BY <1>1 DEF Assume, Goto, TypeOK, CacheTypeOK, ThreadTypeOK, Threads, HasHost,
     schedulerCache
<1>2. ASSUME ReserveOrPermitFails PROVE CacheTypeOK'
  BY <1>2 DEF ReserveOrPermitFails, Goto, Fault, Forget, CanForget, TypeOK, CacheTypeOK,
     ThreadTypeOK, Threads, HasHost, schedulerCache
<1>3. ASSUME NEW t \in Binders, Cleanup(t) PROVE CacheTypeOK'
  BY <1>3 DEF Cleanup, Goto, Forget, CanForget, TypeOK, CacheTypeOK, ThreadTypeOK, Threads,
     HasHost, schedulerCache
<1>4. ASSUME NEW p \in Pods, Observe(p) PROVE CacheTypeOK'
  BY <1>4 DEF Observe, MoveAll, TypeOK, CacheTypeOK, ThreadTypeOK, Threads, HasHost,
     schedulerCache
<1>5. ASSUME UNCHANGED schedulerCache PROVE CacheTypeOK'
  BY <1>5 DEF TypeOK, CacheTypeOK, schedulerCache
<1> QED
  BY CacheFrame, <1>1, <1>2, <1>3, <1>4, <1>5

\* The log keeps its type, and the faults their bound.
LEMMA LogTypeStep == TypeOK /\ [Next]_vars => LogTypeOK'
<1> SUFFICES ASSUME TypeOK, [Next]_vars PROVE LogTypeOK'
  OBVIOUS
<1> USE NamesAssumption, BoundsAssumption
<1>1. ASSUME SchedulePod PROVE LogTypeOK'
  BY <1>1 DEF SchedulePod, Goto, Fault, Feasible, TypeOK, LogTypeOK, ThreadTypeOK, Records,
     Events, Threads, HasHost
<1>2. ASSUME SendScheduleSuccess PROVE LogTypeOK'
  BY <1>2 DEF SendScheduleSuccess, Goto, Send, Fault, TypeOK, LogTypeOK, ThreadTypeOK,
     Records, Events, Threads, HasHost
<1>3. ASSUME ReserveOrPermitFails PROVE LogTypeOK'
  BY <1>3 DEF ReserveOrPermitFails, Goto, Fault, Forget, CanForget, TypeOK, LogTypeOK,
     ThreadTypeOK, Records, Events, Threads, HasHost
<1>4. ASSUME NEW t \in Binders, WaitOnPermit(t) PROVE LogTypeOK'
  BY <1>4 DEF WaitOnPermit, Goto, Fault, TypeOK, LogTypeOK, ThreadTypeOK, Records, Events,
     Threads, HasHost
<1>5. ASSUME NEW t \in Binders, Bind(t) PROVE LogTypeOK'
  BY <1>5 DEF Bind, Goto, Fault, Latest, TypeOK, LogTypeOK, ThreadTypeOK, Records, Events,
     Threads, HasHost
<1>6. ASSUME NEW t \in Binders, SendBindingSuccess(t) PROVE LogTypeOK'
  BY <1>6 DEF SendBindingSuccess, Goto, Send, Fault, TypeOK, LogTypeOK, ThreadTypeOK,
     Records, Events, Threads, HasHost
<1>7. ASSUME UNCHANGED <<log, faults>> PROVE LogTypeOK'
  BY <1>7 DEF TypeOK, LogTypeOK
<1> QED
  BY LogFrame, <1>1, <1>2, <1>3, <1>4, <1>5, <1>6, <1>7

\* A thread keeps its pod, and its host from the step that selects it.
LEMMA ThreadTypeStep == TypeOK /\ [Next]_vars => ThreadTypeOK'
<1> SUFFICES ASSUME TypeOK, [Next]_vars PROVE ThreadTypeOK'
  OBVIOUS
<1> USE NamesAssumption, BoundsAssumption
<1>1. ASSUME NEW p \in Pods, NextPod(p) PROVE ThreadTypeOK'
  BY <1>1 DEF NextPod, TypeOK, ThreadTypeOK, Steps, Threads, HasHost
<1>2. ASSUME SkipPod PROVE ThreadTypeOK'
  BY <1>2 DEF SkipPod, Leave, TypeOK, ThreadTypeOK, Steps, Threads, HasHost
<1>3. ASSUME SchedulePod PROVE ThreadTypeOK'
  BY <1>3 DEF SchedulePod, Goto, Fault, Feasible, TypeOK, ThreadTypeOK, Steps, Threads,
     HasHost
<1>4. ASSUME SendScheduleSuccess PROVE ThreadTypeOK'
  BY <1>4 DEF SendScheduleSuccess, Goto, Send, Fault, TypeOK, ThreadTypeOK, Steps, Threads,
     HasHost
<1>5. ASSUME Assume PROVE ThreadTypeOK'
  BY <1>5 DEF Assume, Goto, TypeOK, ThreadTypeOK, Steps, Threads, HasHost
<1>6. ASSUME StartBinding PROVE ThreadTypeOK'
  BY <1>6 DEF StartBinding, Activated, TypeOK, ThreadTypeOK, Steps, Threads, HasHost
<1>7. ASSUME ReserveOrPermitFails PROVE ThreadTypeOK'
  BY <1>7 DEF ReserveOrPermitFails, Goto, Fault, Forget, CanForget, TypeOK, ThreadTypeOK,
     Steps, Threads, HasHost
<1>8. ASSUME NEW t \in Binders, WaitOnPermit(t) PROVE ThreadTypeOK'
  BY <1>8 DEF WaitOnPermit, Goto, Fault, TypeOK, ThreadTypeOK, Steps, Threads, HasHost
<1>9. ASSUME NEW t \in Binders, Bind(t) PROVE ThreadTypeOK'
  BY <1>9 DEF Bind, Goto, Fault, Latest, TypeOK, ThreadTypeOK, Steps, Threads, HasHost
<1>10. ASSUME NEW t \in Binders, SendBindingSuccess(t) PROVE ThreadTypeOK'
  BY <1>10 DEF SendBindingSuccess, Goto, Send, Fault, TypeOK, ThreadTypeOK, Steps, Threads,
     HasHost
<1>11. ASSUME NEW t \in Binders, FinishBinding(t) PROVE ThreadTypeOK'
  BY <1>11 DEF FinishBinding, Leave, Done, Activated, TypeOK, ThreadTypeOK, Steps, Threads,
     HasHost
<1>12. ASSUME NEW t \in Binders, Cleanup(t) PROVE ThreadTypeOK'
  BY <1>12 DEF Cleanup, Goto, Forget, CanForget, TypeOK, ThreadTypeOK, Steps, Threads,
     HasHost
<1>13. ASSUME NEW t \in Binders, MovePods(t) PROVE ThreadTypeOK'
  BY <1>13 DEF MovePods, Goto, MoveAll, TypeOK, ThreadTypeOK, Steps, Threads, HasHost
<1>14. ASSUME NEW t \in Binders, DeferredMove(t) PROVE ThreadTypeOK'
  BY <1>14 DEF DeferredMove, Leave, MoveAll, TypeOK, ThreadTypeOK, Steps, Threads, HasHost
<1>15. ASSUME NEW t \in Threads, LookUpPod(t) PROVE ThreadTypeOK'
  BY <1>15 DEF LookUpPod, Goto, TypeOK, ThreadTypeOK, Steps, Threads, HasHost
<1>16. ASSUME NEW t \in Threads, Drop(t) PROVE ThreadTypeOK'
  BY <1>16 DEF Drop, Goto, Leave, Return, Done, TypeOK, ThreadTypeOK, Steps, Threads, HasHost
<1>17. ASSUME NEW t \in Threads, Requeue(t) PROVE ThreadTypeOK'
  BY <1>17 DEF Requeue, Goto, Leave, Return, Done, AddUnschedulableIfNotPresent, TypeOK,
     ThreadTypeOK, Steps, Threads, HasHost
<1>18. ASSUME UNCHANGED <<locals, owed>> PROVE ThreadTypeOK'
  BY <1>18 DEF TypeOK, ThreadTypeOK, locals
<1> QED
  BY ThreadFrame, <1>1, <1>2, <1>3, <1>4, <1>5, <1>6, <1>7, <1>8, <1>9, <1>10, <1>11, <1>12, <1>13, <1>14, <1>15, <1>16, <1>17, <1>18

-----------------------------------------------------------------------------
(* Type correctness.                                                       *)

\* The initial state is well typed.
LEMMA TypeInit == Init => TypeOK
BY NamesAssumption, BoundsAssumption DEF Init, TypeOK, ApiTypeOK, QueueTypeOK, CacheTypeOK, ThreadTypeOK, LogTypeOK, Phases, Places, Threads, Steps, HasHost, Records

\* Every step keeps every type.
LEMMA TypeStep == TypeOK /\ [Next]_vars => TypeOK'
BY ApiTypeStep, QueueTypeStep, CacheTypeStep, LogTypeStep, ThreadTypeStep DEF TypeOK

\* Type correctness: whatever the threads, the informers and the users do, a
\* busy thread has a pod, one that selected a host has a host, and the
\* informer is never ahead of the API server.
THEOREM TypeCorrect == Spec => []TypeOK
<1>1. Init => TypeOK
  BY TypeInit
<1>2. TypeOK /\ [Next]_vars => TypeOK'
  BY TypeStep
<1> QED
  BY <1>1, <1>2, PTL DEF Spec

-----------------------------------------------------------------------------
(* The history of a pod.                                                   *)

\* A step leaves the versions it finds, and the informer goes on by at most one.
LEMMA HistoryGrows ==
  ASSUME TypeOK, [Next]_vars, NEW p \in Pods
  PROVE  /\ Len(versions[p]) \in Nat \ {0}
         /\ Len(versions'[p]) >= Len(versions[p])
         /\ Len(versions'[p]) \in Nat
         /\ \A i \in 1..Len(versions[p]) : versions'[p][i] = versions[p][i]
         /\ seen[p] \in 0..Len(versions[p])
         /\ seen'[p] = seen[p] \/ (seen'[p] = seen[p] + 1 /\ seen[p] < Len(versions[p]))
<1> USE NamesAssumption, BoundsAssumption
<1>0. ApiTypeOK
  BY DEF TypeOK
<1>1. Len(versions[p]) \in Nat \ {0}
  BY <1>0, EmptySeq DEF ApiTypeOK
<1>2. seen[p] \in 0..Len(versions[p])
  BY <1>0, <1>1 DEF ApiTypeOK
<1> DEFINE Grown == /\ Len(versions'[p]) >= Len(versions[p])
                    /\ Len(versions'[p]) \in Nat
                    /\ \A i \in 1..Len(versions[p]) : versions'[p][i] = versions[p][i]
<1>3. ASSUME NEW q \in Pods, NEW v \in Nodes \cup Phases,
             versions' = [versions EXCEPT ![q] = Append(@, v)]
      PROVE  Grown
  BY <1>0, <1>1, <1>3, NewVersion
<1>4. ASSUME versions' = versions PROVE Grown
  BY <1>4, <1>1
<1>5. ASSUME NEW t \in Binders, Bind(t) PROVE Grown /\ seen' = seen
  <2>1. pod[t] \in Pods /\ host[t] \in Nodes \cup Phases
    BY <1>5 DEF Bind, TypeOK, ThreadTypeOK, Threads, HasHost
  <2>2. seen' = seen /\ \/ versions' = versions
                        \/ versions' = [versions EXCEPT ![pod[t]] = Append(@, host[t])]
    BY <1>5 DEF Bind
  <2> QED
    BY <2>1, <2>2, <1>3, <1>4
<1>6. ASSUME NEW q \in Pods, Delete(q) PROVE Grown /\ seen' = seen
  BY <1>6, <1>3 DEF Delete, Phases
<1>7. ASSUME NEW q \in Pods, Observe(q)
      PROVE  /\ Grown
             /\ seen'[p] = seen[p] \/ (seen'[p] = seen[p] + 1 /\ seen[p] < Len(versions[p]))
  <2>1. versions' = versions
    BY <1>7 DEF Observe
  <2>2. seen'[p] = seen[p] \/ (seen'[p] = seen[p] + 1 /\ seen[p] < Len(versions[p]))
    BY <1>0, <1>7 DEF Observe, ApiTypeOK
  <2> QED
    BY <2>1, <2>2, <1>4
<1>8. ASSUME UNCHANGED api PROVE Grown /\ seen' = seen
  BY <1>8, <1>4 DEF api
<1> HIDE DEF Grown
<1>9. /\ Grown
      /\ seen'[p] = seen[p] \/ (seen'[p] = seen[p] + 1 /\ seen[p] < Len(versions[p]))
  BY ApiFrame, <1>5, <1>6, <1>7, <1>8
<1> QED
  BY <1>1, <1>2, <1>9 DEF Grown

\* A pod that is not pending any more stays so.
LEMMA SettledStep ==
  ASSUME TypeOK, VersionsInOrder, [Next]_vars, NEW p \in Pods, Settled(p)
  PROVE  Settled(p)'
<1> USE NamesAssumption
<1> DEFINE L == Len(versions[p])
           s == seen[p]
<1>1. L \in Nat \ {0} /\ s \in 1..L /\ versions[p][s] # "pending"
  BY HistoryGrows DEF Settled
<1>2. \A i \in 1..L : versions'[p][i] = versions[p][i]
  BY HistoryGrows
<1>3. CASE seen'[p] = s
  BY <1>1, <1>2, <1>3 DEF Settled
<1>4. CASE seen'[p] = s + 1 /\ s < L
  <2>1. s \in 1..(L - 1) /\ s + 1 \in 1..L
    BY <1>1, <1>4
  <2>2. versions[p][s + 1] = "gone"
    BY <1>1, <2>1 DEF VersionsInOrder
  <2>3. versions'[p][s + 1] = "gone"
    BY <1>2, <2>1, <2>2
  <2> QED
    BY <1>1, <1>4, <2>3 DEF Settled
<1> QED
  BY <1>3, <1>4, HistoryGrows

\* The versions of a pod stay in order: the API server binds only a pod that
\* is pending, and deletes only one that is not gone.
LEMMA OrderStep == TypeOK /\ VersionsInOrder /\ [Next]_vars => VersionsInOrder'
<1> SUFFICES ASSUME TypeOK, VersionsInOrder, [Next]_vars PROVE VersionsInOrder'
  OBVIOUS
<1> USE NamesAssumption
<1>0. ApiTypeOK
  BY DEF TypeOK
<1>1. ASSUME versions' = versions PROVE VersionsInOrder'
  BY <1>1 DEF VersionsInOrder
<1>2. ASSUME NEW p \in Pods, NEW v \in Nodes \cup Phases,
             versions' = [versions EXCEPT ![p] = Append(@, v)],
             Latest(p) # "gone", Latest(p) = "pending" \/ v = "gone"
      PROVE  VersionsInOrder'
  <2> DEFINE L == Len(versions[p])
  <2>1. /\ L \in Nat \ {0} /\ Len(versions'[p]) = L + 1
        /\ \A i \in 1..L : versions'[p][i] = versions[p][i]
        /\ versions'[p][L + 1] = v
        /\ \A q \in Pods \ {p} : versions'[q] = versions[q]
    BY <1>0, <1>2, NewVersion
  <2>2. ASSUME NEW i \in 1..L
        PROVE  /\ versions'[p][i] # "gone"
               /\ versions'[p][i] # "pending" => versions'[p][i + 1] = "gone"
    <3>1. CASE i = L
      BY <3>1, <2>1, <1>2 DEF Latest
    <3>2. CASE i < L
      <4>1. i \in 1..(L - 1) /\ i + 1 \in 1..L
        BY <2>1, <3>2
      <4> QED
        BY <4>1, <2>1 DEF VersionsInOrder
    <3> QED
      BY <3>1, <3>2, <2>1
  <2>3. \A i \in 1..(Len(versions'[p]) - 1) : i \in 1..L
    BY <2>1
  <2> QED
    BY <2>1, <2>2, <2>3, SMTT(40) DEF VersionsInOrder
<1>3. ASSUME NEW t \in Binders, Bind(t) PROVE VersionsInOrder'
  <2>1. pod[t] \in Pods /\ host[t] \in Nodes
    BY <1>3 DEF Bind, TypeOK, ThreadTypeOK, Threads, HasHost
  <2>2. \/ versions' = versions
        \/ /\ Latest(pod[t]) = "pending"
           /\ versions' = [versions EXCEPT ![pod[t]] = Append(@, host[t])]
    BY <1>3 DEF Bind
  <2> QED
    BY <2>1, <2>2, <1>1, <1>2
<1>4. ASSUME NEW p \in Pods, Delete(p) PROVE VersionsInOrder'
  BY <1>4, <1>2 DEF Delete, Phases
<1>5. ASSUME UNCHANGED versions PROVE VersionsInOrder'
  BY <1>5, <1>1
<1>6. \A p \in Pods : Observe(p) => UNCHANGED versions
  BY DEF Observe
<1> QED
  BY ApiFrame, <1>3, <1>4, <1>5, <1>6 DEF api

-----------------------------------------------------------------------------
(* The cache and the informer.                                             *)

\* Only the informers change what they have seen.
LEMMA SeenFrame ==
  ASSUME [Next]_vars
  PROVE  seen' = seen \/ \E p \in Pods : Observe(p)
BY ApiFrame DEF Bind, Delete, api

\* A version that was handled stays what it was.
LEMMA SeenSame ==
  ASSUME TypeOK, [Next]_vars, NEW p \in Pods, seen'[p] = seen[p]
  PROVE  Seen(p)' = Seen(p)
BY HistoryGrows DEF Seen

\* What the informer has seen after it handled one more version of p.
LEMMA ObserveSeen ==
  ASSUME TypeOK, [Next]_vars, NEW p \in Pods, Observe(p)
  PROVE  /\ seen[p] \in Nat /\ seen'[p] = seen[p] + 1
         /\ seen[p] + 1 \in 1..Len(versions[p])
         /\ versions' = versions
         /\ Seen(p)' = versions[p][seen[p] + 1]
         /\ \A q \in Pods \ {p} : seen'[q] = seen[q] /\ Seen(q)' = Seen(q)
<1>1. /\ versions' = versions /\ seen[p] < Len(versions[p])
      /\ seen' = [seen EXCEPT ![p] = seen[p] + 1]
  BY DEF Observe
<1>2. seen \in [Pods -> Nat] /\ Len(versions[p]) \in Nat
  BY HistoryGrows DEF TypeOK, ApiTypeOK
<1>3. seen'[p] = seen[p] + 1 /\ seen[p] \in Nat
  BY <1>1, <1>2
<1>4. \A q \in Pods \ {p} : seen'[q] = seen[q]
  BY <1>1, <1>2
<1>5. seen[p] + 1 \in 1..Len(versions[p])
  BY <1>1, <1>2, <1>3
<1>6. Seen(p)' = versions[p][seen[p] + 1]
  BY <1>1, <1>3 DEF Seen
<1> QED
  BY <1>1, <1>3, <1>4, <1>5, <1>6, SeenSame

\* Assuming and forgetting a pod leaves the confirmed pods alone.
LEMMA CacheStep ==
  TypeOK /\ VersionsInOrder /\ AssumedInCache /\ CacheFollowsInformer /\ [Next]_vars
    => AssumedInCache' /\ CacheFollowsInformer'
<1> SUFFICES ASSUME TypeOK, VersionsInOrder, AssumedInCache, CacheFollowsInformer, [Next]_vars
             PROVE  AssumedInCache' /\ CacheFollowsInformer'
  OBVIOUS
<1> USE NamesAssumption
<1>0. cache \in [Pods -> Nodes \cup {NoNode}] /\ assumed \subseteq Pods
  BY DEF TypeOK, CacheTypeOK
<1>1. ASSUME seen' = seen, UNCHANGED schedulerCache
      PROVE  AssumedInCache' /\ CacheFollowsInformer'
  BY <1>1, SeenSame DEF AssumedInCache, CacheFollowsInformer, schedulerCache
<1>2. ASSUME seen' = seen, NEW p \in Pods, NEW n \in Nodes, cache[p] = NoNode,
             cache' = [cache EXCEPT ![p] = n], assumed' = assumed \cup {p}
      PROVE  AssumedInCache' /\ CacheFollowsInformer'
  <2>1. Seen(p) \notin Nodes
    BY <1>2 DEF CacheFollowsInformer
  <2> QED
    BY <1>0, <1>2, <2>1, SeenSame DEF AssumedInCache, CacheFollowsInformer
<1>3. ASSUME seen' = seen, NEW p \in Pods, NEW n \in Nodes \cup {NoNode}, Forget(p, n)
      PROVE  AssumedInCache' /\ CacheFollowsInformer'
  <2>1. CASE CanForget(p, n)
    <3>1. Seen(p) \notin Nodes
      BY <2>1 DEF CanForget, CacheFollowsInformer
    <3>2. cache' = [cache EXCEPT ![p] = NoNode] /\ assumed' = assumed \ {p}
      BY <1>3, <2>1 DEF Forget
    <3> QED
      BY <1>0, <1>3, <3>1, <3>2, SeenSame DEF AssumedInCache, CacheFollowsInformer
  <2>2. CASE ~CanForget(p, n)
    BY <1>1, <1>3, <2>2 DEF Forget
  <2> QED
    BY <2>1, <2>2
<1>4. ASSUME NEW p \in Pods, Observe(p) PROVE AssumedInCache' /\ CacheFollowsInformer'
  <2> DEFINE new == versions[p][seen[p] + 1]
  <2>1. /\ Seen(p)' = new
        /\ \A q \in Pods \ {p} : Seen(q)' = Seen(q)
    BY <1>4, ObserveSeen
  <2>2. Seen(p) \in Nodes => new = "gone"
    <3> SUFFICES ASSUME Seen(p) \in Nodes PROVE new = "gone"
      OBVIOUS
    <3>1. seen[p] > 0 /\ versions[p][seen[p]] \in Nodes
      BY ObserveSeen, <1>4 DEF Seen, Phases
    <3>2. seen[p] \in 1..(Len(versions[p]) - 1)
      BY <3>1, ObserveSeen, HistoryGrows, <1>4
    <3> QED
      BY <3>1, <3>2 DEF VersionsInOrder, Phases
  <2>3. \/ new \in {"pending", "terminating"} /\ UNCHANGED schedulerCache
        \/ /\ new \in Nodes
           /\ cache' = [cache EXCEPT ![p] = new] /\ assumed' = assumed \ {p}
        \/ new = "gone" /\ Seen(p) \notin Nodes /\ UNCHANGED schedulerCache
        \/ /\ new = "gone"
           /\ cache' = [cache EXCEPT ![p] = NoNode] /\ assumed' = assumed \ {p}
    BY <1>4 DEF Observe
  <2> HIDE DEF new
  <2>4. new \in Phases => new \notin Nodes
    OBVIOUS
  <2>5. CASE UNCHANGED schedulerCache /\ Seen(p) \notin Nodes /\ new \in Phases
    BY <1>0, <2>1, <2>4, <2>5 DEF AssumedInCache, CacheFollowsInformer, schedulerCache
  <2>6. CASE /\ new \in Nodes
             /\ cache' = [cache EXCEPT ![p] = new] /\ assumed' = assumed \ {p}
    BY <1>0, <2>1, <2>6 DEF AssumedInCache, CacheFollowsInformer
  <2>7. CASE /\ new = "gone"
             /\ cache' = [cache EXCEPT ![p] = NoNode] /\ assumed' = assumed \ {p}
    BY <1>0, <2>1, <2>4, <2>7 DEF AssumedInCache, CacheFollowsInformer, Phases
  <2>8. new \in {"pending", "terminating"} => Seen(p) \notin Nodes
    BY <2>2
  <2> QED
    BY <2>3, <2>5, <2>6, <2>7, <2>8 DEF Phases
<1>5. Assume => \/ /\ cache[pod[Loop]] = NoNode
                   /\ cache' = [cache EXCEPT ![pod[Loop]] = host[Loop]]
                   /\ assumed' = assumed \cup {pod[Loop]}
                   /\ pod[Loop] \in Pods /\ host[Loop] \in Nodes /\ seen' = seen
                \/ UNCHANGED schedulerCache /\ seen' = seen
  BY DEF Assume, TypeOK, ThreadTypeOK, Threads, HasHost, api
<1>6. ReserveOrPermitFails => /\ Forget(pod[Loop], host[Loop]) /\ seen' = seen
                              /\ pod[Loop] \in Pods /\ host[Loop] \in Nodes
  BY DEF ReserveOrPermitFails, TypeOK, ThreadTypeOK, Threads, HasHost, api
<1>7. \A t \in Binders : Cleanup(t) => /\ Forget(pod[t], host[t]) /\ seen' = seen
                                       /\ pod[t] \in Pods /\ host[t] \in Nodes
  BY DEF Cleanup, TypeOK, ThreadTypeOK, Threads, HasHost, api
<1> QED
  <2>1. CASE Assume
    BY <1>1, <1>2, <1>5, <2>1
  <2>2. CASE ReserveOrPermitFails \/ \E t \in Binders : Cleanup(t)
    BY <1>3, <1>6, <1>7, <2>2
  <2>3. CASE UNCHANGED schedulerCache
    BY <1>1, <1>4, <2>3, SeenFrame
  <2> QED
    BY <1>4, <2>1, <2>2, <2>3, CacheFrame

-----------------------------------------------------------------------------
(* Whose step it is.                                                       *)

\* A thread keeps its place and its locals.
Stays(t) ==
  pc'[t] = pc[t] /\ pod'[t] = pod[t] /\ host'[t] = host[t] /\ status'[t] = status[t]

\* An idle goroutine takes over the pod and the host of the loop.
TakesOver(t) ==
  /\ pc[t] = "idle" /\ pc'[t] = "permit"
  /\ pc[Loop] = "reserve" /\ pc'[Loop] = "idle"
  /\ pod'[t] = pod[Loop] /\ host'[t] = host[Loop] /\ status'[t] = status[t]

\* A thread that moves leaves the others where they are.
LEMMA MoveLeavesOthers ==
  ASSUME ThreadTypeOK, NEW u \in Threads, NEW step, NEW st, Goto(u, step, st) \/ Leave(u)
  PROVE  \A t \in Threads \ {u} : Stays(t)
BY DEF ThreadTypeOK, Goto, Leave, Stays

\* A thread moves by a step of its own, or takes over from the loop.
LEMMA OwnSteps ==
  ASSUME TypeOK, [Next]_vars, NEW t \in Threads
  PROVE  \/ Stays(t)
         \/ t \in Binders /\ BindingCycle(t)
         \/ t \in Binders /\ StartBinding /\ TakesOver(t)
         \/ FailureHandler(t)
         \/ t = Loop /\ ScheduleOne
<1> USE NamesAssumption
<1>0. ThreadTypeOK
  BY DEF TypeOK
<1>1. ASSUME UNCHANGED locals PROVE Stays(t)
  BY <1>1 DEF locals, Stays
<1>2. ASSUME NEW u \in Binders, BindingCycle(u), u # t PROVE Stays(t)
  <2>1. (\E step, st : Goto(u, step, st)) \/ Leave(u)
    BY <1>2 DEF BindingCycle, WaitOnPermit, Bind, SendBindingSuccess, FinishBinding, Cleanup, MovePods, DeferredMove
  <2> QED
    BY <1>0, <1>2, <2>1, MoveLeavesOthers DEF Threads
<1>3. ASSUME NEW u \in Threads, FailureHandler(u), u # t PROVE Stays(t)
  <2>1. (\E step, st : Goto(u, step, st)) \/ Leave(u)
    BY <1>3 DEF FailureHandler, LookUpPod, Drop, Requeue, Return
  <2> QED
    BY <1>0, <1>3, <2>1, MoveLeavesOthers
<1>4. ASSUME StartBinding, t # Loop PROVE Stays(t) \/ TakesOver(t)
  BY <1>0, <1>4 DEF StartBinding, ThreadTypeOK, Threads, Stays, TakesOver
<1>5. ASSUME ScheduleOne, ~StartBinding, t # Loop PROVE Stays(t)
  <2>1. CASE \E p \in Pods : NextPod(p)
    BY <1>0, <1>5, <2>1 DEF NextPod, ThreadTypeOK, Threads, Stays
  <2>2. CASE SchedulePod
    BY <1>0, <1>5, <2>2 DEF SchedulePod, Goto, ThreadTypeOK, Threads, Stays
  <2>3. CASE SkipPod \/ SendScheduleSuccess \/ Assume \/ ReserveOrPermitFails
    <3>1. (\E step, st : Goto(Loop, step, st)) \/ Leave(Loop)
      BY <2>3 DEF SkipPod, SendScheduleSuccess, Assume, ReserveOrPermitFails
    <3> QED
      BY <1>0, <1>5, <3>1, MoveLeavesOthers DEF Threads
  <2> QED
    BY <1>5, <2>1, <2>2, <2>3 DEF ScheduleOne
<1>6. ASSUME NEW p \in Pods, Surroundings(p) PROVE UNCHANGED locals
  BY <1>6 DEF Surroundings, BackoffCompleted, FlushUnschedulable, PodUpdated, Observe, Delete
<1>7. UNCHANGED vars => UNCHANGED locals
  BY DEF vars
<1>8. t \in Binders \/ t = Loop
  BY DEF Threads
<1>9. StartBinding => ScheduleOne
  BY DEF ScheduleOne
<1> QED
  BY <1>1, <1>2, <1>3, <1>4, <1>5, <1>6, <1>7, <1>8, <1>9 DEF Next

-----------------------------------------------------------------------------
(* Assumed pods.                                                           *)

\* A thread that holds an assumed pod binds it, hands it over, or forgets it.
LEMMA HoldingStep ==
  ASSUME TypeOK, [Next]_vars, NEW t \in Threads, pc[t] \in Holding
  PROVE  \/ \E u \in Threads : /\ pod'[u] = pod[t] /\ host'[u] = host[t]
                               /\ pc'[u] \in Holding
         \/ Forget(pod[t], host[t])
         \/ versions' = [versions EXCEPT ![pod[t]] = Append(@, host[t])]
<1> USE NamesAssumption
<1>0. ThreadTypeOK
  BY DEF TypeOK
<1>1. CASE Stays(t)
  BY <1>1 DEF Stays
<1>2. CASE t \in Binders /\ BindingCycle(t)
  <2>1. CASE WaitOnPermit(t)
    BY <1>0, <2>1 DEF WaitOnPermit, Goto, ThreadTypeOK, Holding
  <2>2. CASE Bind(t)
    BY <1>0, <2>2 DEF Bind, Goto, ThreadTypeOK, Holding
  <2>3. CASE Cleanup(t)
    BY <2>3 DEF Cleanup
  <2> QED
    BY <1>2, <2>1, <2>2, <2>3 DEF BindingCycle, SendBindingSuccess, FinishBinding, MovePods, DeferredMove, Holding
<1>3. CASE t \in Binders /\ TakesOver(t)
  BY <1>3 DEF TakesOver, Holding
<1>4. CASE FailureHandler(t)
  BY <1>4 DEF FailureHandler, LookUpPod, Drop, Requeue, Holding
<1>5. CASE t = Loop /\ ScheduleOne
  <2>1. CASE StartBinding
    <3>1. PICK b \in Binders : /\ pod' = [pod EXCEPT ![Loop] = NoPod, ![b] = pod[Loop]]
                               /\ host' = [host EXCEPT ![Loop] = NoNode, ![b] = host[Loop]]
                               /\ pc' = [pc EXCEPT ![Loop] = "idle", ![b] = "permit"]
      BY <2>1 DEF StartBinding
    <3>2. pod'[b] = pod[t] /\ host'[b] = host[t] /\ pc'[b] = "permit" /\ b \in Threads
      BY <1>0, <1>5, <3>1 DEF ThreadTypeOK, Threads
    <3> QED
      BY <3>2 DEF Holding
  <2>2. CASE ReserveOrPermitFails
    BY <1>5, <2>2 DEF ReserveOrPermitFails
  <2> QED
    BY <1>5, <2>1, <2>2 DEF ScheduleOne, NextPod, SkipPod, SchedulePod, SendScheduleSuccess, Assume, Holding
<1> QED
  BY OwnSteps, <1>1, <1>2, <1>3, <1>4, <1>5

\* No step orphans an assumption.
LEMMA NoOrphanStep ==
  TypeOK /\ AssumedInCache /\ NoOrphanedAssumption /\ [Next]_vars => NoOrphanedAssumption'
<1> SUFFICES ASSUME TypeOK, AssumedInCache, NoOrphanedAssumption, [Next]_vars,
                    NEW p \in assumed'
             PROVE  \/ \E t \in Threads : /\ pod'[t] = p /\ host'[t] = cache'[p]
                                          /\ pc'[t] \in Holding
                    \/ \E i \in (seen'[p] + 1)..Len(versions'[p]) : versions'[p][i] = cache'[p]
  BY DEF NoOrphanedAssumption
<1> USE NamesAssumption
<1>0. /\ cache \in [Pods -> Nodes \cup {NoNode}] /\ assumed \subseteq Pods
      /\ ThreadTypeOK
  BY DEF TypeOK, CacheTypeOK
<1> DEFINE Goal == \/ \E t \in Threads : /\ pod'[t] = p /\ host'[t] = cache'[p]
                                         /\ pc'[t] \in Holding
                   \/ \E i \in (seen'[p] + 1)..Len(versions'[p]) : versions'[p][i] = cache'[p]
<1>1. CASE Assume /\ p \notin assumed
  <2>1. /\ pc[Loop] = "assume" /\ p = pod[Loop] /\ Goto(Loop, "reserve", "ok")
        /\ cache' = [cache EXCEPT ![pod[Loop]] = host[Loop]]
    BY <1>1 DEF Assume, schedulerCache
  <2>2. p \in Pods
    BY <1>0, <2>1 DEF ThreadTypeOK, Threads
  <2> QED
    BY <1>0, <2>1, <2>2 DEF Goto, Holding, ThreadTypeOK, Threads
<1>2. CASE p \in assumed /\ cache'[p] = cache[p]
  <2>1. p \in Pods /\ cache[p] \in Nodes
    BY <1>0, <1>2 DEF AssumedInCache
  <2> DEFINE L == Len(versions[p])
  <2>2. /\ L \in Nat /\ Len(versions'[p]) \in Nat /\ Len(versions'[p]) >= L
        /\ \A i \in 1..L : versions'[p][i] = versions[p][i]
        /\ seen[p] \in 0..L
        /\ seen'[p] = seen[p] \/ (seen'[p] = seen[p] + 1 /\ seen[p] < L)
    BY <2>1, HistoryGrows
  <2>3. ASSUME NEW i \in (seen[p] + 1)..L, versions[p][i] = cache[p] PROVE Goal
    <3>1. CASE seen'[p] = seen[p]
      BY <1>2, <2>2, <2>3, <3>1
    <3>2. CASE seen'[p] # seen[p]
      <4>1. Observe(p)
        BY <2>1, <3>2, SeenFrame, ObserveSeen
      <4>2. versions[p][seen[p] + 1] \notin Nodes
        <5>1. versions[p][seen[p] + 1] \in Nodes => assumed' = assumed \ {p}
          BY <4>1, NamesAssumption DEF Observe, Phases
        <5> QED
          BY <5>1
      <4>3. i \in (seen'[p] + 1)..Len(versions'[p]) /\ i \in 1..L
        BY <2>1, <2>2, <2>3, <3>2, <4>2
      <4> QED
        BY <1>2, <2>2, <2>3, <4>3
    <3> QED
      BY <3>1, <3>2
  <2>4. ASSUME NEW t \in Threads, pod[t] = p, host[t] = cache[p], pc[t] \in Holding PROVE Goal
    <3>1. ~Forget(p, host[t])
      BY <1>0, <1>2, <2>1, <2>4 DEF Forget, CanForget
    <3>2. ASSUME versions' = [versions EXCEPT ![p] = Append(@, host[t])] PROVE Goal
      <4>1. Len(versions'[p]) = L + 1 /\ versions'[p][L + 1] = host[t]
        BY <2>1, <2>4, <3>2, NewVersion, ZenonT(40) DEF TypeOK
      <4>2. seen'[p] = seen[p]
        BY <4>1, <2>1, SeenFrame, ObserveSeen
      <4> QED
        BY <1>2, <2>2, <2>4, <4>1, <4>2
    <3> QED
      BY <1>2, <2>4, <3>1, <3>2, HoldingStep
  <2>5. \/ \E t \in Threads : pod[t] = p /\ host[t] = cache[p] /\ pc[t] \in Holding
        \/ \E i \in (seen[p] + 1)..L : versions[p][i] = cache[p]
    BY <1>2 DEF NoOrphanedAssumption
  <2>6. Goal
    <3> HIDE DEF Goal
    <3> QED
      BY <2>3, <2>4, <2>5
  <2> QED
    BY <2>6
<1>3. \/ Assume /\ p \notin assumed
      \/ p \in assumed /\ cache'[p] = cache[p]
  <2>1. CASE UNCHANGED schedulerCache
    BY <2>1 DEF schedulerCache
  <2>2. CASE Assume
    BY <1>0, <2>2 DEF Assume, AssumedInCache, schedulerCache, ThreadTypeOK, Threads
  <2>3. ASSUME NEW q, NEW n, Forget(q, n) PROVE p \in assumed /\ cache'[p] = cache[p]
    BY <1>0, <2>3 DEF Forget, schedulerCache
  <2>4. ASSUME NEW q \in Pods, Observe(q) PROVE p \in assumed /\ cache'[p] = cache[p]
    BY <1>0, <2>4 DEF Observe, schedulerCache
  <2>5. ReserveOrPermitFails => Forget(pod[Loop], host[Loop])
    BY DEF ReserveOrPermitFails
  <2>6. \A t \in Binders : Cleanup(t) => Forget(pod[t], host[t])
    BY DEF Cleanup
  <2> QED
    BY <2>1, <2>2, <2>3, <2>4, <2>5, <2>6, CacheFrame
<1> QED
  BY <1>1, <1>2, <1>3

-----------------------------------------------------------------------------
(* Pods that wait and pods that threads work on.                           *)

\* A pod enters the queue by a failure handler or an informer event.
LEMMA QueueEnter ==
  ASSUME TypeOK, [Next]_vars, NEW p \in Pods, queue[p] = "none", queue'[p] # "none"
  PROVE  \/ \E t \in Threads : pc[t] = "requeue" /\ pod[t] = p
         \/ PodUpdated(p)
         \/ Observe(p)
<1>0. queue \in [Pods -> Places]
  BY DEF TypeOK, QueueTypeOK
<1>1. ~UNCHANGED schedulingQueue
  BY DEF schedulingQueue
<1>2. ~StartBinding
  BY <1>0 DEF StartBinding, Activated, Unschedulable
<1>3. ASSUME NEW t \in Binders PROVE ~FinishBinding(t) /\ ~MovePods(t) /\ ~DeferredMove(t)
  BY <1>0 DEF FinishBinding, Activated, Unschedulable, MovePods, DeferredMove, MoveAll
<1>4. ASSUME NEW t \in Threads
      PROVE  ~Drop(t) /\ (Requeue(t) => pc[t] = "requeue" /\ pod[t] = p)
  BY <1>0 DEF Drop, Requeue, AddUnschedulableIfNotPresent
<1>5. ASSUME NEW q \in Pods
      PROVE  /\ ~NextPod(q) /\ ~BackoffCompleted(q) /\ ~FlushUnschedulable(q)
             /\ PodUpdated(q) => q = p
             /\ Observe(q) => q = p
  BY <1>0 DEF NextPod, BackoffCompleted, FlushUnschedulable, PodUpdated, Observe, MoveAll, Unschedulable
<1> QED
  BY <1>1, <1>2, <1>3, <1>4, <1>5, QueueFrame

\* A pod leaves the queue into the hands of the loop or by an informer event.
LEMMA QueueLeave ==
  ASSUME TypeOK, [Next]_vars, NEW p \in Pods, queue[p] # "none", queue'[p] = "none"
  PROVE  NextPod(p) \/ Observe(p)
<1>0. queue \in [Pods -> Places]
  BY DEF TypeOK, QueueTypeOK
<1>1. ~UNCHANGED schedulingQueue
  BY DEF schedulingQueue
<1>2. ~StartBinding
  BY <1>0 DEF StartBinding, Activated, Unschedulable
<1>3. ASSUME NEW t \in Binders PROVE ~FinishBinding(t) /\ ~MovePods(t) /\ ~DeferredMove(t)
  BY <1>0 DEF FinishBinding, Activated, Unschedulable, MovePods, DeferredMove, MoveAll
<1>4. ASSUME NEW t \in Threads PROVE ~Drop(t) /\ ~Requeue(t)
  BY <1>0 DEF Drop, Requeue, AddUnschedulableIfNotPresent
<1>5. ASSUME NEW q \in Pods
      PROVE  /\ ~BackoffCompleted(q) /\ ~FlushUnschedulable(q) /\ ~PodUpdated(q)
             /\ NextPod(q) => q = p
             /\ Observe(q) => q = p
  BY <1>0 DEF NextPod, BackoffCompleted, FlushUnschedulable, PodUpdated, Observe, MoveAll, Unschedulable
<1> QED
  BY <1>1, <1>2, <1>3, <1>4, <1>5, QueueFrame

\* A busy thread keeps its pod, unless it has just taken one.
LEMMA BusyStep ==
  ASSUME TypeOK, [Next]_vars, NEW t \in Threads, pc'[t] # "idle"
  PROVE  \/ pc[t] # "idle" /\ pod'[t] = pod[t]
         \/ pc[Loop] = "reserve" /\ pod'[t] = pod[Loop] /\ pc'[t] = "permit"
         \/ \E p \in Pods : t = Loop /\ NextPod(p) /\ pod'[t] = p
<1> USE NamesAssumption
<1>0. ThreadTypeOK
  BY DEF TypeOK
<1>1. CASE Stays(t)
  BY <1>1 DEF Stays
<1>2. CASE t \in Binders /\ BindingCycle(t)
  <2>1. ~FinishBinding(t) /\ ~DeferredMove(t)
    BY <1>0, <1>2 DEF FinishBinding, DeferredMove, Leave, ThreadTypeOK, Threads
  <2> QED
    BY <1>0, <1>2, <2>1 DEF BindingCycle, WaitOnPermit, Bind, SendBindingSuccess, Cleanup, MovePods, Goto
<1>3. CASE t \in Binders /\ TakesOver(t)
  BY <1>3 DEF TakesOver
<1>4. CASE FailureHandler(t)
  BY <1>0, <1>4 DEF FailureHandler, LookUpPod, Drop, Requeue, Return, Goto, Leave, ThreadTypeOK
<1>5. CASE t = Loop /\ ScheduleOne
  <2>1. ~SkipPod /\ ~StartBinding
    BY <1>0, <1>5 DEF SkipPod, StartBinding, Leave, ThreadTypeOK, Threads
  <2>2. ASSUME NEW p \in Pods, NextPod(p) PROVE pod'[t] = p
    BY <1>0, <1>5, <2>2 DEF NextPod, ThreadTypeOK, Threads
  <2> QED
    BY <1>5, <2>1, <2>2 DEF ScheduleOne, SchedulePod, SendScheduleSuccess, Assume, ReserveOrPermitFails, Goto
<1> QED
  BY OwnSteps, <1>1, <1>2, <1>3, <1>4, <1>5

\* No pod is queued or worked on before an informer told of it.
LEMMA KnownStep == TypeOK /\ OnlyKnownPods /\ [Next]_vars => OnlyKnownPods'
<1> SUFFICES ASSUME TypeOK, OnlyKnownPods, [Next]_vars PROVE OnlyKnownPods'
  OBVIOUS
<1>0. ThreadTypeOK /\ seen \in [Pods -> Nat]
  BY DEF TypeOK, ApiTypeOK
<1>1. ASSUME NEW p \in Pods, seen[p] > 0 PROVE seen'[p] > 0
  BY <1>0, <1>1, HistoryGrows
<1>2. ASSUME NEW p \in Pods, queue'[p] # "none" PROVE seen'[p] > 0
  <2>1. CASE queue[p] # "none"
    BY <1>1, <2>1 DEF OnlyKnownPods
  <2>2. CASE \E t \in Threads : pc[t] = "requeue" /\ pod[t] = p
    BY <1>1, <2>2 DEF OnlyKnownPods
  <2>3. CASE PodUpdated(p)
    BY <1>0, <1>1, <2>3 DEF PodUpdated, Seen
  <2>4. CASE Observe(p)
    BY <2>4, ObserveSeen
  <2> QED
    BY <1>2, <2>1, <2>2, <2>3, <2>4, QueueEnter
<1>3. ASSUME NEW t \in Threads, pc'[t] # "idle" PROVE seen'[pod'[t]] > 0
  <2>1. CASE pc[t] # "idle" /\ pod'[t] = pod[t]
    BY <1>0, <1>1, <2>1 DEF OnlyKnownPods, ThreadTypeOK
  <2>2. CASE pc[Loop] = "reserve" /\ pod'[t] = pod[Loop]
    BY <1>0, <1>1, <2>2 DEF OnlyKnownPods, ThreadTypeOK, Threads
  <2>3. CASE \E p \in Pods : NextPod(p) /\ pod'[t] = p
    BY <1>1, <2>3 DEF NextPod, OnlyKnownPods
  <2> QED
    BY <1>3, <2>1, <2>2, <2>3, BusyStep
<1> QED
  BY <1>2, <1>3 DEF OnlyKnownPods

\* No thread drops a pod that is pending.
LEMMA DroppedStep ==
  TypeOK /\ VersionsInOrder /\ OnlyKnownPods /\ OnlySettledDropped /\ [Next]_vars
    => OnlySettledDropped'
<1> SUFFICES ASSUME TypeOK, VersionsInOrder, OnlyKnownPods, OnlySettledDropped, [Next]_vars,
                    NEW t \in Threads,
                    \/ pc'[t] = "drop"
                    \/ t = Loop /\ pc'[t] = "popped" /\ status'[t] = "deleting"
             PROVE  Settled(pod[t])'
  BY DEF OnlySettledDropped
<1> USE NamesAssumption
<1>0. ThreadTypeOK /\ seen \in [Pods -> Nat]
  BY DEF TypeOK, ApiTypeOK
<1>1. ASSUME NEW p \in Pods, Settled(p), pod'[t] = p PROVE Settled(pod[t])'
  <2>1. Settled(p)'
    BY <1>1, SettledStep
  <2> QED
    BY <1>1, <2>1 DEF Settled
<1>2. CASE Stays(t)
  BY <1>0, <1>1, <1>2 DEF Stays, OnlySettledDropped, ThreadTypeOK
<1>3. CASE t \in Binders /\ BindingCycle(t)
  BY <1>0, <1>3 DEF BindingCycle, WaitOnPermit, Bind, SendBindingSuccess, FinishBinding, Cleanup, MovePods, DeferredMove, Goto, Leave, ThreadTypeOK, Threads
<1>4. CASE t \in Binders /\ TakesOver(t)
  BY <1>4 DEF TakesOver
<1>5. CASE FailureHandler(t)
  <2>1. LookUpPod(t) /\ pc'[t] = "drop"
    BY <1>0, <1>5 DEF FailureHandler, LookUpPod, Drop, Requeue, Return, Goto, Leave, ThreadTypeOK
  <2>2. pod'[t] = pod[t] /\ pod[t] \in Pods /\ pc[t] = "failed"
    BY <1>0, <2>1 DEF LookUpPod, Goto, ThreadTypeOK
  <2>3. Seen(pod[t]) \in Nodes \cup {"gone"}
    BY <1>0, <2>1 DEF LookUpPod, Goto, ThreadTypeOK
  <2>4. Settled(pod[t])
    BY <1>0, <2>2, <2>3 DEF OnlyKnownPods, Seen, Settled, Phases
  <2> QED
    BY <1>1, <2>2, <2>4
<1>6. CASE t = Loop /\ ScheduleOne
  <2>1. PICK p \in Pods : NextPod(p)
    BY <1>0, <1>6 DEF ScheduleOne, SkipPod, SchedulePod, SendScheduleSuccess, Assume, StartBinding, ReserveOrPermitFails, Goto, Leave, ThreadTypeOK, Threads
  <2>2. pod'[t] = p /\ pc'[t] = "popped" /\ queue[p] = "active"
        /\ (status'[t] = "deleting" => Seen(p) = "terminating")
    BY <1>0, <1>6, <2>1 DEF NextPod, ThreadTypeOK
  <2>3. Settled(p)
    BY <1>0, <2>2 DEF OnlyKnownPods, Seen, Settled
  <2> QED
    BY <1>1, <2>2, <2>3
<1> QED
  BY OwnSteps, <1>2, <1>3, <1>4, <1>5, <1>6

\* What the API server bound stays recorded.
LEMMA BoundStep == TypeOK /\ BoundRecorded /\ [Next]_vars => BoundRecorded'
<1> SUFFICES ASSUME TypeOK, BoundRecorded, [Next]_vars,
                    NEW t \in Threads, pc'[t] \in {"bound", "finish"}
             PROVE  \E i \in 1..Len(versions'[pod'[t]]) : versions'[pod'[t]][i] \in Nodes
  BY DEF BoundRecorded
<1> USE NamesAssumption
<1>0. ThreadTypeOK
  BY DEF TypeOK
<1>1. CASE pc[t] \in {"bound", "finish"} /\ pod'[t] = pod[t]
  <2>1. pod[t] \in Pods
    BY <1>0, <1>1 DEF ThreadTypeOK
  <2>2. PICK i \in 1..Len(versions[pod[t]]) : versions[pod[t]][i] \in Nodes
    BY <1>1 DEF BoundRecorded
  <2>3. i \in 1..Len(versions'[pod[t]]) /\ versions'[pod[t]][i] \in Nodes
    BY <2>1, <2>2, HistoryGrows
  <2> QED
    BY <1>1, <2>3
<1>2. CASE Bind(t)
  <2>1. pod[t] \in Pods /\ host[t] \in Nodes /\ pod'[t] = pod[t]
    BY <1>0, <1>2 DEF Bind, Goto, ThreadTypeOK, HasHost
  <2>2. versions' = [versions EXCEPT ![pod[t]] = Append(@, host[t])]
    BY <1>0, <1>2 DEF Bind, Goto, ThreadTypeOK
  <2>3. LET L == Len(versions[pod[t]])
        IN L \in Nat /\ Len(versions'[pod[t]]) = L + 1 /\ versions'[pod[t]][L + 1] = host[t]
    BY <2>1, <2>2, NewVersion DEF TypeOK
  <2>4. Len(versions[pod[t]]) + 1 \in 1..Len(versions'[pod[t]])
    BY <2>3
  <2> QED
    BY <2>1, <2>3, <2>4
<1>3. CASE Stays(t)
  BY <1>1, <1>3 DEF Stays
<1>4. CASE t \in Binders /\ BindingCycle(t)
  <2>1. CASE SendBindingSuccess(t)
    BY <1>0, <1>1, <2>1 DEF SendBindingSuccess, Goto, ThreadTypeOK
  <2> QED
    BY <1>0, <1>2, <1>4, <2>1 DEF BindingCycle, WaitOnPermit, FinishBinding, Cleanup, MovePods, DeferredMove, Goto, Leave, ThreadTypeOK, Threads
<1>5. CASE t \in Binders /\ TakesOver(t)
  BY <1>5 DEF TakesOver
<1>6. CASE FailureHandler(t)
  BY <1>0, <1>6 DEF FailureHandler, LookUpPod, Drop, Requeue, Return, Goto, Leave, ThreadTypeOK
<1>7. CASE t = Loop /\ ScheduleOne
  BY <1>0, <1>7 DEF ScheduleOne, NextPod, SkipPod, SchedulePod, SendScheduleSuccess, Assume, StartBinding, ReserveOrPermitFails, Goto, Leave, ThreadTypeOK, Threads
<1> QED
  BY OwnSteps, <1>3, <1>4, <1>5, <1>6, <1>7

\* No pending pod falls between the queue and the threads.
LEMMA NeverLostStep == Inv /\ [Next]_vars => PendingPodNeverLost'
<1> SUFFICES ASSUME Inv, [Next]_vars, NEW p \in Pods, Seen(p)' = "pending",
                    ~(seen'[p] < Len(versions'[p])), queue'[p] = "none"
             PROVE  \E t \in Threads : pod'[t] = p /\ pc'[t] \notin {"idle", "deferred"}
  BY DEF PendingPodNeverLost
<1> USE NamesAssumption
<1>0. /\ TypeOK /\ ThreadTypeOK /\ seen \in [Pods -> Nat] /\ queue \in [Pods -> Places]
      /\ VersionsInOrder /\ OnlySettledDropped /\ BoundRecorded
      /\ NoOrphanedAssumption /\ PendingPodNeverLost
  BY DEF Inv, TypeOK, ApiTypeOK, QueueTypeOK
<1> DEFINE L == Len(versions[p])
<1>1. ~Observe(p)
  <2> SUFFICES ASSUME Observe(p) PROVE FALSE
    OBVIOUS
  <2>1. versions[p][seen[p] + 1] = "pending"
    BY <1>0, ObserveSeen
  <2> QED
    BY <1>0, <2>1 DEF Observe, Phases
<1>2. seen'[p] = seen[p] /\ Seen(p) = "pending"
  <2>1. seen'[p] = seen[p]
    BY <1>0, <1>1, SeenFrame, ObserveSeen
  <2> QED
    BY <1>0, <2>1, SeenSame
<1>3. L \in Nat /\ seen[p] \in 1..L /\ versions[p][seen[p]] = "pending" /\ ~(seen[p] < L)
  BY <1>0, <1>2, HistoryGrows DEF Seen
<1>4. ~Settled(p)
  BY <1>3 DEF Settled
<1>5. CASE queue[p] # "none"
  <2>1. NextPod(p)
    BY <1>0, <1>1, <1>5, QueueLeave
  <2> QED
    BY <1>0, <2>1 DEF NextPod, ThreadTypeOK, Threads
<1>6. ASSUME NEW t \in Threads, pod[t] = p, pc[t] \notin {"idle", "deferred"}, queue[p] = "none"
      PROVE  \E u \in Threads : pod'[u] = p /\ pc'[u] \notin {"idle", "deferred"}
  <2>1. CASE Stays(t)
    BY <1>6, <2>1 DEF Stays
  <2>2. CASE t \in Binders /\ BindingCycle(t)
    <3>1. ~FinishBinding(t)
      <4> SUFFICES ASSUME pc[t] = "finish" PROVE FALSE
        BY DEF FinishBinding
      <4>1. PICK i \in 1..L : versions[p][i] \in Nodes
        BY <1>0, <1>6 DEF BoundRecorded
      <4>2. i # seen[p] /\ versions[p][i] # "pending"
        BY <1>3, <4>1 DEF Phases
      <4>3. i \in 1..(L - 1) /\ i + 1 \in 1..L
        BY <1>3, <4>2
      <4>4. versions[p][i + 1] = "gone"
        BY <1>0, <4>2, <4>3 DEF VersionsInOrder
      <4>5. i + 1 \notin 1..(L - 1)
        BY <1>0, <4>4 DEF VersionsInOrder
      <4> QED
        BY <1>3, <4>3, <4>4, <4>5
    <3>2. ~DeferredMove(t)
      BY <1>6 DEF DeferredMove
    <3> QED
      BY <1>0, <1>6, <2>2, <3>1, <3>2 DEF BindingCycle, WaitOnPermit, Bind, SendBindingSuccess, Cleanup, MovePods, Goto, ThreadTypeOK
  <2>3. CASE FailureHandler(t)
    <3>1. ~Drop(t)
      BY <1>0, <1>4, <1>6 DEF Drop, OnlySettledDropped
    <3>2. ~Requeue(t)
      BY <1>0, <1>6 DEF Requeue, AddUnschedulableIfNotPresent
    <3> QED
      BY <1>0, <1>6, <2>3, <3>1, <3>2 DEF FailureHandler, LookUpPod, Goto, ThreadTypeOK
  <2>4. CASE t \in Binders /\ TakesOver(t)
    BY <1>6, <2>4 DEF TakesOver
  <2>5. CASE t = Loop /\ ScheduleOne
    <3>1. \A q \in Pods : ~NextPod(q)
      BY <1>6, <2>5 DEF NextPod
    <3>2. CASE SkipPod
      <4>1. p \in assumed
        BY <1>0, <1>4, <1>6, <2>5, <3>2 DEF SkipPod, OnlySettledDropped
      <4>2. PICK u \in Threads : pod[u] = p /\ pc[u] \in Holding
        BY <1>0, <1>3, <4>1 DEF NoOrphanedAssumption
      <4>3. u # Loop
        BY <3>2, <4>2 DEF SkipPod, Holding
      <4>4. Stays(u)
        BY <1>0, <3>2, <4>3, MoveLeavesOthers DEF SkipPod, Threads
      <4> QED
        BY <4>2, <4>4 DEF Stays, Holding
    <3>3. CASE StartBinding
      <4>1. PICK b \in Binders : /\ pod' = [pod EXCEPT ![Loop] = NoPod, ![b] = pod[Loop]]
                                 /\ pc' = [pc EXCEPT ![Loop] = "idle", ![b] = "permit"]
        BY <3>3 DEF StartBinding
      <4>2. pod'[b] = p /\ pc'[b] = "permit" /\ b \in Threads
        BY <1>0, <1>6, <2>5, <4>1 DEF ThreadTypeOK, Threads
      <4> QED
        BY <4>2
    <3>4. CASE SchedulePod \/ SendScheduleSuccess \/ Assume \/ ReserveOrPermitFails
      BY <1>0, <1>6, <2>5, <3>4 DEF SchedulePod, SendScheduleSuccess, Assume, ReserveOrPermitFails, Goto, ThreadTypeOK
    <3> QED
      BY <2>5, <3>1, <3>2, <3>3, <3>4 DEF ScheduleOne
  <2> QED
    BY <1>0, <2>1, <2>2, <2>3, <2>4, <2>5, OwnSteps
<1>7. \/ queue[p] # "none"
      \/ \E t \in Threads : pod[t] = p /\ pc[t] \notin {"idle", "deferred"}
  BY <1>0, <1>2, <1>3 DEF PendingPodNeverLost
<1> QED
  BY <1>5, <1>6, <1>7

-----------------------------------------------------------------------------
(* The inductive invariant and what follows from it.                       *)

\* Initially the informers have told of the pods that run, and no thread has a pod.
LEMMA InvInit == Init => Inv
<1> SUFFICES ASSUME Init PROVE Inv
  OBVIOUS
<1> USE NamesAssumption, BoundsAssumption
<1>1. TypeOK
  BY TypeInit
<1>2. ASSUME NEW p \in Pods
      PROVE  /\ Seen(p) = IF p \in DOMAIN Running THEN Running[p] ELSE "gone"
             /\ Seen(p) # "pending"
  BY DEF Init, Seen, Phases
<1>3. VersionsInOrder /\ OnlyKnownPods /\ OnlySettledDropped /\ BoundRecorded
  BY DEF Init, VersionsInOrder, OnlyKnownPods, OnlySettledDropped, BoundRecorded, Threads
<1>4. AssumedInCache /\ CacheFollowsInformer /\ NoOrphanedAssumption /\ PendingPodNeverLost
  BY <1>2 DEF Init, AssumedInCache, CacheFollowsInformer, NoOrphanedAssumption, PendingPodNeverLost, Phases
<1> QED
  BY <1>1, <1>3, <1>4 DEF Inv

\* Every step keeps the invariant.
LEMMA InvStep == Inv /\ [Next]_vars => Inv'
<1> SUFFICES ASSUME Inv, [Next]_vars PROVE Inv'
  OBVIOUS
<1>1. TypeOK' /\ VersionsInOrder' /\ OnlyKnownPods'
  BY TypeStep, OrderStep, KnownStep DEF Inv
<1>2. OnlySettledDropped' /\ BoundRecorded'
  BY DroppedStep, BoundStep DEF Inv
<1>3. AssumedInCache' /\ CacheFollowsInformer' /\ NoOrphanedAssumption'
  BY CacheStep, NoOrphanStep DEF Inv
<1>4. PendingPodNeverLost'
  BY NeverLostStep
<1> QED
  BY <1>1, <1>2, <1>3, <1>4 DEF Inv

\* The inductive invariant holds of every reachable state.
THEOREM Invariance == Spec => []Inv
<1>1. Init => Inv
  BY InvInit
<1>2. Inv /\ [Next]_vars => Inv'
  BY InvStep
<1> QED
  BY <1>1, <1>2, PTL DEF Spec

\* The cache confirms a pod on exactly the node the informer saw it bound to,
\* however AssumePod, ForgetPod and the event handlers interleave.
THEOREM CacheAgrees == Spec => []CacheFollowsInformer
<1>1. Inv => CacheFollowsInformer
  BY DEF Inv
<1> QED
  BY <1>1, Invariance, PTL

\* Every assumed pod will be bound or forgotten by the thread that holds it, or
\* is bound already: no room is lost to an assumption that nothing ends.
THEOREM AssumptionsEnd == Spec => []NoOrphanedAssumption
<1>1. Inv => NoOrphanedAssumption
  BY DEF Inv
<1> QED
  BY <1>1, Invariance, PTL

\* A pending pod the scheduler knows is queued, in a thread's hands, or about
\* to be seen bound or deleted.
THEOREM NoPodLost == Spec => []PendingPodNeverLost
<1>1. Inv => PendingPodNeverLost
  BY DEF Inv
<1> QED
  BY <1>1, Invariance, PTL

-----------------------------------------------------------------------------
(* What is said of the pods' versions.                                     *)

EverBound(p) == \E i \in 1..Len(versions[p]) : versions[p][i] \in Nodes
SeenBound(p) == seen[p] > 0 /\ versions[p][seen[p]] \in Nodes
SeenGone(p) == seen[p] > 0 /\ versions[p][seen[p]] = "gone"

\* After the version with the node there is only the one of the deletion, and
\* after that there is none.
LEMMA AfterVersions ==
  ASSUME TypeOK, VersionsInOrder, NEW p \in Pods, NEW i \in 1..Len(versions[p])
  PROVE  /\ Len(versions[p]) \in Nat
         /\ versions[p][i] = "gone" => i = Len(versions[p])
         /\ versions[p][i] \in Nodes /\ i # Len(versions[p])
              => /\ i + 1 = Len(versions[p]) /\ versions[p][i + 1] = "gone"
<1> DEFINE L == Len(versions[p])
<1> USE NamesAssumption
<1>1. L \in Nat \ {0}
  BY EmptySeq DEF TypeOK, ApiTypeOK
<1>2. ASSUME NEW j \in 1..L, versions[p][j] = "gone" PROVE j = L
  BY <1>1, <1>2 DEF VersionsInOrder
<1>3. ASSUME versions[p][i] \in Nodes, i # L PROVE i + 1 = L /\ versions[p][i + 1] = "gone"
  <2>1. i \in 1..(L - 1) /\ i + 1 \in 1..L
    BY <1>1, <1>3
  <2>2. versions[p][i + 1] = "gone"
    BY <1>3, <2>1 DEF VersionsInOrder, Phases
  <2> QED
    BY <1>2, <2>1, <2>2
<1> QED
  BY <1>1, <1>2, <1>3

\* Once the informer has told of the deletion of a pod nothing is left to tell.
LEMMA SeenGoneStays ==
  ASSUME TypeOK, VersionsInOrder, [Next]_vars, NEW p \in Pods, SeenGone(p)
  PROVE  SeenGone(p)' /\ ~Observe(p) /\ seen[p] = Len(versions[p])
<1>1. seen[p] \in 1..Len(versions[p]) /\ versions[p][seen[p]] = "gone"
  BY HistoryGrows DEF SeenGone
<1>2. seen[p] = Len(versions[p])
  BY <1>1, AfterVersions
<1>3. seen'[p] = seen[p] /\ versions'[p][seen[p]] = "gone"
  BY <1>1, <1>2, HistoryGrows
<1>4. ~Observe(p)
  BY <1>2, <1>3, ObserveSeen
<1> QED
  BY <1>1, <1>2, <1>3, <1>4 DEF SeenGone

\* A pod that is seen bound is seen bound until it is seen deleted.
LEMMA SeenBoundStays ==
  ASSUME TypeOK, VersionsInOrder, [Next]_vars, NEW p \in Pods, SeenBound(p)
  PROVE  SeenBound(p)' \/ SeenGone(p)'
<1>1. seen[p] \in 1..Len(versions[p]) /\ versions[p][seen[p]] \in Nodes
  BY HistoryGrows DEF SeenBound
<1>2. CASE seen'[p] = seen[p]
  BY <1>1, <1>2, HistoryGrows DEF SeenBound
<1>3. CASE seen'[p] = seen[p] + 1 /\ seen[p] < Len(versions[p])
  <2>1. seen[p] + 1 \in 1..Len(versions[p]) /\ versions[p][seen[p] + 1] = "gone"
    BY <1>1, <1>3, AfterVersions
  <2> QED
    BY <1>3, <2>1, HistoryGrows DEF SeenGone
<1> QED
  BY <1>2, <1>3, HistoryGrows

\* What the informer tells of a pod it has not told of as bound or deleted.
LEMMA SeenByObserve ==
  ASSUME TypeOK, [Next]_vars, NEW p \in Pods, Observe(p)
  PROVE  /\ versions[p][seen[p] + 1] \in Nodes => SeenBound(p)'
         /\ versions[p][seen[p] + 1] = "gone" => SeenGone(p)'
BY ObserveSeen DEF SeenBound, SeenGone

\* A pod that is seen bound is in the cache.
LEMMA SeenBoundInCache ==
  ASSUME TypeOK, CacheFollowsInformer, NEW p \in Pods, SeenBound(p)
  PROVE  cache[p] = versions[p][seen[p]] /\ cache[p] # NoNode /\ p \notin assumed
BY NamesAssumption DEF SeenBound, CacheFollowsInformer, Seen, TypeOK, ApiTypeOK

-----------------------------------------------------------------------------
(* What a step does to the cache, and who carries a pod.                   *)

\* The steps of a thread between the assumption of its pod and the end of its
\* binding cycle.
Carrying == Holding \cup {"bound", "finish"}

Assumes(p, n) ==
  /\ cache[p] = NoNode
  /\ cache' = [cache EXCEPT ![p] = n]
  /\ assumed' = assumed \cup {p}

Forgets(t) ==
  /\ pc[t] \in {"reserve", "cleanup"} /\ pc'[t] \notin Carrying
  /\ pod[t] \in Pods /\ host[t] \in Nodes
  /\ CanForget(pod[t], host[t])
  /\ cache' = [cache EXCEPT ![pod[t]] = NoNode]
  /\ assumed' = assumed \ {pod[t]}

Confirms(p) ==
  /\ Observe(p)
  /\ assumed' = assumed \ {p}
  /\ \/ /\ versions[p][seen[p] + 1] \in Nodes
        /\ cache' = [cache EXCEPT ![p] = versions[p][seen[p] + 1]]
     \/ /\ versions[p][seen[p] + 1] = "gone" /\ SeenBound(p)
        /\ cache' = [cache EXCEPT ![p] = NoNode]

\* A step leaves the cache alone, or a pod is assumed by the loop, forgotten by
\* the thread that holds it, or confirmed or removed by an event.
LEMMA CacheSteps ==
  ASSUME TypeOK, [Next]_vars
  PROVE  \/ UNCHANGED schedulerCache
         \/ /\ Assume /\ pc'[Loop] = "reserve"
            /\ pod[Loop] \in Pods /\ host[Loop] \in Nodes
            /\ Assumes(pod[Loop], host[Loop])
         \/ \E t \in Threads : Forgets(t)
         \/ \E p \in Pods : Confirms(p)
<1> USE NamesAssumption
<1>0. ThreadTypeOK
  BY DEF TypeOK
<1>1. ASSUME Assume, ~UNCHANGED schedulerCache
      PROVE  /\ pc'[Loop] = "reserve" /\ pod[Loop] \in Pods /\ host[Loop] \in Nodes
             /\ Assumes(pod[Loop], host[Loop])
  BY <1>0, <1>1 DEF Assume, Assumes, Goto, ThreadTypeOK, Threads, HasHost
<1>2. ASSUME NEW t \in Threads, pc[t] \in {"reserve", "cleanup"}, Forget(pod[t], host[t]),
             NEW step \in {"move", "failed"}, NEW st, Goto(t, step, st),
             ~UNCHANGED schedulerCache
      PROVE  Forgets(t)
  <2>1. pod[t] \in Pods /\ host[t] \in Nodes
    BY <1>0, <1>2 DEF ThreadTypeOK, HasHost
  <2>2. pc'[t] = step
    BY <1>0, <1>2 DEF Goto, ThreadTypeOK
  <2> QED
    BY <1>2, <2>1, <2>2 DEF Forget, Forgets, Carrying, Holding
<1>3. ASSUME ReserveOrPermitFails, ~UNCHANGED schedulerCache PROVE Forgets(Loop)
  BY <1>2, <1>3 DEF ReserveOrPermitFails, Threads
<1>4. ASSUME NEW t \in Binders, Cleanup(t), ~UNCHANGED schedulerCache PROVE Forgets(t)
  <2>1. Forget(pod[t], host[t]) /\ pc[t] = "cleanup" /\ t \in Threads
    BY <1>4 DEF Cleanup, Threads
  <2>2. Goto(t, "move", status[t]) \/ Goto(t, "failed", status[t])
    BY <1>4 DEF Cleanup
  <2> QED
    BY <1>2, <1>4, <2>1, <2>2
<1>5. ASSUME NEW p \in Pods, Observe(p), ~UNCHANGED schedulerCache PROVE Confirms(p)
  <2> DEFINE new == versions[p][seen[p] + 1]
  <2>1. \/ /\ new \in Nodes /\ cache' = [cache EXCEPT ![p] = new]
           /\ assumed' = assumed \ {p}
        \/ /\ new = "gone" /\ Seen(p) \in Nodes /\ cache' = [cache EXCEPT ![p] = NoNode]
           /\ assumed' = assumed \ {p}
    BY <1>5 DEF Observe
  <2>2. Seen(p) \in Nodes => SeenBound(p)
    BY ObserveSeen, <1>5 DEF Seen, SeenBound, Phases
  <2> QED
    BY <1>5, <2>1, <2>2 DEF Confirms
<1> QED
  BY <1>1, <1>3, <1>4, <1>5, CacheFrame DEF Threads

\* A thread carries a pod because it did so before, because it took over from
\* the loop, or because it has just assumed it.
LEMMA CarrierStep ==
  ASSUME TypeOK, [Next]_vars, NEW t \in Threads, pc'[t] \in Carrying
  PROVE  \/ /\ pc[t] \in Carrying /\ pod'[t] = pod[t] /\ host'[t] = host[t]
            /\ pc'[t] \in Holding => pc[t] \in Holding
         \/ /\ t \in Binders /\ StartBinding /\ TakesOver(t)
            /\ UNCHANGED <<schedulerCache, api>>
         \/ /\ t = Loop /\ Assume /\ pod'[t] = pod[t] /\ host'[t] = host[t]
            /\ Assumes(pod[t], host[t])
<1> USE NamesAssumption DEF Carrying, Holding
<1>0. ThreadTypeOK
  BY DEF TypeOK
<1>1. CASE Stays(t)
  BY <1>1 DEF Stays
<1>2. CASE t \in Binders /\ BindingCycle(t)
  BY <1>0, <1>2 DEF BindingCycle, WaitOnPermit, Bind, SendBindingSuccess, FinishBinding, Cleanup, MovePods, DeferredMove, Goto, Leave, ThreadTypeOK
<1>3. CASE t \in Binders /\ StartBinding /\ TakesOver(t)
  BY <1>3 DEF StartBinding, schedulerCache, api
<1>4. CASE FailureHandler(t)
  BY <1>0, <1>4 DEF FailureHandler, LookUpPod, Drop, Requeue, Return, Goto, Leave, ThreadTypeOK
<1>5. CASE t = Loop /\ ScheduleOne
  <2>1. CASE Assume
    BY <1>0, <1>5, <2>1 DEF Assume, Assumes, Goto, ThreadTypeOK
  <2> QED
    BY <1>0, <1>5, <2>1 DEF ScheduleOne, NextPod, SkipPod, SchedulePod, SendScheduleSuccess, StartBinding, ReserveOrPermitFails, Goto, Leave, ThreadTypeOK, Threads
<1> QED
  BY OwnSteps, <1>1, <1>2, <1>3, <1>4, <1>5

\* Only one goroutine takes over, and the loop has nothing to do with it then.
LEMMA OneTakesOver ==
  ASSUME TypeOK, StartBinding, NEW t \in Binders, NEW u \in Binders, TakesOver(t), TakesOver(u)
  PROVE  t = u
BY NamesAssumption DEF StartBinding, TakesOver, TypeOK, ThreadTypeOK, Threads

-----------------------------------------------------------------------------
(* Records of bindings.                                                    *)

\* Until its record is sent the thread knows the node its pod was bound to.
BoundAsSelected ==
  \A t \in Threads : pc[t] \in {"bound", "finish"} =>
    \E i \in 1..Len(versions[pod[t]]) : versions[pod[t]][i] = host[t]

RecordsHaveVersions ==
  \A r \in log : r.event = "BindingSuccess" =>
    \E i \in 1..Len(versions[r.pod]) : versions[r.pod][i] = r.node

\* The node a thread bound its pod to stays in the versions of the pod.
LEMMA BoundAsSelectedStep == TypeOK /\ BoundAsSelected /\ [Next]_vars => BoundAsSelected'
<1> SUFFICES ASSUME TypeOK, BoundAsSelected, [Next]_vars,
                    NEW t \in Threads, pc'[t] \in {"bound", "finish"}
             PROVE  \E i \in 1..Len(versions'[pod'[t]]) : versions'[pod'[t]][i] = host'[t]
  BY DEF BoundAsSelected
<1> USE NamesAssumption
<1>0. ThreadTypeOK
  BY DEF TypeOK
<1>1. ASSUME pc[t] \in {"bound", "finish"}, pod'[t] = pod[t], host'[t] = host[t]
      PROVE  \E i \in 1..Len(versions'[pod'[t]]) : versions'[pod'[t]][i] = host'[t]
  <2>1. pod[t] \in Pods
    BY <1>0, <1>1 DEF ThreadTypeOK
  <2>2. PICK i \in 1..Len(versions[pod[t]]) : versions[pod[t]][i] = host[t]
    BY <1>1 DEF BoundAsSelected
  <2>3. i \in 1..Len(versions'[pod[t]]) /\ versions'[pod[t]][i] = host[t]
    BY <2>1, <2>2, HistoryGrows
  <2> QED
    BY <1>1, <2>3
<1>2. CASE Bind(t)
  <2>1. pod[t] \in Pods /\ host[t] \in Nodes /\ pod'[t] = pod[t] /\ host'[t] = host[t]
    BY <1>0, <1>2 DEF Bind, Goto, ThreadTypeOK, HasHost
  <2>2. versions' = [versions EXCEPT ![pod[t]] = Append(@, host[t])]
    BY <1>0, <1>2 DEF Bind, Goto, ThreadTypeOK
  <2>3. LET L == Len(versions[pod[t]])
        IN L \in Nat /\ Len(versions'[pod[t]]) = L + 1 /\ versions'[pod[t]][L + 1] = host[t]
    BY <2>1, <2>2, NewVersion DEF TypeOK
  <2>4. Len(versions[pod[t]]) + 1 \in 1..Len(versions'[pod[t]])
    BY <2>3
  <2> QED
    BY <2>1, <2>3, <2>4
<1>3. CASE pc[t] \in Carrying /\ pc[t] \notin {"bound", "finish"} /\ ~Bind(t)
  BY <1>0, <1>3, OwnSteps DEF Carrying, Holding, Stays, TakesOver, BindingCycle, WaitOnPermit, SendBindingSuccess, FinishBinding, Cleanup, MovePods, DeferredMove, FailureHandler, LookUpPod, Drop, Requeue, ScheduleOne, NextPod, SkipPod, SchedulePod, SendScheduleSuccess, Assume, StartBinding, ReserveOrPermitFails, Goto, Leave, ThreadTypeOK, Threads
<1>4. pc'[t] \in Carrying
  BY DEF Carrying
<1>5. ~(t \in Binders /\ TakesOver(t)) /\ ~(t = Loop /\ Assume)
  BY <1>0 DEF TakesOver, Assume, Goto, ThreadTypeOK
<1> QED
  BY <1>1, <1>2, <1>3, <1>4, <1>5, CarrierStep

\* A BindingSuccess record is written for a pod that was bound.
LEMMA RecordsStep ==
  TypeOK /\ BoundAsSelected /\ RecordsHaveVersions /\ [Next]_vars => RecordsHaveVersions'
<1> SUFFICES ASSUME TypeOK, BoundAsSelected, RecordsHaveVersions, [Next]_vars,
                    NEW r \in log', r.event = "BindingSuccess"
             PROVE  \E i \in 1..Len(versions'[r.pod]) : versions'[r.pod][i] = r.node
  BY DEF RecordsHaveVersions
<1> USE NamesAssumption
<1>1. \/ r \in log
      \/ \E t \in Binders : /\ r.pod = pod[t] /\ r.node = host[t] /\ pc[t] = "bound"
  <2>1. CASE log' = log
    BY <2>1
  <2>2. CASE SendScheduleSuccess
    BY <2>2 DEF SendScheduleSuccess, Send
  <2>3. ASSUME NEW t \in Binders, SendBindingSuccess(t)
        PROVE  r \in log \/ (r.pod = pod[t] /\ r.node = host[t] /\ pc[t] = "bound")
    BY <2>3 DEF SendBindingSuccess, Send
  <2>4. SchedulePod \/ ReserveOrPermitFails => log' = log
    BY DEF SchedulePod, ReserveOrPermitFails
  <2>5. \A t \in Binders : WaitOnPermit(t) \/ Bind(t) => log' = log
    BY DEF WaitOnPermit, Bind
  <2> QED
    BY LogFrame, <2>1, <2>2, <2>3, <2>4, <2>5
<1>2. \E i \in 1..Len(versions[r.pod]) : versions[r.pod][i] = r.node
  BY <1>1 DEF RecordsHaveVersions, BoundAsSelected, Threads
<1>3. r.pod \in Pods
  BY <1>1 DEF TypeOK, LogTypeOK, Records, ThreadTypeOK, Threads
<1>4. PICK i \in 1..Len(versions[r.pod]) : versions[r.pod][i] = r.node
  BY <1>2
<1>5. i \in 1..Len(versions'[r.pod]) /\ versions'[r.pod][i] = r.node
  BY <1>3, <1>4, HistoryGrows
<1> QED
  BY <1>5

\* A pod has one node at most, so the records of its binding agree.
LEMMA RecordsAgree ==
  TypeOK /\ VersionsInOrder /\ RecordsHaveVersions => BindingRecordsAreTrue
<1> SUFFICES ASSUME TypeOK, VersionsInOrder, RecordsHaveVersions,
                    NEW r \in log, r.event = "BindingSuccess"
             PROVE  /\ \E i \in 1..Len(versions[r.pod]) : versions[r.pod][i] = r.node
                    /\ \A q \in log : q.event = r.event /\ q.pod = r.pod => q.node = r.node
  BY DEF BindingRecordsAreTrue
<1> USE NamesAssumption
<1>1. PICK i \in 1..Len(versions[r.pod]) : versions[r.pod][i] = r.node
  BY DEF RecordsHaveVersions
<1>2. ASSUME NEW q \in log, q.event = r.event, q.pod = r.pod PROVE q.node = r.node
  <2>1. PICK j \in 1..Len(versions[r.pod]) : versions[r.pod][j] = q.node
    BY <1>2 DEF RecordsHaveVersions
  <2>2. r.pod \in Pods /\ r.node \in Nodes /\ q.node \in Nodes /\ "gone" \notin Nodes
    BY DEF TypeOK, LogTypeOK, Records, Phases
  <2>3. ASSUME NEW k \in 1..Len(versions[r.pod]), NEW m \in 1..Len(versions[r.pod]),
               versions[r.pod][k] \in Nodes, versions[r.pod][m] \in Nodes, k < m
        PROVE  FALSE
    <3>1. k # Len(versions[r.pod]) /\ Len(versions[r.pod]) \in Nat
      BY <2>2, <2>3, AfterVersions
    <3>2. k + 1 = Len(versions[r.pod]) /\ versions[r.pod][k + 1] = "gone"
      BY <2>2, <2>3, <3>1, AfterVersions
    <3>3. m = k + 1
      BY <2>3, <3>1, <3>2
    <3> QED
      BY <2>2, <2>3, <3>2, <3>3
  <2>4. i = j
    BY <1>1, <2>1, <2>2, <2>3
  <2> QED
    BY <1>1, <2>1, <2>4
<1> QED
  BY <1>1, <1>2

\* A BindingSuccess record names the node the API server bound the pod to, so over
\* all records of that event each pod has one node, whichever sends are lost and
\* whichever binds are reported as failed.
THEOREM RecordsOfBindings == Spec => []BindingRecordsAreTrue
<1> DEFINE IInv == Inv /\ BoundAsSelected /\ RecordsHaveVersions
<1>1. Init => IInv
  BY InvInit DEF Init, BoundAsSelected, RecordsHaveVersions, Threads
<1>2. IInv /\ [Next]_vars => IInv'
  BY InvStep, BoundAsSelectedStep, RecordsStep DEF Inv
<1>3. IInv => BindingRecordsAreTrue
  BY RecordsAgree DEF Inv
<1> QED
  BY <1>1, <1>2, <1>3, PTL DEF Spec

-----------------------------------------------------------------------------
(* Goroutines and the pods they bind.                                      *)

Carries(t, p) == pc[t] \in Carrying /\ pod[t] = p

\* The pod of a thread is assumed on its host, until the informer tells of it.
CarriersCounted ==
  \A t \in Threads : pc[t] \in Carrying =>
    \/ pod[t] \in assumed /\ cache[pod[t]] = host[t]
    \/ SeenBound(pod[t])
    \/ SeenGone(pod[t])

\* No two threads carry a pod, unless the informer has told of its deletion.
OneCarrier ==
  \A t, u \in Threads : \A p \in Pods :
    Carries(t, p) /\ Carries(u, p) => t = u \/ SeenGone(p)

\* A pod that somebody carries cannot be assumed once more before it is deleted.
LEMMA CarriedNotAssumable ==
  ASSUME TypeOK, CacheFollowsInformer, CarriersCounted,
         NEW t \in Threads, NEW p \in Pods, Carries(t, p), cache[p] = NoNode
  PROVE  SeenGone(p)
<1>1. host[t] # NoNode
  BY NamesAssumption DEF Carries, Carrying, Holding, HasHost, TypeOK, ThreadTypeOK
<1> QED
  BY <1>1, SeenBoundInCache DEF Carries, CarriersCounted

\* What a thread carries stays counted.
LEMMA CarriersCountedStep ==
  Inv /\ CarriersCounted /\ OneCarrier /\ [Next]_vars => CarriersCounted'
<1> SUFFICES ASSUME Inv, CarriersCounted, OneCarrier, [Next]_vars,
                    NEW t \in Threads, pc'[t] \in Carrying
             PROVE  \/ pod'[t] \in assumed' /\ cache'[pod'[t]] = host'[t]
                    \/ SeenBound(pod[t])'
                    \/ SeenGone(pod[t])'
  BY DEF CarriersCounted
<1> USE NamesAssumption
<1>0. /\ TypeOK /\ ThreadTypeOK /\ VersionsInOrder /\ CacheFollowsInformer
      /\ cache \in [Pods -> Nodes \cup {NoNode}] /\ assumed \subseteq Pods
  BY DEF Inv, TypeOK, CacheTypeOK
<1> DEFINE Counted(p, n) == (p \in assumed /\ cache[p] = n) \/ SeenBound(p) \/ SeenGone(p)
<1>1. ASSUME NEW p \in Pods, NEW n \in Nodes, Counted(p, n),
             \A u \in Threads : Forgets(u) /\ pod[u] = p => SeenGone(p)
      PROVE  Counted(p, n)'
  <2>1. CASE SeenBound(p) \/ SeenGone(p)
    BY <1>0, <2>1, SeenBoundStays, SeenGoneStays
  <2>2. CASE p \in assumed /\ cache[p] = n /\ ~SeenGone(p)
    <3>1. CASE UNCHANGED schedulerCache
      BY <2>2, <3>1 DEF schedulerCache
    <3>2. ASSUME NEW q \in Pods, NEW m \in Nodes, Assumes(q, m) PROVE Counted(p, n)'
      BY <1>0, <2>2, <3>2 DEF Assumes
    <3>3. ASSUME NEW u \in Threads, Forgets(u) PROVE Counted(p, n)'
      BY <1>0, <1>1, <2>2, <3>3 DEF Forgets
    <3>4. ASSUME NEW q \in Pods, Confirms(q) PROVE Counted(p, n)'
      <4>1. CASE q = p
        BY <1>0, <3>4, <4>1, SeenByObserve DEF Confirms
      <4>2. CASE q # p
        BY <1>0, <2>2, <3>4, <4>2 DEF Confirms
      <4> QED
        BY <4>1, <4>2
    <3> QED
      BY <1>0, <3>1, <3>2, <3>3, <3>4, CacheSteps
  <2> QED
    BY <1>1, <2>1, <2>2
<1>2. CASE pc[t] \in Carrying /\ pod'[t] = pod[t] /\ host'[t] = host[t]
  <2>1. pod[t] \in Pods /\ host[t] \in Nodes
    BY <1>0, <1>2 DEF ThreadTypeOK, Carrying, Holding, HasHost
  <2>2. ASSUME NEW u \in Threads, Forgets(u), pod[u] = pod[t] PROVE SeenGone(pod[t])
    <3>1. u # t
      BY <2>2 DEF Forgets
    <3>2. Carries(u, pod[t]) /\ Carries(t, pod[t])
      BY <1>2, <2>2 DEF Carries, Forgets, Carrying, Holding
    <3> QED
      BY <2>1, <3>1, <3>2 DEF OneCarrier
  <2>3. Counted(pod[t], host[t])
    BY <1>2 DEF CarriersCounted
  <2>4. Counted(pod[t], host[t])'
    BY <1>1, <1>2, <2>1, <2>2, <2>3
  <2> QED
    BY <1>2, <2>4
<1>3. CASE t \in Binders /\ TakesOver(t) /\ UNCHANGED <<schedulerCache, api>>
  <2>1. Counted(pod[Loop], host[Loop])
    BY <1>3 DEF CarriersCounted, TakesOver, Carrying, Holding, Threads
  <2> QED
    BY <1>3, <2>1 DEF TakesOver, schedulerCache, api, SeenBound, SeenGone
<1>4. CASE pod'[t] = pod[t] /\ host'[t] = host[t] /\ Assumes(pod[t], host[t]) /\ Assume /\ t = Loop
  <2>1. pod[t] \in Pods
    BY <1>0, <1>4 DEF Assume, ThreadTypeOK
  <2> QED
    BY <1>0, <1>4, <2>1 DEF Assumes
<1> QED
  BY <1>0, <1>2, <1>3, <1>4, CarrierStep

\* No step gives a pod to a second thread.
LEMMA OneCarrierStep ==
  Inv /\ CarriersCounted /\ OneCarrier /\ [Next]_vars => OneCarrier'
<1> SUFFICES ASSUME Inv, CarriersCounted, OneCarrier, [Next]_vars,
                    NEW t \in Threads, NEW u \in Threads, NEW p \in Pods,
                    Carries(t, p)', Carries(u, p)', ~SeenGone(p)'
             PROVE  t = u
  BY DEF OneCarrier
<1> USE NamesAssumption
<1>0. TypeOK /\ VersionsInOrder /\ CacheFollowsInformer
  BY DEF Inv
<1>1. ~SeenGone(p)
  BY <1>0, SeenGoneStays
<1> DEFINE Kept(v) == Carries(v, p)
           Taken(v) == v \in Binders /\ StartBinding /\ TakesOver(v) /\ Carries(Loop, p)
           Assumed(v) == v = Loop /\ Assume /\ cache[p] = NoNode
<1>2. ASSUME NEW v \in Threads, Carries(v, p)' PROVE Kept(v) \/ Taken(v) \/ Assumed(v)
  <2>1. pc'[v] \in Carrying /\ pod'[v] = p
    BY <1>2 DEF Carries
  <2>2. CASE pc[v] \in Carrying /\ pod'[v] = pod[v]
    BY <2>1, <2>2 DEF Carries
  <2>3. CASE v \in Binders /\ StartBinding /\ TakesOver(v)
    BY <2>1, <2>3 DEF Carries, TakesOver, Carrying, Holding
  <2>4. CASE v = Loop /\ Assume /\ pod'[v] = pod[v] /\ Assumes(pod[v], host[v])
    BY <2>1, <2>4 DEF Assumes
  <2> QED
    BY <1>0, <2>1, <2>2, <2>3, <2>4, CarrierStep
<1>3. Loop \in Threads /\ Binders \subseteq Threads /\ Loop \notin Binders
  BY DEF Threads
<1>4. ASSUME NEW v \in Threads, NEW w \in Threads, Kept(v), Kept(w) PROVE v = w
  BY <1>1, <1>4 DEF OneCarrier
<1>5. ASSUME NEW v \in Threads, NEW w \in Threads, Kept(v), Taken(w), Carries(v, p)' PROVE FALSE
  <2>1. v = Loop
    BY <1>3, <1>4, <1>5
  <2> QED
    BY <1>5, <2>1 DEF TakesOver, Carries, Carrying, Holding
<1>6. ASSUME NEW v \in Threads, cache[p] = NoNode PROVE ~Kept(v)
  BY <1>0, <1>1, <1>6, CarriedNotAssumable
<1>7. ~(StartBinding /\ Assume)
  BY DEF StartBinding, Assume
<1> QED
  BY <1>0, <1>2, <1>3, <1>4, <1>5, <1>6, <1>7, OneTakesOver

CarrierInv == Inv /\ CarriersCounted /\ OneCarrier

\* The invariant about the carriers holds of every reachable state.
LEMMA CarrierInvariance == Spec => []CarrierInv
<1>1. Init => CarrierInv
  BY InvInit DEF Init, CarrierInv, CarriersCounted, OneCarrier, Carries, Carrying, Holding, Threads
<1>2. CarrierInv /\ [Next]_vars => CarrierInv'
  BY InvStep, CarriersCountedStep, OneCarrierStep DEF CarrierInv
<1> QED
  BY <1>1, <1>2, PTL DEF Spec

-----------------------------------------------------------------------------
(* Room, for the pods whose bind did not take effect and report an error.   *)

\* Every thread that holds a pod has it assumed on its host.
HoldersCounted ==
  \A t \in Threads : pc[t] \in Holding /\ pod[t] \notin misreported =>
    pod[t] \in assumed /\ cache[pod[t]] = host[t]

OneHolder ==
  \A t, u \in Threads :
    pc[t] \in Holding /\ pc[u] \in Holding /\ pod[t] = pod[u] /\ pod[t] \notin misreported => t = u

\* A pod that was bound is held again only when its deletion has been handled.
HeldUnbound ==
  \A t \in Threads :
    pc[t] \in Holding /\ EverBound(pod[t]) /\ pod[t] \notin misreported => SeenGone(pod[t])

\* A pod that is bound is on its node in the cache before the informer tells of it.
BoundCounted ==
  \A p \in Pods \ misreported : \A i \in (seen[p] + 1)..Len(versions[p]) :
    versions[p][i] \in Nodes => cache[p] = versions[p][i]

\* The pods on a node that are not there by a bind that reported an error.
Counted(n) == OnNode(n) \ misreported

\* The node that the loop selected has room until the pod is assumed.
RoomAhead ==
  pc[Loop] \in {"selected", "assume"} =>
    Cardinality(Counted(host[Loop])) < Capacity[host[Loop]]

NodesNotOverfull == \A n \in Nodes : Cardinality(Counted(n)) <= Capacity[n]

\* It is never forgotten that a bind was misreported.
LEMMA MisreportedStays == ASSUME [Next]_vars PROVE misreported \subseteq misreported'
<1>1. ASSUME NEW t \in Binders, Bind(t) PROVE misreported \subseteq misreported'
  BY <1>1 DEF Bind
<1>2. ASSUME NEW p \in Pods, Observe(p) \/ Delete(p) PROVE misreported \subseteq misreported'
  BY <1>2 DEF Observe, Delete
<1> QED
  BY <1>1, <1>2, ApiFrame DEF api

RoomInv ==
  /\ CarrierInv
  /\ HoldersCounted /\ OneHolder /\ HeldUnbound /\ BoundCounted
  /\ RoomAhead /\ NodesNotOverfull

\* Whoever holds a pod is alone, so nobody else forgets it; and a pod that is held
\* does not get a node from the informer.
LEMMA HeldIsKept ==
  ASSUME RoomInv, [Next]_vars, NEW t \in Threads, pc[t] \in Holding, pod[t] \notin misreported
  PROVE  /\ \A u \in Threads : Forgets(u) /\ pod[u] = pod[t] => u = t
         /\ ~Confirms(pod[t])
<1>1. ASSUME NEW u \in Threads, Forgets(u), pod[u] = pod[t] PROVE u = t
  BY <1>1 DEF RoomInv, OneHolder, Forgets, Holding
<1>2. ASSUME Confirms(pod[t]) PROVE FALSE
  <2>1. /\ TypeOK /\ VersionsInOrder /\ pod[t] \in Pods
    BY DEF RoomInv, CarrierInv, Inv, TypeOK, ThreadTypeOK, Holding
  <2>2. EverBound(pod[t])
    <3>1. CASE versions[pod[t]][seen[pod[t]] + 1] \in Nodes
      BY <1>2, <2>1, <3>1, ObserveSeen DEF Confirms, EverBound
    <3>2. CASE SeenBound(pod[t])
      BY <2>1, <3>2, HistoryGrows DEF SeenBound, EverBound
    <3> QED
      BY <1>2, <3>1, <3>2 DEF Confirms
  <2>3. SeenGone(pod[t])
    BY <2>2 DEF RoomInv, HeldUnbound
  <2> QED
    BY <1>2, <2>1, <2>3, SeenGoneStays DEF Confirms
<1> QED
  BY <1>1, <1>2

\* What is held stays assumed on the host it was assumed on.
LEMMA HoldersCountedStep == RoomInv /\ [Next]_vars => HoldersCounted'
<1> SUFFICES ASSUME RoomInv, [Next]_vars, NEW t \in Threads, pc'[t] \in Holding,
                    pod'[t] \notin misreported'
             PROVE  pod'[t] \in assumed' /\ cache'[pod'[t]] = host'[t]
  BY DEF HoldersCounted
<1> USE NamesAssumption
<1>a. pod'[t] \notin misreported
  BY MisreportedStays
<1>0. /\ TypeOK /\ ThreadTypeOK /\ HoldersCounted
      /\ cache \in [Pods -> Nodes \cup {NoNode}] /\ assumed \subseteq Pods
  BY DEF RoomInv, CarrierInv, Inv, TypeOK, CacheTypeOK
<1>1. CASE pc[t] \in Holding /\ pod'[t] = pod[t] /\ host'[t] = host[t]
  <2>1. /\ pod[t] \in assumed /\ cache[pod[t]] = host[t]
        /\ pod[t] \in Pods /\ host[t] \in Nodes
    BY <1>0, <1>1, <1>a DEF HoldersCounted, ThreadTypeOK, Holding, HasHost
  <2>2. CASE UNCHANGED schedulerCache
    BY <1>1, <2>1, <2>2 DEF schedulerCache
  <2>3. ASSUME NEW q \in Pods, NEW m \in Nodes, Assumes(q, m)
        PROVE  pod[t] \in assumed' /\ cache'[pod[t]] = host[t]
    BY <1>0, <2>1, <2>3 DEF Assumes
  <2>4. ASSUME NEW u \in Threads, Forgets(u)
        PROVE  pod[t] \in assumed' /\ cache'[pod[t]] = host[t]
    <3>1. pod[u] # pod[t]
      BY <1>1, <1>a, <2>4, HeldIsKept DEF Forgets, Carrying
    <3> QED
      BY <1>0, <2>1, <2>4, <3>1 DEF Forgets
  <2>5. ASSUME NEW q \in Pods, Confirms(q)
        PROVE  pod[t] \in assumed' /\ cache'[pod[t]] = host[t]
    <3>1. q # pod[t]
      BY <1>1, <1>a, <2>5, HeldIsKept
    <3> QED
      BY <1>0, <2>1, <2>5, <3>1 DEF Confirms
  <2> QED
    BY <1>0, <1>1, <2>2, <2>3, <2>4, <2>5, CacheSteps
<1>2. CASE t \in Binders /\ TakesOver(t) /\ UNCHANGED <<schedulerCache, api>>
  BY <1>0, <1>2, <1>a DEF TakesOver, HoldersCounted, Holding, Threads, schedulerCache
<1>3. CASE t = Loop /\ Assume /\ pod'[t] = pod[t] /\ host'[t] = host[t] /\ Assumes(pod[t], host[t])
  <2>1. pod[t] \in Pods
    BY <1>0, <1>3 DEF Assume, ThreadTypeOK
  <2> QED
    BY <1>0, <1>3, <2>1 DEF Assumes
<1> QED
  BY <1>0, <1>1, <1>2, <1>3, CarrierStep DEF Carrying

\* No step gives a pod to a second thread, deleted or not.
LEMMA OneHolderStep == RoomInv /\ [Next]_vars => OneHolder'
<1> SUFFICES ASSUME RoomInv, [Next]_vars, NEW t \in Threads, NEW u \in Threads,
                    pc'[t] \in Holding, pc'[u] \in Holding, pod'[t] = pod'[u],
                    pod'[t] \notin misreported'
             PROVE  t = u
  BY DEF OneHolder
<1> USE NamesAssumption
<1>0. TypeOK /\ ThreadTypeOK /\ OneHolder /\ HoldersCounted
  BY DEF RoomInv, CarrierInv, Inv, TypeOK
<1> DEFINE p == pod'[t]
           Kept(v) == pc[v] \in Holding /\ pod[v] = p
           Taken(v) == v \in Binders /\ StartBinding /\ TakesOver(v) /\ Kept(Loop)
           Assumed(v) == v = Loop /\ Assume /\ cache[p] = NoNode
<1>a. p \notin misreported
  BY MisreportedStays
<1>1. ASSUME NEW v \in Threads, pc'[v] \in Holding, pod'[v] = p
      PROVE  Kept(v) \/ Taken(v) \/ Assumed(v)
  <2>1. v \in Binders /\ StartBinding /\ TakesOver(v) => Taken(v)
    BY <1>1 DEF TakesOver, Holding
  <2>2. v = Loop /\ Assume /\ pod'[v] = pod[v] /\ Assumes(pod[v], host[v]) => Assumed(v)
    BY <1>1 DEF Assumes
  <2> QED
    BY <1>0, <1>1, <2>1, <2>2, CarrierStep DEF Carrying
<1>2. Loop \in Threads /\ Binders \subseteq Threads /\ Loop \notin Binders
  BY DEF Threads
<1>3. ASSUME NEW v \in Threads, NEW w \in Threads, Kept(v), Kept(w) PROVE v = w
  BY <1>0, <1>3, <1>a DEF OneHolder
<1>4. ASSUME NEW v \in Threads, NEW w \in Threads, Kept(v), Taken(w), pc'[v] \in Holding PROVE FALSE
  <2>1. v = Loop
    BY <1>2, <1>3, <1>4
  <2> QED
    BY <1>4, <2>1 DEF TakesOver, Holding
<1>5. ASSUME NEW v \in Threads, cache[p] = NoNode PROVE ~Kept(v)
  BY <1>0, <1>5, <1>a DEF HoldersCounted, ThreadTypeOK, Holding, HasHost
<1>6. ~(StartBinding /\ Assume)
  BY DEF StartBinding, Assume
<1> HIDE DEF p
<1>7. (Kept(t) \/ Taken(t) \/ Assumed(t)) /\ (Kept(u) \/ Taken(u) \/ Assumed(u))
  BY <1>1 DEF p
<1> QED
  BY <1>0, <1>3, <1>4, <1>5, <1>6, <1>7, OneTakesOver

\* A version with a node is written by a bind, which ends in the step "bound" or is
\* misreported.
LEMMA NodeByBind ==
  ASSUME TypeOK, [Next]_vars, NEW p \in Pods, p \notin misreported',
         NEW i \in 1..Len(versions'[p]), versions'[p][i] \in Nodes
  PROVE  \/ i \in 1..Len(versions[p]) /\ versions'[p][i] = versions[p][i]
         \/ \E t \in Binders : /\ Bind(t) /\ pod[t] = p
                               /\ versions'[p][i] = host[t] /\ pc'[t] = "bound"
<1> USE NamesAssumption
<1>0. ApiTypeOK /\ ThreadTypeOK
  BY DEF TypeOK
<1>1. CASE i \in 1..Len(versions[p])
  BY <1>1, HistoryGrows
<1>2. ASSUME NEW q \in Pods, NEW v \in Nodes \cup Phases,
             versions' = [versions EXCEPT ![q] = Append(@, v)], i \notin 1..Len(versions[p])
      PROVE  q = p /\ versions'[p][i] = v
  BY <1>0, <1>2, NewVersion
<1>3. CASE i \notin 1..Len(versions[p])
  <2>1. ASSUME NEW t \in Binders, Bind(t)
        PROVE  pod[t] = p /\ versions'[p][i] = host[t] /\ pc'[t] = "bound"
    <3>1. pod[t] \in Pods /\ host[t] \in Nodes \cup Phases
      BY <1>0, <2>1 DEF Bind, ThreadTypeOK, Threads, HasHost
    <3>2. \/ versions' = versions
          \/ /\ versions' = [versions EXCEPT ![pod[t]] = Append(@, host[t])]
             /\ Goto(t, "bound", "ok") \/ pod[t] \in misreported'
      BY <2>1 DEF Bind
    <3>3. versions' # versions
      BY <1>3
    <3>4. Goto(t, "bound", "ok") => pc'[t] = "bound"
      BY <1>0 DEF Goto, ThreadTypeOK, Threads
    <3> QED
      BY <1>2, <1>3, <3>1, <3>2, <3>3, <3>4
  <2>2. ASSUME NEW q \in Pods, Delete(q) PROVE FALSE
    BY <1>2, <1>3, <2>2 DEF Delete, Phases
  <2>3. ASSUME NEW q \in Pods, Observe(q) PROVE FALSE
    BY <1>3, <2>3 DEF Observe
  <2> QED
    BY <1>3, <2>1, <2>2, <2>3, ApiFrame DEF api
<1> QED
  BY <1>1, <1>3

\* A pod that was bound can be assumed again only when its deletion was handled.
LEMMA BoundNotAssumable ==
  ASSUME RoomInv, NEW p \in Pods \ misreported, EverBound(p), cache[p] = NoNode
  PROVE  SeenGone(p)
<1> USE NamesAssumption
<1>0. TypeOK /\ VersionsInOrder /\ CacheFollowsInformer /\ BoundCounted
  BY DEF RoomInv, CarrierInv, Inv
<1>1. PICK i \in 1..Len(versions[p]) : versions[p][i] \in Nodes
  BY DEF EverBound
<1>2. seen[p] \in Nat /\ seen[p] <= Len(versions[p]) /\ Len(versions[p]) \in Nat
  BY <1>0, <1>1, AfterVersions DEF TypeOK, ApiTypeOK
<1>3. ~(i > seen[p])
  BY <1>0, <1>1, <1>2 DEF BoundCounted
<1>4. i # seen[p]
  BY <1>0, <1>1, SeenBoundInCache DEF SeenBound
<1>5. i < seen[p]
  BY <1>1, <1>2, <1>3, <1>4
<1>6. i + 1 = Len(versions[p]) /\ versions[p][i + 1] = "gone"
  BY <1>0, <1>1, <1>2, <1>5, AfterVersions
<1>7. seen[p] = i + 1 /\ seen[p] > 0
  BY <1>1, <1>2, <1>5, <1>6
<1> QED
  BY <1>6, <1>7 DEF SeenGone

\* What is held is not bound.
LEMMA HeldUnboundStep ==
  ASSUME RoomInv, [Next]_vars
  PROVE  HeldUnbound'
<1> SUFFICES ASSUME NEW t \in Threads, pc'[t] \in Holding, EverBound(pod[t])',
                    pod'[t] \notin misreported'
             PROVE  SeenGone(pod[t])'
  BY DEF HeldUnbound
<1> USE NamesAssumption
<1>a. pod'[t] \notin misreported
  BY MisreportedStays
<1>0. TypeOK /\ ThreadTypeOK /\ VersionsInOrder /\ OneHolder /\ HeldUnbound
  BY DEF RoomInv, CarrierInv, Inv, TypeOK
<1>1. ASSUME NEW p \in Pods, SeenGone(p), pod'[t] = p PROVE SeenGone(pod[t])'
  <2>1. SeenGone(p)'
    BY <1>0, <1>1, SeenGoneStays
  <2> QED
    BY <1>1, <2>1 DEF SeenGone
<1>2. CASE pc[t] \in Holding /\ pod'[t] = pod[t] /\ host'[t] = host[t]
  <2>1. pod[t] \in Pods
    BY <1>0, <1>2 DEF ThreadTypeOK, Holding
  <2>2. PICK i \in 1..Len(versions'[pod[t]]) : versions'[pod[t]][i] \in Nodes
    BY <1>2 DEF EverBound
  <2>3. ASSUME NEW u \in Binders, Bind(u), pod[u] = pod[t], pc'[u] = "bound" PROVE FALSE
    BY <1>0, <1>2, <1>a, <2>3 DEF OneHolder, Bind, Holding, Threads
  <2>4. EverBound(pod[t])
    BY <1>0, <1>2, <2>1, <2>2, <2>3, NodeByBind DEF EverBound
  <2>5. SeenGone(pod[t])
    BY <1>0, <1>2, <1>a, <2>4 DEF HeldUnbound
  <2> QED
    BY <1>1, <1>2, <2>1, <2>5
<1>3. CASE t \in Binders /\ TakesOver(t) /\ UNCHANGED <<schedulerCache, api>>
  <2>1. pc[Loop] \in Holding /\ Loop \in Threads /\ pod'[t] = pod[Loop]
    BY <1>3 DEF TakesOver, Holding, Threads
  <2>2. EverBound(pod[Loop]) /\ pod[Loop] \in Pods
    BY <1>0, <1>3, <2>1 DEF EverBound, api, ThreadTypeOK, Holding
  <2>3. SeenGone(pod[Loop])
    BY <1>0, <1>a, <2>1, <2>2 DEF HeldUnbound
  <2> QED
    BY <1>1, <2>1, <2>2, <2>3
<1>4. CASE t = Loop /\ Assume /\ pod'[t] = pod[t] /\ Assumes(pod[t], host[t])
  <2>1. pod[t] \in Pods /\ UNCHANGED api
    BY <1>0, <1>4 DEF Assume, ThreadTypeOK
  <2>2. EverBound(pod[t])
    BY <1>4, <2>1 DEF EverBound, api
  <2>3. SeenGone(pod[t])
    BY <1>4, <1>a, <2>1, <2>2, BoundNotAssumable DEF Assumes
  <2> QED
    BY <1>1, <1>4, <2>1, <2>3
<1> QED
  BY <1>0, <1>2, <1>3, <1>4, CarrierStep DEF Carrying

\* The node a pod is bound to has it in the cache until its deletion is handled.
LEMMA BoundCountedStep ==
  ASSUME RoomInv, [Next]_vars
  PROVE  BoundCounted'
<1> SUFFICES ASSUME NEW p \in Pods, p \notin misreported', NEW i \in (seen'[p] + 1)..Len(versions'[p]),
                    versions'[p][i] \in Nodes
             PROVE  cache'[p] = versions'[p][i]
  BY DEF BoundCounted
<1> USE NamesAssumption
<1>0. /\ TypeOK /\ ThreadTypeOK /\ VersionsInOrder /\ HoldersCounted /\ HeldUnbound /\ BoundCounted
      /\ cache \in [Pods -> Nodes \cup {NoNode}]
  BY DEF RoomInv, CarrierInv, Inv, TypeOK, CacheTypeOK
<1>a. p \notin misreported
  BY MisreportedStays
<1>1. /\ seen[p] \in Nat /\ seen'[p] \in Nat /\ seen'[p] >= seen[p]
      /\ Len(versions[p]) \in Nat /\ Len(versions'[p]) \in Nat
      /\ i \in 1..Len(versions'[p]) /\ i > seen'[p] /\ i > seen[p]
  BY <1>0, HistoryGrows
<1>2. CASE i \in 1..Len(versions[p]) /\ versions'[p][i] = versions[p][i]
  <2> DEFINE n == versions[p][i]
  <2>1. n \in Nodes /\ cache[p] = n /\ i \in (seen[p] + 1)..Len(versions[p])
    BY <1>0, <1>1, <1>2, <1>a DEF BoundCounted
  <2>2. ~SeenGone(p) /\ EverBound(p)
    BY <1>0, <1>1, <1>2, <2>1, SeenGoneStays DEF EverBound
  <2>3. CASE UNCHANGED schedulerCache
    BY <1>2, <2>1, <2>3 DEF schedulerCache
  <2>4. ASSUME NEW q \in Pods, NEW m \in Nodes, Assumes(q, m) PROVE cache'[p] = n
    BY <1>0, <2>1, <2>4 DEF Assumes
  <2>5. ASSUME NEW u \in Threads, Forgets(u) PROVE cache'[p] = n
    <3>1. pod[u] # p
      BY <1>0, <1>a, <2>2, <2>5 DEF HeldUnbound, Forgets, Holding
    <3> QED
      BY <1>0, <2>1, <2>5, <3>1 DEF Forgets
  <2>6. ASSUME NEW q \in Pods, Confirms(q) PROVE cache'[p] = n
    <3>1. q # p
      <4> SUFFICES ASSUME q = p PROVE FALSE
        OBVIOUS
      <4>1. seen'[p] = seen[p] + 1 /\ seen[p] + 1 \in 1..Len(versions[p])
        BY <1>0, <2>6, ObserveSeen DEF Confirms
      <4>2. i > seen[p] + 1 /\ seen[p] + 1 # Len(versions[p])
        BY <1>1, <1>2, <4>1
      <4>3. versions[p][seen[p] + 1] # "gone"
        BY <1>0, <4>1, <4>2, AfterVersions
      <4>4. versions[p][seen[p] + 1] \in Nodes
        BY <2>6, <4>3 DEF Confirms
      <4>5. seen[p] + 2 = Len(versions[p]) /\ versions[p][seen[p] + 2] = "gone"
        BY <1>0, <1>1, <4>1, <4>2, <4>4, AfterVersions
      <4>6. i = seen[p] + 2
        BY <1>1, <1>2, <4>2, <4>5
      <4> QED
        BY <2>1, <4>5, <4>6 DEF Phases
    <3> QED
      BY <1>0, <2>1, <2>6, <3>1 DEF Confirms
  <2> HIDE DEF n
  <2>7. cache'[p] = n
    BY <1>0, <2>1, <2>3, <2>4, <2>5, <2>6, CacheSteps DEF schedulerCache
  <2> QED
    BY <1>2, <2>7 DEF n
<1>3. ASSUME NEW t \in Binders, Bind(t), pod[t] = p, versions'[p][i] = host[t]
      PROVE  cache'[p] = versions'[p][i]
  BY <1>0, <1>3, <1>a DEF Bind, HoldersCounted, Holding, Threads, schedulerCache
<1> QED
  BY <1>0, <1>1, <1>2, <1>3, NodeByBind, ZenonT(40)

\* There are finitely many pods on a node, and fewer pods when some leave.
LEMMA OnNodeFinite ==
  ASSUME NEW n
  PROVE  /\ IsFiniteSet(OnNode(n)) /\ Cardinality(OnNode(n)) \in Nat
         /\ \A S \in SUBSET OnNode(n) :
              Cardinality(S) \in Nat /\ Cardinality(S) <= Cardinality(OnNode(n))
<1>1. IsFiniteSet(Pods) /\ OnNode(n) \subseteq Pods
  BY NamesAssumption DEF OnNode
<1>2. IsFiniteSet(OnNode(n))
  BY <1>1, FS_Subset
<1> QED
  BY <1>2, FS_Subset, FS_CardinalityType

LEMMA CountedFinite ==
  ASSUME NEW n
  PROVE  /\ IsFiniteSet(Counted(n)) /\ Cardinality(Counted(n)) \in Nat
         /\ \A S \in SUBSET Counted(n) :
              Cardinality(S) \in Nat /\ Cardinality(S) <= Cardinality(Counted(n))
<1>1. IsFiniteSet(Counted(n))
  BY OnNodeFinite, FS_Subset DEF Counted
<1> QED
  BY <1>1, FS_Subset, FS_CardinalityType

\* Only the loop adds a pod to a node: an event finds a pod that was bound there.
LEMMA OnlyLoopAdds ==
  ASSUME RoomInv, [Next]_vars, NEW n \in Nodes
  PROVE  \/ Counted(n)' \subseteq Counted(n)
         \/ /\ Assume /\ n = host[Loop] /\ pc'[Loop] = "reserve"
            /\ Counted(n)' = Counted(n) \cup {pod[Loop]} /\ pod[Loop] \notin Counted(n)
<1> USE NamesAssumption
<1>0. /\ TypeOK /\ CacheFollowsInformer /\ BoundCounted
      /\ cache \in [Pods -> Nodes \cup {NoNode}]
  BY DEF RoomInv, CarrierInv, Inv, TypeOK, CacheTypeOK
<1>a. misreported \subseteq misreported'
  BY MisreportedStays
<1>1. CASE UNCHANGED schedulerCache
  BY <1>1, <1>a DEF schedulerCache, OnNode, Counted
<1>2. CASE /\ Assume /\ pc'[Loop] = "reserve"
           /\ pod[Loop] \in Pods /\ host[Loop] \in Nodes
           /\ Assumes(pod[Loop], host[Loop])
  <2>1. misreported' = misreported
    BY <1>2 DEF Assume, api
  <2>2. \A p \in Pods : cache'[p] = IF p = pod[Loop] THEN host[Loop] ELSE cache[p]
    BY <1>0, <1>2 DEF Assumes
  <2>3. cache[pod[Loop]] = NoNode
    BY <1>2 DEF Assumes
  <2> QED
    BY <1>2, <2>1, <2>2, <2>3 DEF OnNode, Counted
<1>3. ASSUME NEW t \in Threads, Forgets(t) PROVE Counted(n)' \subseteq Counted(n)
  BY <1>0, <1>3, <1>a DEF Forgets, OnNode, Counted
<1>4. ASSUME NEW p \in Pods, Confirms(p) PROVE Counted(n)' \subseteq Counted(n)
  <2>1. CASE versions[p][seen[p] + 1] \in Nodes /\ p \notin misreported
    <3>1. seen[p] + 1 \in (seen[p] + 1)..Len(versions[p])
      BY <1>0, <1>4, ObserveSeen DEF Confirms
    <3>2. cache[p] = versions[p][seen[p] + 1]
      BY <1>0, <2>1, <3>1 DEF BoundCounted
    <3>3. cache' = [cache EXCEPT ![p] = cache[p]]
      BY <1>4, <2>1, <3>2 DEF Confirms, Phases
    <3> QED
      BY <1>0, <1>a, <3>3 DEF OnNode, Counted
  <2>2. CASE cache' = [cache EXCEPT ![p] = NoNode]
    BY <1>0, <1>a, <2>2 DEF OnNode, Counted
  <2>3. CASE p \in misreported
    <3>1. \A q \in Pods \ {p} : cache'[q] = cache[q]
      BY <1>0, <1>4 DEF Confirms
    <3> QED
      BY <1>a, <2>3, <3>1 DEF OnNode, Counted
  <2> QED
    BY <1>4, <2>1, <2>2, <2>3 DEF Confirms
<1> QED
  BY <1>0, <1>1, <1>2, <1>3, <1>4, CacheSteps

\* The loop is at a node with room until it takes the room.
LEMMA RoomAheadStep == RoomInv /\ [Next]_vars => RoomAhead'
<1> SUFFICES ASSUME RoomInv, [Next]_vars, pc'[Loop] \in {"selected", "assume"},
                    NEW n, n = host'[Loop]
             PROVE  Cardinality(Counted(n)') < Capacity[n]
  BY DEF RoomAhead, Counted, OnNode
<1> USE NamesAssumption, BoundsAssumption
<1>0. TypeOK /\ ThreadTypeOK /\ ThreadTypeOK' /\ RoomAhead /\ Loop \in Threads
  BY TypeStep DEF RoomInv, CarrierInv, Inv, TypeOK, Threads
<1>1. n \in Nodes /\ Cardinality(Counted(n)) < Capacity[n]
  <2>1. CASE Stays(Loop)
    BY <1>0, <2>1 DEF Stays, RoomAhead, ThreadTypeOK, HasHost
  <2>2. CASE FailureHandler(Loop)
    BY <1>0, <2>2 DEF FailureHandler, LookUpPod, Drop, Requeue, Return, Goto, Leave, ThreadTypeOK
  <2>3. CASE SchedulePod
    <3>1. n \in Nodes /\ Cardinality(OnNode(n)) < Capacity[n]
      BY <1>0, <2>3 DEF SchedulePod, Feasible, Goto, ThreadTypeOK
    <3>2. Cardinality(Counted(n)) <= Cardinality(OnNode(n))
      BY OnNodeFinite DEF Counted
    <3> QED
      BY <3>1, <3>2, OnNodeFinite, CountedFinite
  <2>4. CASE SendScheduleSuccess
    BY <1>0, <2>4 DEF SendScheduleSuccess, RoomAhead, Goto, ThreadTypeOK, HasHost
  <2>5. CASE ScheduleOne /\ ~SchedulePod /\ ~SendScheduleSuccess
    BY <1>0, <2>5 DEF ScheduleOne, NextPod, SkipPod, Assume, StartBinding, ReserveOrPermitFails, Goto, Leave, ThreadTypeOK, Threads
  <2> QED
    BY <1>0, <2>1, <2>2, <2>3, <2>4, <2>5, OwnSteps
<1>2. Counted(n)' \subseteq Counted(n)
  BY <1>1, OnlyLoopAdds
<1>3. Cardinality(Counted(n)') \in Nat /\ Cardinality(Counted(n)') <= Cardinality(Counted(n))
  BY <1>2, CountedFinite
<1>4. Cardinality(Counted(n)) \in Nat /\ Capacity[n] \in Nat
  BY <1>1, CountedFinite
<1> QED
  BY <1>1, <1>3, <1>4

\* No node gets more pods than it has room for.
LEMMA NotOverfullStep == RoomInv /\ [Next]_vars => NodesNotOverfull'
<1> SUFFICES ASSUME RoomInv, [Next]_vars, NEW n \in Nodes
             PROVE  Cardinality(Counted(n)') <= Capacity[n]
  BY DEF NodesNotOverfull, Counted, OnNode
<1> USE NamesAssumption, BoundsAssumption
<1>1. /\ Cardinality(Counted(n)) \in Nat /\ Capacity[n] \in Nat
      /\ Cardinality(Counted(n)) <= Capacity[n] /\ IsFiniteSet(Counted(n))
  BY CountedFinite DEF RoomInv, NodesNotOverfull
<1>2. CASE Counted(n)' \subseteq Counted(n)
  <2>1. Cardinality(Counted(n)') \in Nat /\ Cardinality(Counted(n)') <= Cardinality(Counted(n))
    BY <1>2, CountedFinite
  <2> QED
    BY <1>1, <2>1
<1>3. CASE /\ Assume /\ n = host[Loop]
           /\ Counted(n)' = Counted(n) \cup {pod[Loop]} /\ pod[Loop] \notin Counted(n)
  <2>1. Cardinality(Counted(n)) < Capacity[n]
    BY <1>3 DEF RoomInv, RoomAhead, Assume
  <2>2. Cardinality(Counted(n)') = Cardinality(Counted(n)) + 1
    BY <1>1, <1>3, FS_AddElement
  <2> QED
    BY <1>1, <2>1, <2>2
<1> QED
  BY <1>2, <1>3, OnlyLoopAdds

\* The invariant about room holds of every reachable state.
LEMMA RoomInvariance == Spec => []RoomInv
<1>1. Init => RoomInv
  <2> SUFFICES ASSUME Init PROVE RoomInv
    OBVIOUS
  <2> USE NamesAssumption, BoundsAssumption
  <2>1. CarrierInv
    BY InvInit DEF Init, CarrierInv, CarriersCounted, OneCarrier, Carries, Carrying, Holding, Threads
  <2>2. HoldersCounted /\ OneHolder /\ HeldUnbound /\ RoomAhead
    BY DEF Init, HoldersCounted, OneHolder, HeldUnbound, RoomAhead, Holding, Threads
  <2>3. BoundCounted
    <3> SUFFICES ASSUME NEW p \in Pods, NEW i \in (seen[p] + 1)..Len(versions[p]),
                        versions[p][i] \in Nodes
                 PROVE  FALSE
      BY DEF BoundCounted
    <3>1. CASE p \in DOMAIN Running
      BY <3>1 DEF Init
    <3>2. CASE p \notin DOMAIN Running
      BY <3>2 DEF Init, Phases
    <3> QED
      BY <3>1, <3>2
  <2>4. ASSUME NEW n \in Nodes PROVE Counted(n) = {p \in DOMAIN Running : Running[p] = n}
    BY DEF Init, OnNode, Counted
  <2>5. NodesNotOverfull
    BY <2>4 DEF NodesNotOverfull
  <2> QED
    BY <2>1, <2>2, <2>3, <2>5 DEF RoomInv
<1>2. RoomInv /\ [Next]_vars => RoomInv'
  <2> SUFFICES ASSUME RoomInv, [Next]_vars PROVE RoomInv'
    OBVIOUS
  <2>1. CarrierInv'
    BY InvStep, CarriersCountedStep, OneCarrierStep DEF RoomInv, CarrierInv
  <2> QED
    BY <2>1, HoldersCountedStep, OneHolderStep, HeldUnboundStep, BoundCountedStep, RoomAheadStep, NotOverfullStep DEF RoomInv
<1> QED
  BY <1>1, <1>2, PTL DEF Spec

\* Two threads never try to bind the same pod, whichever binds are reported as failed
\* although they took effect, until the deletion of the pod has been handled.
THEOREM OneBinder == Spec => []OneBinderPerPod
<1>1. RoomInv => OneBinderPerPod
  <2> SUFFICES ASSUME RoomInv, NEW t \in Threads, NEW u \in Threads, pod[t] = pod[u],
                      pc[t] \in {"reserve", "permit", "bind"},
                      pc[u] \in {"reserve", "permit", "bind"}, t # u
               PROVE  Seen(pod[t]) = "gone" /\ pod[t] \in misreported
    BY DEF OneBinderPerPod
  <2>1. pod[t] \in Pods
    BY DEF RoomInv, CarrierInv, Inv, TypeOK, ThreadTypeOK
  <2>2. SeenGone(pod[t])
    BY <2>1 DEF RoomInv, CarrierInv, OneCarrier, Carries, Carrying, Holding
  <2>3. pod[t] \in misreported
    BY DEF RoomInv, OneHolder, Holding
  <2> QED
    BY <2>2, <2>3 DEF SeenGone, Seen
<1> QED
  BY <1>1, RoomInvariance, PTL

\* The pods assumed and confirmed on a node, and the pods the API server bound to it,
\* never exceed its capacity, save the pods whose bind took effect and reported an
\* error: the room the loop saw is still there when it assumes a pod, and a bound pod
\* is not forgotten before its deletion is handled.
THEOREM CapacityIsKept == Spec => []WithinCapacity
<1>1. RoomInv => WithinCapacity
  <2> SUFFICES ASSUME RoomInv, NEW n \in Nodes
               PROVE  /\ Cardinality(OnNode(n) \ misreported) <= Capacity[n]
                      /\ Cardinality(Bound(n) \ misreported) <= Capacity[n]
    BY DEF WithinCapacity
  <2> USE NamesAssumption, BoundsAssumption
  <2>0. TypeOK /\ CacheFollowsInformer /\ BoundCounted /\ VersionsInOrder
    BY DEF RoomInv, CarrierInv, Inv
  <2>1. ASSUME NEW p \in Pods \ misreported, Latest(p) = n PROVE cache[p] = n
    <3> DEFINE L == Len(versions[p])
    <3>1. L \in Nat \ {0} /\ seen[p] \in 0..L
      BY <2>0, EmptySeq DEF TypeOK, ApiTypeOK
    <3>2. versions[p][L] = n
      BY <2>1 DEF Latest
    <3>3. CASE seen[p] = L
      BY <2>0, <3>1, <3>2, <3>3, SeenBoundInCache DEF SeenBound
    <3>4. CASE seen[p] < L
      BY <2>0, <3>1, <3>2, <3>4 DEF BoundCounted
    <3> QED
      BY <3>1, <3>3, <3>4
  <2>2. Bound(n) \ misreported \subseteq Counted(n)
    BY <2>1 DEF Bound, OnNode, Counted
  <2>3. Cardinality(Counted(n)) <= Capacity[n] /\ Capacity[n] \in Nat
    BY DEF RoomInv, NodesNotOverfull
  <2>4. /\ Cardinality(Counted(n)) \in Nat
        /\ Cardinality(Bound(n) \ misreported) \in Nat
        /\ Cardinality(Bound(n) \ misreported) <= Cardinality(Counted(n))
    BY <2>2, CountedFinite
  <2> QED
    BY <2>3, <2>4 DEF Counted
<1> QED
  BY <1>1, RoomInvariance, PTL

-----------------------------------------------------------------------------
(* Pods that wait for room, and threads that will move them.               *)

\* A goroutine that is about to move p: at once, or after the failure handler,
\* when it leaves only its own pod where it is.
Mover(b, p) == pc[b] = "move" \/ (b \in owed /\ pod[b] # p)
Moved(p) == \E b \in Binders : Mover(b, p)

\* The loop has found no node for p and is about to park it.
FoundUnfit(p) ==
  /\ pc[Loop] \in {"failed", "requeue"} /\ status[Loop] = "unfit" /\ pod[Loop] = p
  /\ queue[p] = "none" /\ Seen(p) = "pending"

\* Whoever handles a failure knows the reason of it.
FailedForReason ==
  \A t \in Threads :
    pc[t] \in {"cleanup", "move", "failed", "requeue"} =>
      status[t] \in {"unfit", "rejected", "error"}

\* Only the loop finds that a pod does not fit.
UnfitOnLoop ==
  \A t \in Threads : status[t] = "unfit" => t = Loop /\ pc[t] \in {"failed", "requeue", "drop"}

\* A pod that waits takes no room itself, and the loop is not about to assume it.
WaitersUnassumed == \A p \in Pods : WaitsForRoom(p) => p \notin assumed
LoopPodNotWaiting ==
  pc[Loop] \in {"popped", "selected", "assume"} => queue[pod[Loop]] # "unfit"

\* The nodes with room that did not become free in silence.
Open == Feasible \ silent

\* While a pod waits there is no room, or somebody will move the pod.  There may be
\* room as soon as the loop is between selecting a node and Reserve, which frees the
\* room without moving a pod.
RoomForLoop == pc[Loop] \in {"selected", "assume", "reserve"} /\ host[Loop] \notin silent

WaitersMoved == \A p \in Pods : WaitsForRoom(p) /\ (Open # {} \/ RoomForLoop) => Moved(p)

\* The pod that the loop has popped is in flight, so that it does not miss an event,
\* unless it is assumed and will be skipped.
PoppedInFlight ==
  \A p \in Pods :
    pc[Loop] = "popped" /\ pod[Loop] = p /\ queue[p] = "none" /\ Seen(p) = "pending" =>
      \/ p \in inFlight
      \/ p \in assumed /\ \A t \in Threads : ~Carries(t, p)

\* Room that becomes free before the pod is parked is an event the pod remembers, or
\* one that somebody has still to announce.
UnfitAware ==
  \A p \in Pods :
    FoundUnfit(p) =>
      /\ p \notin assumed /\ p \in inFlight
      /\ p \in missed \/ Open = {} \/ Moved(p)

WakeInv ==
  /\ CarrierInv
  /\ FailedForReason /\ UnfitOnLoop /\ WaitersUnassumed /\ LoopPodNotWaiting
  /\ WaitersMoved /\ PoppedInFlight /\ UnfitAware

-----------------------------------------------------------------------------
(* Steps of the queue.                                                     *)

\* The informer has told of a pending pod neither that it is bound nor that it is gone.
LEMMA PendingSeen ==
  ASSUME TypeOK, NEW p \in Pods, Seen(p) = "pending"
  PROVE  ~SeenBound(p) /\ ~SeenGone(p) /\ ~Settled(p)
BY NamesAssumption DEF TypeOK, ApiTypeOK, Seen, SeenBound, SeenGone, Settled, Phases

\* A pod that is pending after a step, and that no informer event puts into the queue,
\* was pending before.
LEMMA StillPending ==
  ASSUME TypeOK, [Next]_vars, NEW p \in Pods, Seen(p)' = "pending", queue'[p] # "active"
  PROVE  Seen(p) = "pending" /\ ~Observe(p)
<1> USE NamesAssumption
<1>1. ~Observe(p)
  <2> SUFFICES ASSUME Observe(p) PROVE FALSE
    OBVIOUS
  <2>1. versions[p][seen[p] + 1] = "pending"
    BY ObserveSeen
  <2>2. queue' = [queue EXCEPT ![p] = "active"]
    BY <2>1 DEF Observe, Phases
  <2> QED
    BY <2>2 DEF TypeOK, QueueTypeOK
<1>2. seen'[p] = seen[p]
  BY <1>1, SeenFrame, ObserveSeen
<1> QED
  BY <1>1, <1>2, SeenSame

\* A pod is parked by the loop, which found that it does not fit.
LEMMA ParkStep ==
  ASSUME TypeOK, FailedForReason, UnfitOnLoop, [Next]_vars, NEW p \in Pods,
         queue[p] # "unfit", queue'[p] = "unfit"
  PROVE  /\ Requeue(Loop) /\ pc[Loop] = "requeue" /\ status[Loop] = "unfit"
         /\ pod[Loop] = p /\ queue[p] = "none" /\ p \notin missed
<1>0. queue \in [Pods -> Places]
  BY DEF TypeOK, QueueTypeOK
<1>1. ~UNCHANGED schedulingQueue
  BY DEF schedulingQueue
<1>2. ~StartBinding
  BY <1>0 DEF StartBinding, Activated
<1>3. ASSUME NEW t \in Binders PROVE ~FinishBinding(t) /\ ~MovePods(t) /\ ~DeferredMove(t)
  BY <1>0 DEF FinishBinding, Activated, MovePods, DeferredMove, MoveAll
<1>4. ASSUME NEW t \in Threads, Drop(t) \/ Requeue(t)
      PROVE  /\ Requeue(t) /\ pc[t] = "requeue" /\ pod[t] = p /\ status[t] = "unfit"
             /\ queue[p] = "none" /\ p \notin missed
  <2>1. Requeue(t)
    BY <1>4 DEF Drop
  <2>2. PICK place \in Places \ {"none", "active"} :
          /\ status[t] = "error" => place = "backoff"
          /\ status[t] = "unfit" => place = (IF pod[t] \in missed THEN "backoff" ELSE "unfit")
          /\ status[t] = "rejected" => place = "rejected" \/ (pod[t] \in missed /\ place = "backoff")
          /\ queue' = IF queue[pod[t]] = "none" THEN [queue EXCEPT ![pod[t]] = place] ELSE queue
    BY <2>1 DEF Requeue, AddUnschedulableIfNotPresent
  <2>3. pod[t] = p /\ place = "unfit" /\ queue[p] = "none"
    BY <1>0, <2>2
  <2>4. status[t] = "unfit"
    BY <2>1, <2>2, <2>3 DEF Requeue, FailedForReason
  <2> QED
    BY <2>1, <2>2, <2>3, <2>4 DEF Requeue
<1>5. ASSUME NEW q \in Pods
      PROVE  /\ ~NextPod(q) /\ ~BackoffCompleted(q) /\ ~FlushUnschedulable(q)
             /\ ~PodUpdated(q) /\ ~Observe(q)
  BY <1>0 DEF NextPod, BackoffCompleted, FlushUnschedulable, PodUpdated, Observe, MoveAll, Unschedulable
<1>6. PICK t \in Threads : Drop(t) \/ Requeue(t)
  BY <1>1, <1>2, <1>3, <1>5, QueueFrame
<1> QED
  BY <1>4, <1>6 DEF UnfitOnLoop

\* A failure keeps its reason.
LEMMA ReasonStep ==
  TypeOK /\ FailedForReason /\ UnfitOnLoop /\ [Next]_vars => FailedForReason' /\ UnfitOnLoop'
<1> SUFFICES ASSUME TypeOK, FailedForReason, UnfitOnLoop, [Next]_vars, NEW t \in Threads
             PROVE  /\ pc'[t] \in {"cleanup", "move", "failed", "requeue"} =>
                         status'[t] \in {"unfit", "rejected", "error"}
                    /\ status'[t] = "unfit" => t = Loop /\ pc'[t] \in {"failed", "requeue", "drop"}
  BY DEF FailedForReason, UnfitOnLoop
<1> USE NamesAssumption
<1>0. /\ ThreadTypeOK
      /\ pc[t] \in {"cleanup", "move", "failed", "requeue"} =>
           status[t] \in {"unfit", "rejected", "error"}
      /\ status[t] = "unfit" => t = Loop /\ pc[t] \in {"failed", "requeue", "drop"}
  BY DEF TypeOK, FailedForReason, UnfitOnLoop
<1>1. CASE Stays(t)
  BY <1>0, <1>1 DEF Stays
<1>2. CASE t \in Binders /\ BindingCycle(t)
  BY <1>0, <1>2 DEF BindingCycle, WaitOnPermit, Bind, SendBindingSuccess, FinishBinding, Cleanup, MovePods, DeferredMove, Goto, Leave, ThreadTypeOK, Threads
<1>3. CASE t \in Binders /\ TakesOver(t)
  BY <1>0, <1>3 DEF TakesOver
<1>4. CASE FailureHandler(t)
  BY <1>0, <1>4 DEF FailureHandler, LookUpPod, Drop, Requeue, Return, Goto, Leave, ThreadTypeOK
<1>5. CASE t = Loop /\ ScheduleOne
  BY <1>0, <1>5 DEF ScheduleOne, NextPod, SkipPod, SchedulePod, SendScheduleSuccess, Assume, StartBinding, ReserveOrPermitFails, Goto, Leave, ThreadTypeOK, Threads
<1> QED
  BY OwnSteps, <1>1, <1>2, <1>3, <1>4, <1>5

-----------------------------------------------------------------------------
(* Threads that move pods, and the room that becomes free.                 *)

\* The goroutine that will move an unassumed pod does so some time: then the pod does
\* not wait any more, and if it is in flight it remembers the event.
LEMMA MoverStep ==
  ASSUME CarrierInv, [Next]_vars, NEW p \in Pods, p \notin assumed, Seen(p) = "pending", Moved(p)
  PROVE  \/ Moved(p)'
         \/ queue'[p] # "unfit" /\ (p \in inFlight => p \in missed')
<1> USE NamesAssumption
<1>0. ThreadTypeOK /\ TypeOK /\ QueueTypeOK
  BY DEF CarrierInv, Inv, TypeOK
<1>1. PICK b \in Binders : Mover(b, p)
  BY DEF Moved
<1>2. b \in Threads /\ b # Loop /\ Loop \in Threads
  BY DEF Threads
<1>3. ASSUME NEW own, own # p, MoveAll(own)
      PROVE  queue'[p] # "unfit" /\ (p \in inFlight => p \in missed')
  BY <1>3 DEF MoveAll
<1>4. CASE Stays(b) /\ (b \in owed => b \in owed')
  BY <1>1, <1>4 DEF Stays, Mover, Moved
<1>5. CASE MovePods(b)
  <2>1. NoPod # p
    OBVIOUS
  <2> QED
    BY <1>3, <1>5, <2>1 DEF MovePods
<1>6. CASE DeferredMove(b)
  BY <1>1, <1>3, <1>6 DEF DeferredMove, Mover
<1>7. CASE b \in owed /\ b \in owed' /\ pod'[b] # p
  BY <1>7 DEF Mover, Moved
<1>8. ASSUME ~DeferredMove(b), b \in owed PROVE b \in owed'
  <2>1. ASSUME NEW u \in Binders, BindingCycle(u) PROVE b \in owed'
    BY <1>8, <2>1, <1>0 DEF BindingCycle, WaitOnPermit, Bind, SendBindingSuccess, FinishBinding, Cleanup, MovePods, DeferredMove
  <2>2. ASSUME NEW u \in Threads, FailureHandler(u) PROVE b \in owed'
    BY <1>8, <2>2 DEF FailureHandler, LookUpPod, Drop, Requeue
  <2>3. ASSUME ScheduleOne PROVE b \in owed'
    BY <1>8, <2>3 DEF ScheduleOne, NextPod, SkipPod, SchedulePod, SendScheduleSuccess, Assume, StartBinding, ReserveOrPermitFails
  <2>4. ASSUME NEW q \in Pods, Surroundings(q) PROVE b \in owed'
    BY <1>8, <2>4 DEF Surroundings, BackoffCompleted, FlushUnschedulable, PodUpdated, Observe, Delete
  <2>5. UNCHANGED vars => b \in owed'
    BY <1>8 DEF vars
  <2> QED
    BY <2>1, <2>2, <2>3, <2>4, <2>5 DEF Next
<1>9. CASE BindingCycle(b) /\ ~MovePods(b) /\ ~DeferredMove(b)
  <2>1. b \in owed /\ pod[b] # p
    BY <1>1, <1>9 DEF Mover, BindingCycle, WaitOnPermit, Bind, SendBindingSuccess, FinishBinding, Cleanup
  <2>2. pod'[b] \in {pod[b], NoPod}
    BY <1>0, <1>2, <1>9 DEF BindingCycle, WaitOnPermit, Bind, SendBindingSuccess, FinishBinding, Cleanup, Goto, Leave, ThreadTypeOK
  <2> QED
    BY <1>7, <1>8, <1>9, <2>1, <2>2
<1>10. CASE TakesOver(b)
  <2>1. pod[Loop] # p
    BY <1>0, <1>2, <1>10, PendingSeen DEF TakesOver, CarrierInv, CarriersCounted, Carrying, Holding
  <2>2. b \in owed /\ pod'[b] # p
    BY <1>1, <1>10, <2>1 DEF TakesOver, Mover
  <2>3. ~DeferredMove(b)
    BY <1>10 DEF TakesOver, DeferredMove
  <2> QED
    BY <1>7, <1>8, <2>2, <2>3
<1>11. CASE FailureHandler(b)
  <2>1. b \in owed /\ pod[b] # p /\ ~DeferredMove(b)
    BY <1>1, <1>11 DEF Mover, FailureHandler, LookUpPod, Drop, Requeue, DeferredMove
  <2>2. pod'[b] \in {pod[b], NoPod}
    BY <1>0, <1>2, <1>11 DEF FailureHandler, LookUpPod, Drop, Requeue, Return, Goto, Leave, ThreadTypeOK
  <2> QED
    BY <1>7, <1>8, <2>1, <2>2
<1> QED
  BY <1>0, <1>2, <1>4, <1>5, <1>6, <1>8, <1>9, <1>10, <1>11, OwnSteps

\* Only an event that moves the pods makes up for the room that became free in silence.
LEMMA SilentStays == ASSUME [Next]_vars PROVE silent \subseteq silent' \/ MoveAll(NoPod)
<1>1. CASE UNCHANGED schedulingQueue
  BY <1>1 DEF schedulingQueue
<1>2. CASE StartBinding
  BY <1>2 DEF StartBinding
<1>3. ASSUME NEW t \in Binders, FinishBinding(t) \/ MovePods(t) \/ DeferredMove(t)
      PROVE  silent \subseteq silent' \/ MoveAll(NoPod)
  BY <1>3 DEF FinishBinding, MovePods, DeferredMove, MoveAll, Done
<1>4. ASSUME NEW t \in Threads, Drop(t) \/ Requeue(t) PROVE silent \subseteq silent'
  BY <1>4 DEF Drop, Requeue, AddUnschedulableIfNotPresent, Done
<1>5. ASSUME NEW q \in Pods,
             NextPod(q) \/ BackoffCompleted(q) \/ FlushUnschedulable(q) \/ PodUpdated(q) \/ Observe(q)
      PROVE  silent \subseteq silent' \/ MoveAll(NoPod)
  BY <1>5 DEF NextPod, BackoffCompleted, FlushUnschedulable, PodUpdated, Observe
<1> QED
  BY <1>1, <1>2, <1>3, <1>4, <1>5, QueueFrame

\* Room becomes free when a pod is forgotten, when the deletion of a bound pod is
\* handled, an event that moves the pods, or in silence.
LEMMA RoomFreed ==
  ASSUME CarrierInv, [Next]_vars, NEW n \in Nodes, n \in Open', n \notin Open
  PROVE  (\E t \in Threads : Forgets(t) /\ host[t] = n) \/ MoveAll(NoPod)
<1> USE NamesAssumption, BoundsAssumption
<1> SUFFICES ASSUME ~\E t \in Threads : Forgets(t) /\ host[t] = n, ~MoveAll(NoPod) PROVE FALSE
  OBVIOUS
<1>0. TypeOK /\ CacheTypeOK /\ seen \in [Pods -> Nat]
  BY DEF CarrierInv, Inv, TypeOK, ApiTypeOK
<1>1. n \notin silent' /\ Cardinality(OnNode(n)') < Capacity[n]
  BY DEF Open, Feasible, OnNode
<1>2. ~(Cardinality(OnNode(n)) < Capacity[n]) /\ Capacity[n] \in Nat
  BY <1>1, SilentStays DEF Open, Feasible
<1>3. OnNode(n) \subseteq OnNode(n)'
  <2>1. CASE UNCHANGED schedulerCache
    BY <2>1 DEF schedulerCache, OnNode
  <2>2. ASSUME NEW p \in Pods, NEW m \in Nodes, Assumes(p, m) PROVE OnNode(n) \subseteq OnNode(n)'
    BY <1>0, <2>2 DEF Assumes, OnNode, CacheTypeOK
  <2>3. ASSUME NEW t \in Threads, Forgets(t) PROVE OnNode(n) \subseteq OnNode(n)'
    BY <1>0, <2>3 DEF Forgets, CanForget, OnNode, CacheTypeOK
  <2>4. ASSUME NEW p \in Pods, Confirms(p) PROVE OnNode(n) \subseteq OnNode(n)'
    <3> DEFINE new == versions[p][seen[p] + 1]
    <3>1. new \in Nodes
      <4> SUFFICES ASSUME new \notin Nodes PROVE FALSE
        OBVIOUS
      <4>1. Observe(p) /\ new = "gone" /\ SeenBound(p)
        BY <2>4 DEF Confirms
      <4>2. Seen(p) \in Nodes
        BY <1>0, <4>1 DEF SeenBound, Seen
      <4> QED
        BY <4>1, <4>2 DEF Observe, Phases
    <3>2. silent' = IF cache[p] \in Nodes \ {new} THEN silent \cup {cache[p]} ELSE silent
      BY <2>4, <3>1 DEF Confirms, Observe, Phases
    <3>3. cache[p] = n => new = n
      BY <1>1, <3>2
    <3>4. cache' = [cache EXCEPT ![p] = new]
      BY <2>4, <3>1 DEF Confirms, Phases
    <3> HIDE DEF new
    <3> QED
      BY <1>0, <3>3, <3>4 DEF OnNode, CacheTypeOK
  <2> QED
    BY <1>0, <2>1, <2>2, <2>3, <2>4, CacheSteps
<1>4. Cardinality(OnNode(n)) \in Nat
  BY OnNodeFinite
<1>5. OnNode(n)' \subseteq Pods /\ IsFiniteSet(OnNode(n)')
  BY FS_Subset DEF OnNode
<1>6. Cardinality(OnNode(n)') \in Nat /\ Cardinality(OnNode(n)) <= Cardinality(OnNode(n)')
  BY <1>3, <1>5, FS_CardinalityType, FS_Subset
<1> QED
  BY <1>1, <1>2, <1>4, <1>6

\* The loop forgets a pod when Reserve or Permit fails.
LEMMA LoopForgets == TypeOK /\ [Next]_vars /\ Forgets(Loop) => pc[Loop] = "reserve"
<1> SUFFICES ASSUME TypeOK, [Next]_vars, Forgets(Loop) PROVE pc[Loop] = "reserve"
  OBVIOUS
<1>1. ~Stays(Loop) /\ pc[Loop] \in {"reserve", "cleanup"}
  BY DEF Forgets, Stays, Carrying, Holding
<1>2. ~FailureHandler(Loop)
  BY <1>1 DEF FailureHandler, LookUpPod, Drop, Requeue
<1>3. Loop \in Threads /\ Loop \notin Binders
  BY NamesAssumption DEF Threads
<1>4. ScheduleOne
  BY <1>1, <1>2, <1>3, OwnSteps
<1> QED
  BY <1>1, <1>4 DEF ScheduleOne, NextPod, SkipPod, SchedulePod, SendScheduleSuccess, Assume, StartBinding, ReserveOrPermitFails

\* The goroutine that forgets a pod will move the others.
LEMMA ForgetterMoves ==
  ASSUME CarrierInv, [Next]_vars, NEW p \in Pods, p \notin assumed,
         NEW t \in Threads, Forgets(t), t # Loop
  PROVE  Moved(p)'
<1> USE NamesAssumption
<1>0. ThreadTypeOK /\ TypeOK /\ t \in Binders
  BY DEF CarrierInv, Inv, TypeOK, Threads
<1>1. pod[t] # p /\ ~Stays(t) /\ pc[t] \in {"reserve", "cleanup"} /\ pc'[t] \notin Carrying
  BY DEF Forgets, CanForget, Stays, Carrying, Holding
<1>2. Cleanup(t)
  BY <1>0, <1>1, OwnSteps DEF BindingCycle, WaitOnPermit, Bind, SendBindingSuccess, FinishBinding, MovePods, DeferredMove, TakesOver, FailureHandler, LookUpPod, Drop, Requeue
<1>3. pod'[t] = pod[t] /\ (pc'[t] = "move" \/ t \in owed')
  BY <1>0, <1>2 DEF Cleanup, Forgets, Goto, ThreadTypeOK
<1> QED
  BY <1>0, <1>1, <1>3 DEF Moved, Mover

-----------------------------------------------------------------------------
(* Pods in flight.                                                         *)

\* Done is called for a pending pod by the thread that queues it or has bound it.
LEMMA DoneStep ==
  ASSUME Inv, [Next]_vars, NEW p \in Pods, Seen(p) = "pending", pc[Loop] # "idle",
         queue[p] = "none", queue'[p] = "none"
  PROVE  \/ /\ p \in inFlight => p \in inFlight'
            /\ p \in missed => p \in missed'
         \/ \E t \in Binders : FinishBinding(t) /\ pod[t] = p /\ pc[t] = "finish"
<1> USE NamesAssumption
<1> DEFINE Kept == (p \in inFlight => p \in inFlight') /\ (p \in missed => p \in missed')
<1>0. TypeOK /\ ThreadTypeOK /\ QueueTypeOK /\ ~Settled(p)
  BY PendingSeen DEF Inv, TypeOK
<1>1. CASE UNCHANGED schedulingQueue
  BY <1>1 DEF schedulingQueue
<1>2. CASE StartBinding
  BY <1>2 DEF StartBinding
<1>3. ASSUME NEW t \in Binders, FinishBinding(t), pod[t] # p PROVE Kept
  BY <1>3 DEF FinishBinding, Done
<1>4. ASSUME NEW t \in Binders, MovePods(t) \/ DeferredMove(t) PROVE Kept
  BY <1>4 DEF MovePods, DeferredMove, MoveAll
<1>5. ASSUME NEW t \in Threads, Drop(t) PROVE Kept
  <2>1. pod[t] # p
    BY <1>0, <1>5 DEF Drop, Inv, OnlySettledDropped
  <2> QED
    BY <1>5, <2>1 DEF Drop, Done
<1>6. ASSUME NEW t \in Threads, Requeue(t) PROVE Kept
  <2>1. pod[t] # p
    BY <1>0, <1>6 DEF Requeue, AddUnschedulableIfNotPresent, QueueTypeOK
  <2> QED
    BY <1>6, <2>1 DEF Requeue, AddUnschedulableIfNotPresent, Done
<1>7. ASSUME NEW q \in Pods
      PROVE  /\ ~NextPod(q)
             /\ BackoffCompleted(q) \/ FlushUnschedulable(q) \/ PodUpdated(q) \/ Observe(q) => Kept
  BY DEF NextPod, BackoffCompleted, FlushUnschedulable, PodUpdated, Observe, MoveAll
<1>8. \A t \in Binders : FinishBinding(t) => pc[t] = "finish"
  BY DEF FinishBinding
<1> QED
  BY <1>1, <1>2, <1>3, <1>4, <1>5, <1>6, <1>7, <1>8, QueueFrame

\* A pod that nobody has queued stays out of the queue while it is pending.
LEMMA StillUnqueued ==
  ASSUME TypeOK, [Next]_vars, NEW p \in Pods, pc[Loop] # "idle",
         queue'[p] = "none", Seen(p)' = "pending"
  PROVE  queue[p] = "none" /\ Seen(p) = "pending" /\ ~Observe(p)
<1>1. Seen(p) = "pending" /\ ~Observe(p)
  BY StillPending
<1>2. ~NextPod(p)
  BY DEF NextPod
<1> QED
  BY <1>1, <1>2, QueueLeave

-----------------------------------------------------------------------------
(* The steps keep the invariant.                                           *)

\* What the loop has popped is not in the unschedulable pool until it is assumed.
LEMMA NotWaitingStep == WakeInv /\ [Next]_vars => LoopPodNotWaiting'
<1> SUFFICES ASSUME WakeInv, [Next]_vars, pc'[Loop] \in {"popped", "selected", "assume"}
             PROVE  queue'[pod'[Loop]] # "unfit"
  BY DEF LoopPodNotWaiting
<1> USE NamesAssumption
<1>0. /\ TypeOK /\ ThreadTypeOK /\ QueueTypeOK /\ Loop \in Threads
      /\ FailedForReason /\ UnfitOnLoop /\ LoopPodNotWaiting
  BY DEF WakeInv, CarrierInv, Inv, TypeOK, Threads
<1>1. CASE pc[Loop] \in {"popped", "selected", "assume"} /\ pod'[Loop] = pod[Loop]
  <2>1. queue[pod[Loop]] # "unfit" /\ pod[Loop] \in Pods
    BY <1>0, <1>1 DEF LoopPodNotWaiting, ThreadTypeOK
  <2> QED
    BY <1>0, <1>1, <2>1, ParkStep
<1>2. ASSUME NEW p \in Pods, NextPod(p) PROVE queue'[pod'[Loop]] # "unfit"
  BY <1>0, <1>2 DEF NextPod, ThreadTypeOK, QueueTypeOK
<1>3. CASE Stays(Loop)
  BY <1>1, <1>3 DEF Stays
<1>4. CASE FailureHandler(Loop)
  BY <1>0, <1>4 DEF FailureHandler, LookUpPod, Drop, Requeue, Return, Goto, Leave, ThreadTypeOK
<1>5. CASE SchedulePod \/ SendScheduleSuccess
  BY <1>1, <1>5 DEF SchedulePod, SendScheduleSuccess, Goto
<1>6. CASE SkipPod \/ Assume \/ StartBinding \/ ReserveOrPermitFails
  BY <1>0, <1>6 DEF SkipPod, Assume, StartBinding, ReserveOrPermitFails, Goto, Leave, ThreadTypeOK
<1> QED
  BY <1>0, <1>2, <1>3, <1>4, <1>5, <1>6, OwnSteps DEF ScheduleOne

\* A pod that waits is not assumed.
LEMMA UnassumedStep == WakeInv /\ [Next]_vars => WaitersUnassumed'
<1> SUFFICES ASSUME WakeInv, [Next]_vars, NEW p \in Pods,
                    queue'[p] = "unfit", Seen(p)' = "pending"
             PROVE  p \notin assumed'
  BY DEF WaitersUnassumed, WaitsForRoom
<1> USE NamesAssumption
<1>0. /\ TypeOK /\ ThreadTypeOK /\ FailedForReason /\ UnfitOnLoop /\ LoopPodNotWaiting
      /\ WaitersUnassumed /\ UnfitAware
  BY DEF WakeInv, CarrierInv, Inv, TypeOK
<1>1. Seen(p) = "pending"
  BY <1>0, StillPending
<1>2. CASE queue[p] = "unfit"
  <2>1. p \notin assumed
    BY <1>0, <1>1, <1>2 DEF WaitersUnassumed, WaitsForRoom
  <2>2. ~(pc[Loop] = "assume" /\ pod[Loop] = p)
    BY <1>0, <1>2 DEF LoopPodNotWaiting
  <2> QED
    BY <1>0, <2>1, <2>2, CacheSteps DEF schedulerCache, Assumes, Assume, Forgets, Confirms
<1>3. CASE queue[p] # "unfit"
  <2>1. Requeue(Loop) /\ FoundUnfit(p)
    BY <1>0, <1>1, <1>3, ParkStep DEF FoundUnfit
  <2> QED
    BY <1>0, <2>1 DEF UnfitAware, Requeue, schedulerCache
<1> QED
  BY <1>2, <1>3

\* A pod that waits is moved when there is room.
LEMMA WaitersStep == WakeInv /\ [Next]_vars => WaitersMoved'
<1> SUFFICES ASSUME WakeInv, [Next]_vars, NEW p \in Pods,
                    queue'[p] = "unfit", Seen(p)' = "pending", Open' # {} \/ RoomForLoop'
             PROVE  Moved(p)'
  BY DEF WaitersMoved, WaitsForRoom
<1> USE NamesAssumption
<1>0. /\ CarrierInv /\ TypeOK /\ ThreadTypeOK /\ FailedForReason /\ UnfitOnLoop
      /\ WaitersUnassumed /\ WaitersMoved /\ UnfitAware /\ Loop \in Threads
  BY DEF WakeInv, CarrierInv, Inv, TypeOK, Threads
<1>1. Seen(p) = "pending"
  BY <1>0, StillPending
<1>2. CASE queue[p] = "unfit"
  <2>1. p \notin assumed
    BY <1>0, <1>1, <1>2 DEF WaitersUnassumed, WaitsForRoom
  <2>2. CASE Moved(p)
    BY <1>0, <1>1, <2>1, <2>2, MoverStep
  <2>3. CASE Open = {} /\ ~RoomForLoop
    <3>1. ~MoveAll(NoPod)
      BY DEF MoveAll
    <3>2. silent \subseteq silent'
      BY <3>1, SilentStays
    <3>3. ~RoomForLoop'
      <4> SUFFICES ASSUME RoomForLoop' PROVE FALSE
        OBVIOUS
      <4>1. pc'[Loop] \in {"selected", "assume", "reserve"} /\ host'[Loop] \notin silent
        BY <3>2 DEF RoomForLoop
      <4>2. CASE Stays(Loop)
        BY <2>3, <4>1, <4>2 DEF Stays, RoomForLoop
      <4>3. CASE FailureHandler(Loop)
        BY <1>0, <4>1, <4>3 DEF FailureHandler, LookUpPod, Drop, Requeue, Return, Goto, Leave, ThreadTypeOK
      <4>4. CASE SchedulePod
        <5>1. host'[Loop] \in Feasible
          BY <1>0, <4>1, <4>4 DEF SchedulePod, Goto, ThreadTypeOK
        <5> QED
          BY <2>3, <4>1, <5>1 DEF Open
      <4>5. CASE SendScheduleSuccess \/ Assume
        BY <2>3, <4>1, <4>5 DEF SendScheduleSuccess, Assume, Goto, RoomForLoop
      <4>6. CASE ScheduleOne /\ ~SchedulePod /\ ~SendScheduleSuccess /\ ~Assume
        BY <1>0, <4>1, <4>6 DEF ScheduleOne, NextPod, SkipPod, StartBinding, ReserveOrPermitFails, Goto, Leave, ThreadTypeOK
      <4> QED
        BY <1>0, <4>2, <4>3, <4>4, <4>5, <4>6, OwnSteps
    <3>4. PICK n \in Nodes : n \in Open'
      BY <3>3 DEF Open, Feasible
    <3>5. PICK t \in Threads : Forgets(t) /\ host[t] = n
      BY <1>0, <2>3, <3>1, <3>4, RoomFreed
    <3>6. t # Loop
      <4> SUFFICES ASSUME t = Loop PROVE FALSE
        OBVIOUS
      <4>1. pc[Loop] = "reserve"
        BY <1>0, <3>5, LoopForgets
      <4>2. n \notin silent
        BY <3>2, <3>4 DEF Open
      <4> QED
        BY <2>3, <3>5, <4>1, <4>2 DEF RoomForLoop
    <3> QED
      BY <1>0, <2>1, <3>5, <3>6, ForgetterMoves
  <2> QED
    BY <1>0, <1>1, <1>2, <2>2, <2>3 DEF WaitersMoved, WaitsForRoom
<1>3. CASE queue[p] # "unfit"
  <2>1. /\ Requeue(Loop) /\ FoundUnfit(p) /\ p \notin missed
    BY <1>0, <1>1, <1>3, ParkStep DEF FoundUnfit
  <2>2. Loop \notin owed /\ Leave(Loop)
    BY <1>0, <2>1 DEF Requeue, Return, ThreadTypeOK
  <2>3. pc'[Loop] = "idle" /\ cache' = cache /\ owed' = owed /\ silent' = silent
    BY <1>0, <2>1, <2>2 DEF Requeue, AddUnschedulableIfNotPresent, Done, Leave, ThreadTypeOK, schedulerCache
  <2>4. Open' = Open /\ ~RoomForLoop'
    BY <2>3 DEF Open, Feasible, OnNode, RoomForLoop
  <2>5. Moved(p)
    BY <1>0, <2>1, <2>4 DEF UnfitAware
  <2>6. \A b \in Binders : pc'[b] = pc[b] /\ pod'[b] = pod[b]
    BY <1>0, <2>2, MoveLeavesOthers DEF Stays, Threads
  <2> QED
    BY <2>3, <2>5, <2>6 DEF Moved, Mover
<1> QED
  BY <1>2, <1>3

\* What the loop has popped stays in flight until the loop is done with it.
LEMMA InFlightStep == WakeInv /\ [Next]_vars => PoppedInFlight'
<1> SUFFICES ASSUME WakeInv, [Next]_vars, NEW p \in Pods,
                    pc'[Loop] = "popped", pod'[Loop] = p,
                    queue'[p] = "none", Seen(p)' = "pending"
             PROVE  \/ p \in inFlight'
                    \/ p \in assumed' /\ \A t \in Threads : ~Carries(t, p)'
  BY DEF PoppedInFlight
<1> USE NamesAssumption
<1>0. /\ Inv /\ TypeOK /\ ThreadTypeOK /\ Loop \in Threads
      /\ CarriersCounted /\ OneCarrier /\ PoppedInFlight
  BY DEF WakeInv, CarrierInv, Inv, TypeOK, Threads
<1>1. CASE \E q \in Pods : NextPod(q)
  BY <1>0, <1>1 DEF NextPod, ThreadTypeOK
<1>2. CASE Stays(Loop)
  <2>1. pc[Loop] = "popped" /\ pod[Loop] = p
    BY <1>2 DEF Stays
  <2>2. queue[p] = "none" /\ Seen(p) = "pending" /\ ~Observe(p)
    BY <1>0, <2>1, StillUnqueued
  <2>3. ~SeenBound(p) /\ ~SeenGone(p)
    BY <1>0, <2>2, PendingSeen
  <2>4. CASE p \in assumed /\ \A t \in Threads : ~Carries(t, p)
    <3>1. p \in assumed'
      <4>1. \A t \in Threads : Forgets(t) => pod[t] # p
        BY <2>4 DEF Forgets, Carries, Carrying, Holding
      <4> QED
        BY <1>0, <2>2, <2>4, <4>1, CacheSteps DEF schedulerCache, Assumes, Forgets, Confirms
    <3>2. ASSUME NEW t \in Threads, pc'[t] \in Carrying, pod'[t] = p PROVE FALSE
      <4>1. ~TakesOver(t) /\ ~Assume
        BY <2>1 DEF TakesOver, Assume
      <4> QED
        BY <1>0, <2>4, <3>2, <4>1, CarrierStep DEF Carries
    <3> QED
      BY <3>1, <3>2 DEF Carries
  <2>5. CASE p \in inFlight
    <3>1. CASE p \in inFlight'
      BY <3>1
    <3>2. CASE \E t \in Binders : FinishBinding(t) /\ pod[t] = p /\ pc[t] = "finish"
      <4>1. PICK t \in Binders : FinishBinding(t) /\ pod[t] = p /\ pc[t] = "finish"
        BY <3>2
      <4>2. t \in Threads /\ Carries(t, p)
        BY <4>1 DEF Threads, Carries, Carrying
      <4>3. p \in assumed'
        BY <1>0, <2>3, <4>1, <4>2 DEF CarriersCounted, Carries, FinishBinding, schedulerCache
      <4>4. pc'[t] = "idle" /\ \A u \in Threads \ {t} : Stays(u)
        BY <1>0, <4>1, <4>2, MoveLeavesOthers DEF FinishBinding, Leave, ThreadTypeOK
      <4>5. \A u \in Threads \ {t} : ~Carries(u, p)
        BY <1>0, <2>3, <4>2 DEF OneCarrier
      <4> QED
        BY <4>3, <4>4, <4>5 DEF Carries, Stays, Carrying, Holding
    <3> QED
      BY <1>0, <2>1, <2>2, <2>5, <3>1, <3>2, DoneStep
  <2> QED
    BY <1>0, <2>1, <2>2, <2>4, <2>5 DEF PoppedInFlight
<1>3. CASE FailureHandler(Loop)
  BY <1>0, <1>3 DEF FailureHandler, LookUpPod, Drop, Requeue, Return, Goto, Leave, ThreadTypeOK
<1>4. CASE ScheduleOne /\ ~\E q \in Pods : NextPod(q)
  BY <1>0, <1>4 DEF ScheduleOne, SkipPod, SchedulePod, SendScheduleSuccess, Assume, StartBinding, ReserveOrPermitFails, Goto, Leave, ThreadTypeOK
<1> QED
  BY <1>0, <1>1, <1>2, <1>3, <1>4, OwnSteps

\* The loop parks no pod that could use room it does not know of.
LEMMA AwareStep == WakeInv /\ [Next]_vars => UnfitAware'
<1> SUFFICES ASSUME WakeInv, [Next]_vars, NEW p \in Pods, FoundUnfit(p)'
             PROVE  /\ p \notin assumed' /\ p \in inFlight'
                    /\ p \in missed' \/ Open' = {} \/ Moved(p)'
  BY DEF UnfitAware
<1> USE NamesAssumption
<1>0. /\ CarrierInv /\ Inv /\ TypeOK /\ ThreadTypeOK /\ Loop \in Threads
      /\ CarriersCounted /\ PoppedInFlight /\ UnfitAware
  BY DEF WakeInv, CarrierInv, Inv, TypeOK, Threads
<1>1. /\ pc'[Loop] \in {"failed", "requeue"} /\ status'[Loop] = "unfit" /\ pod'[Loop] = p
      /\ queue'[p] = "none" /\ Seen(p)' = "pending"
  BY DEF FoundUnfit
<1>2. CASE /\ pc[Loop] \in {"failed", "requeue"} /\ status[Loop] = "unfit" /\ pod[Loop] = p
  <2>1. queue[p] = "none" /\ Seen(p) = "pending" /\ ~Observe(p)
    BY <1>0, <1>1, <1>2, StillUnqueued
  <2>2. /\ p \notin assumed /\ p \in inFlight
        /\ p \in missed \/ Open = {} \/ Moved(p)
    BY <1>0, <1>2, <2>1 DEF FoundUnfit, UnfitAware
  <2>3. p \notin assumed'
    <3>1. ~Assume
      BY <1>2 DEF Assume
    <3> QED
      BY <1>0, <2>2, <3>1, CacheSteps DEF schedulerCache, Forgets, Confirms
  <2>4. p \in inFlight' /\ (p \in missed => p \in missed')
    <3>1. ASSUME NEW t \in Binders, pc[t] = "finish" PROVE pod[t] # p
      <4>1. t \in Threads /\ pc[t] \in Carrying
        BY <3>1 DEF Threads, Carrying
      <4> QED
        BY <1>0, <2>1, <2>2, <4>1, PendingSeen DEF CarriersCounted
    <3> QED
      BY <1>0, <1>1, <1>2, <2>1, <2>2, <3>1, DoneStep
  <2>5. CASE Moved(p)
    BY <1>0, <2>1, <2>2, <2>3, <2>4, <2>5, MoverStep
  <2>6. ASSUME Open = {}, Open' # {} PROVE p \in missed' \/ Moved(p)'
    <3>1. CASE MoveAll(NoPod)
      BY <2>2, <3>1 DEF MoveAll
    <3>2. ASSUME NEW t \in Threads, Forgets(t) PROVE Moved(p)'
      BY <1>0, <1>2, <2>2, <3>2, LoopForgets, ForgetterMoves
    <3>3. PICK n \in Nodes : n \in Open'
      BY <2>6 DEF Open, Feasible
    <3> QED
      BY <1>0, <2>6, <3>1, <3>2, <3>3, RoomFreed
  <2> QED
    BY <2>2, <2>3, <2>4, <2>5, <2>6
<1>3. CASE SchedulePod
  <2>1. Feasible = {} /\ Goto(Loop, "failed", "unfit") /\ pc[Loop] = "popped"
    BY <1>0, <1>1, <1>3 DEF SchedulePod, Goto, ThreadTypeOK
  <2>2. pod[Loop] = p /\ p \notin assumed
    BY <1>1, <1>3, <2>1 DEF SchedulePod, Goto
  <2>3. queue[p] = "none" /\ Seen(p) = "pending"
    BY <1>0, <1>1, <2>1, StillUnqueued
  <2>4. p \in inFlight
    BY <1>0, <2>1, <2>2, <2>3 DEF PoppedInFlight
  <2>5. UNCHANGED <<assumed, inFlight, cache, silent>>
    BY <1>3 DEF SchedulePod, schedulingQueue, schedulerCache
  <2>6. Open = {} /\ Open' = Open
    BY <2>1, <2>5 DEF Open, Feasible, OnNode
  <2> QED
    BY <2>1, <2>2, <2>4, <2>5, <2>6
<1>4. CASE Stays(Loop) \/ FailureHandler(Loop)
  BY <1>0, <1>1, <1>2, <1>4 DEF Stays, FailureHandler, LookUpPod, Drop, Requeue, Return, Goto, Leave, ThreadTypeOK
<1>5. CASE ScheduleOne /\ ~SchedulePod
  BY <1>0, <1>1, <1>5 DEF ScheduleOne, NextPod, SkipPod, SendScheduleSuccess, Assume, StartBinding, ReserveOrPermitFails, Goto, Leave, ThreadTypeOK
<1> QED
  BY <1>0, <1>3, <1>4, <1>5, OwnSteps

\* The invariant about waiting pods holds of every reachable state.
LEMMA WakeInvariance == Spec => []WakeInv
<1>1. Init => FailedForReason /\ UnfitOnLoop /\ WaitersUnassumed /\ LoopPodNotWaiting
              /\ WaitersMoved /\ PoppedInFlight /\ UnfitAware
  BY DEF Init, FailedForReason, UnfitOnLoop, WaitersUnassumed, LoopPodNotWaiting, WaitersMoved, PoppedInFlight, UnfitAware, WaitsForRoom, FoundUnfit, Threads
<1>2. WakeInv /\ [Next]_vars /\ CarrierInv' => WakeInv'
  <2> SUFFICES ASSUME WakeInv, [Next]_vars, CarrierInv' PROVE WakeInv'
    OBVIOUS
  <2>1. FailedForReason' /\ UnfitOnLoop'
    BY ReasonStep DEF WakeInv, CarrierInv, Inv
  <2> QED
    BY <2>1, UnassumedStep, NotWaitingStep, WaitersStep, InFlightStep, AwareStep DEF WakeInv
<1>3. Spec => []CarrierInv
  BY CarrierInvariance
<1>4. CarrierInv /\ FailedForReason /\ UnfitOnLoop /\ WaitersUnassumed /\ LoopPodNotWaiting
      /\ WaitersMoved /\ PoppedInFlight /\ UnfitAware => WakeInv
  BY DEF WakeInv
<1> QED
  BY <1>1, <1>2, <1>3, <1>4, PTL DEF Spec

\* No wakeup is lost: while a pod waits for room there is none, or a goroutine that
\* freed some is about to move the pod, save the room that became free in silence,
\* when a pod turned out to be bound to another node than the one it was assumed on.
THEOREM WakeupsArrive == Spec => []NoLostWakeup
<1>1. WakeInv => NoLostWakeup
  BY DEF WakeInv, WaitersMoved, NoLostWakeup, Open, Moved, Mover
<1> QED
  BY <1>1, WakeInvariance, PTL

=============================================================================
