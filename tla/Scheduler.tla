----------------------------- MODULE Scheduler -----------------------------
(***************************************************************************)
(* The scheduling loop and the asynchronous binding cycles of              *)
(* scheduler/schedule_one.go, with the calls the sniffer adds to them.     *)
(*                                                                         *)
(* One thread, Loop, runs ScheduleOne again and again; every successful    *)
(* scheduling cycle starts a goroutine, one of Binders, that runs          *)
(* bindingCycle.  All of them share the scheduling queue, the cache of     *)
(* node contents, the API server and the sniffer's log.  The queue, the    *)
(* cache, the informers with their event handlers and the API server are   *)
(* outside the repository and are modelled from how its code uses them.    *)
(*                                                                         *)
(* One action is one stretch of code between two accesses to shared state  *)
(* that another thread can come between.                                   *)
(*                                                                         *)
(* A definition marked (Slip: ...) is no part of the model: it is the one  *)
(* after it with a plausible mistake, to see that a property notices.      *)
(***************************************************************************)
EXTENDS Naturals, Sequences, FiniteSets

CONSTANTS
    Pods,        \* the pods whose spec.schedulerName names one of our profiles
    Nodes,       \* the nodes registered in the cluster
    Binders,     \* the goroutines that may run bindingCycle at the same time
    Loop,        \* the thread of ScheduleOne
    NoPod, NoNode,
    Capacity,    \* how many pods fit on a node
    Running,     \* the pods that have a node when the scheduler starts, and the node
    MaxFaults,   \* bound: transient failures of plugins, API server and sniffer
    BindMayTimeOut, \* may a bind take effect and still report an error?
    MayLose      \* may a Send fail to reach the sniffer service?

Phases == {"pending", "terminating", "gone"}   \* of a pod without a node
Threads == Binders \cup {Loop}

ASSUME NamesAssumption ==
    /\ Loop \notin Binders
    /\ NoPod \notin Pods
    /\ NoNode \notin Nodes
    /\ Nodes \cap Phases = {}
    /\ IsFiniteSet(Pods)
ASSUME BoundsAssumption ==
    /\ Capacity \in [Nodes -> Nat]
    /\ DOMAIN Running \subseteq Pods
    /\ Running \in [DOMAIN Running -> Nodes]
    /\ \A n \in Nodes :
         Cardinality({p \in DOMAIN Running : Running[p] = n}) <= Capacity[n]
    /\ MaxFaults \in Nat
    /\ BindMayTimeOut \in BOOLEAN
    /\ MayLose \in BOOLEAN

VARIABLES
    versions,  \* API server: the versions of each pod, oldest first
    seen,      \* informers: how many of them have been handled
    misreported, \* history: pods whose bind took effect and reported an error
    queue,     \* SchedulingQueue: where each pod waits
    inFlight,  \* SchedulingQueue: pods popped and not yet Done
    missed,    \* SchedulingQueue: in-flight pods an event was recorded for
    silent,    \* history: nodes that lost a pod by a correction of the cache,
               \* since the queue was last told of an event
    cache,     \* Cache: the node each pod counts against
    assumed,   \* Cache: the pods that are there by AssumePod only
    pc, pod, host, status,  \* locals of the threads
    owed,      \* threads with a deferred MoveAllToActiveOrBackoffQueue
    log,       \* the records in the sniffer's log
    faults     \* transient failures so far

api == <<versions, seen, misreported>>
schedulingQueue == <<queue, inFlight, missed, silent>>
schedulerCache == <<cache, assumed>>
locals == <<pc, pod, host, status>>
vars == <<api, schedulingQueue, schedulerCache, locals, owed, log, faults>>

Unschedulable == {"unfit", "rejected"}  \* the unschedulable pool, by what put a pod there
Places == {"none", "active", "backoff"} \cup Unschedulable
Steps == {"idle", "popped", "selected", "assume", "reserve",      \* Loop
          "permit", "bind", "bound", "finish", "cleanup", "move", \* binders
          "failed", "requeue", "drop", "deferred"}
HasHost == {"selected", "assume", "reserve", "permit", "bind", "bound", "finish", "cleanup"}
Events == {"ScheduleSuccess", "BindingSuccess"}
Records == [event : Events, pod : Pods, node : Nodes]

\* The informers have been synchronised, the cache has the pods that run.
Init ==
    /\ versions = [p \in Pods |-> IF p \in DOMAIN Running THEN <<Running[p]>> ELSE <<"pending">>]
    /\ seen = [p \in Pods |-> IF p \in DOMAIN Running THEN 1 ELSE 0]
    /\ misreported = {}
    /\ queue = [p \in Pods |-> "none"]
    /\ inFlight = {}
    /\ missed = {}
    /\ silent = {}
    /\ cache = [p \in Pods |-> IF p \in DOMAIN Running THEN Running[p] ELSE NoNode]
    /\ assumed = {}
    /\ pc = [t \in Threads |-> "idle"]
    /\ pod = [t \in Threads |-> NoPod]
    /\ host = [t \in Threads |-> NoNode]
    /\ status = [t \in Threads |-> "ok"]
    /\ owed = {}
    /\ log = {}
    /\ faults = 0

-----------------------------------------------------------------------------
(* The pod on the API server and in the informer's store.                  *)

Latest(p) == versions[p][Len(versions[p])]
Seen(p) == IF seen[p] = 0 THEN "gone" ELSE versions[p][seen[p]]

(* The places of the threads.                                              *)

Goto(t, step, st) ==
    /\ pc' = [pc EXCEPT ![t] = step]
    /\ status' = [status EXCEPT ![t] = st]
    /\ UNCHANGED <<pod, host>>

Leave(t) ==
    /\ pc' = [pc EXCEPT ![t] = "idle"]
    /\ pod' = [pod EXCEPT ![t] = NoPod]
    /\ host' = [host EXCEPT ![t] = NoNode]
    /\ status' = [status EXCEPT ![t] = "ok"]

Fault == faults < MaxFaults /\ faults' = faults + 1

-----------------------------------------------------------------------------
(* SchedulingQueue.                                                        *)

\* Done: the pod is not in flight any more, its recorded events are dropped.
Done(p) ==
    /\ inFlight' = inFlight \ {p}
    /\ missed' = missed \ {p}
    /\ UNCHANGED silent

\* Activate: the named pods leave backoff or the unschedulable pool.
Activated(S) ==
    [p \in Pods |-> IF p \in S /\ queue[p] \in Unschedulable \cup {"backoff"}
                      THEN "active" ELSE queue[p]]

\* (Slip: a pod in flight misses the event.)
MoveAllQueued(own) ==
    /\ queue' = [p \in Pods |-> IF p # own /\ queue[p] \in Unschedulable
                                THEN "backoff" ELSE queue[p]]
    /\ silent' = IF own = NoPod THEN {} ELSE silent
    /\ UNCHANGED <<inFlight, missed>>

\* MoveAllToActiveOrBackoffQueue for an event that frees room: every pod that
\* did not fit is moved, a pod rejected for another reason when its plugins'
\* hints say so (chosen), a pod in flight remembers the event.
MoveAll(own) ==
    /\ \E S \in SUBSET {p \in Pods : queue[p] = "rejected"} :
         queue' = [p \in Pods |-> IF p # own /\ (queue[p] = "unfit" \/ p \in S)
                                    THEN "backoff" ELSE queue[p]]
    /\ missed' = missed \cup inFlight
    /\ silent' = IF own = NoPod THEN {} ELSE silent
    /\ UNCHANGED inFlight

\* AddUnschedulableIfNotPresent: calls Done in any case.  A pod that failed on
\* an error is retried after its backoff, a pod that did not fit waits in the
\* unschedulable pool unless it missed an event that may help it.
AddUnschedulableIfNotPresent(p, st) ==
    /\ \E place \in Places \ {"none", "active"} :
         /\ st = "error" => place = "backoff"
         /\ st = "unfit" => place = (IF p \in missed THEN "backoff" ELSE "unfit")
         /\ st = "rejected" => place = "rejected" \/ (p \in missed /\ place = "backoff")
         /\ queue' = IF queue[p] = "none" THEN [queue EXCEPT ![p] = place] ELSE queue
    /\ Done(p)

(* Cache.                                                                  *)

OnNode(n) == {p \in Pods : cache[p] = n}

\* ForgetPod fails unless the pod is still assumed on that node.
CanForget(p, n) == p \in assumed /\ cache[p] = n

Forget(p, n) ==
    IF CanForget(p, n)
      THEN /\ cache' = [cache EXCEPT ![p] = NoNode]
           /\ assumed' = assumed \ {p}
      ELSE UNCHANGED schedulerCache

(* The sniffer.                                                            *)

\* Send reports its error to nobody who looks at it: a record is either in
\* the log when Send returns, or it is lost.
Send(event, p, n) ==
    \/ /\ log' = log \cup {[event |-> event, pod |-> p, node |-> n]}
       /\ UNCHANGED faults
    \/ MayLose /\ Fault /\ UNCHANGED log

-----------------------------------------------------------------------------
(* ScheduleOne, up to the start of the binding cycle.                      *)

\* NextPod: the loop takes a pod from the active queue.  The pod object it
\* gets is the one of the last event, with its deletion timestamp if it has one.
NextPod(p) ==
    /\ pc[Loop] = "idle"
    /\ queue[p] = "active"
    /\ queue' = [queue EXCEPT ![p] = "none"]
    /\ inFlight' = inFlight \cup {p}
    /\ missed' = missed \ {p}
    /\ UNCHANGED silent
    /\ pc' = [pc EXCEPT ![Loop] = "popped"]
    /\ pod' = [pod EXCEPT ![Loop] = p]
    /\ status' = [status EXCEPT ![Loop] =
                    IF Seen(p) = "terminating" THEN "deleting" ELSE "ok"]
    /\ UNCHANGED <<api, schedulerCache, host, owed, log, faults>>

\* skipPodSchedule: a pod being deleted, or already assumed, is dropped; it
\* does not go back to the queue and Done is not called.
SkipPod ==
    /\ pc[Loop] = "popped"
    /\ status[Loop] = "deleting" \/ pod[Loop] \in assumed
    /\ Leave(Loop)
    /\ UNCHANGED <<api, schedulingQueue, schedulerCache, owed, log, faults>>

\* schedulePod: the snapshot of the cache, the nodes with room in it, and one
\* of them; or no node fits; or a plugin or extender returns an error.
\* (Slip: the snapshot leaves out the assumed pods.)
FeasibleConfirmed == {n \in Nodes : Cardinality(OnNode(n) \ assumed) < Capacity[n]}

Feasible == {n \in Nodes : Cardinality(OnNode(n)) < Capacity[n]}

SchedulePod ==
    /\ pc[Loop] = "popped"
    /\ status[Loop] # "deleting"
    /\ pod[Loop] \notin assumed
    /\ \/ \E n \in Feasible :
            /\ pc' = [pc EXCEPT ![Loop] = "selected"]
            /\ host' = [host EXCEPT ![Loop] = n]
            /\ UNCHANGED <<pod, status, faults>>
       \/ /\ Feasible = {}
          /\ Goto(Loop, "failed", "unfit")
          /\ UNCHANGED faults
       \/ /\ Fault
          /\ Goto(Loop, "failed", "error")
    /\ UNCHANGED <<api, schedulingQueue, schedulerCache, owed, log>>

\* The record of the suggested host, before the pod is even assumed.
SendScheduleSuccess ==
    /\ pc[Loop] = "selected"
    /\ Send("ScheduleSuccess", pod[Loop], host[Loop])
    /\ Goto(Loop, "assume", "ok")
    /\ UNCHANGED <<api, schedulingQueue, schedulerCache, owed>>

\* (Slips: the pod is assumed whatever the cache holds; it is not assumed at all.)
AssumeUnchecked ==
    /\ pc[Loop] = "assume"
    /\ cache' = [cache EXCEPT ![pod[Loop]] = host[Loop]]
    /\ assumed' = assumed \cup {pod[Loop]}
    /\ Goto(Loop, "reserve", "ok")
    /\ UNCHANGED <<api, schedulingQueue, owed, log, faults>>

AssumeNothing ==
    /\ pc[Loop] = "assume"
    /\ Goto(Loop, "reserve", "ok")
    /\ UNCHANGED <<api, schedulingQueue, schedulerCache, owed, log, faults>>

\* assume: AssumePod refuses a pod the cache already knows.
Assume ==
    /\ pc[Loop] = "assume"
    /\ IF cache[pod[Loop]] = NoNode
         THEN /\ cache' = [cache EXCEPT ![pod[Loop]] = host[Loop]]
              /\ assumed' = assumed \cup {pod[Loop]}
              /\ Goto(Loop, "reserve", "ok")
         ELSE /\ UNCHANGED schedulerCache
              /\ Goto(Loop, "failed", "error")
    /\ UNCHANGED <<api, schedulingQueue, owed, log, faults>>

\* (Slips: the goroutine reads the loop's host when it is gone; a pod that
\* Reserve rejects stays assumed.)
StartBindingLate == \E b \in Binders :
    /\ pc[Loop] = "reserve"
    /\ pc[b] = "idle"
    /\ pc' = [pc EXCEPT ![Loop] = "idle", ![b] = "permit"]
    /\ pod' = [pod EXCEPT ![Loop] = NoPod, ![b] = pod[Loop]]
    /\ host' = [host EXCEPT ![Loop] = NoNode]
    /\ UNCHANGED <<api, schedulingQueue, schedulerCache, status, owed, log, faults>>

ReserveFailsAssumed ==
    /\ pc[Loop] = "reserve"
    /\ Fault
    /\ Goto(Loop, "failed", "error")
    /\ UNCHANGED <<api, schedulingQueue, schedulerCache, owed, log>>

\* The rest of schedulingCycle: the Reserve and Permit plugins.  When they
\* pass, pods are activated and a goroutine takes over; when one fails, the
\* pod is forgotten at once, and here no pod is moved.
StartBinding == \E b \in Binders, S \in SUBSET Pods :
    /\ pc[Loop] = "reserve"
    /\ pc[b] = "idle"
    /\ queue' = Activated(S)
    /\ pc' = [pc EXCEPT ![Loop] = "idle", ![b] = "permit"]
    /\ pod' = [pod EXCEPT ![Loop] = NoPod, ![b] = pod[Loop]]
    /\ host' = [host EXCEPT ![Loop] = NoNode, ![b] = host[Loop]]
    /\ UNCHANGED <<api, inFlight, missed, silent, schedulerCache, status, owed, log, faults>>

ReserveOrPermitFails == \E st \in {"rejected", "error"} :
    /\ pc[Loop] = "reserve"
    /\ Fault
    /\ Forget(pod[Loop], host[Loop])
    /\ Goto(Loop, "failed", st)
    /\ UNCHANGED <<api, schedulingQueue, owed, log>>

-----------------------------------------------------------------------------
(* bindingCycle.                                                           *)

\* WaitOnPermit and the PreBind plugins.
WaitOnPermit(t) ==
    /\ pc[t] = "permit"
    /\ \/ Goto(t, "bind", "ok") /\ UNCHANGED faults
       \/ Fault /\ \E st \in {"rejected", "error"} : Goto(t, "cleanup", st)
    /\ UNCHANGED <<api, schedulingQueue, schedulerCache, owed, log>>

\* (Slip: the status of the bind is not looked at.)
BindUnchecked(t) ==
    /\ pc[t] = "bind"
    /\ versions' = IF Latest(pod[t]) # "pending" THEN versions
                   ELSE [versions EXCEPT ![pod[t]] = Append(@, host[t])]
    /\ Goto(t, "bound", "ok")
    /\ UNCHANGED <<seen, misreported, schedulingQueue, schedulerCache, owed, log, faults>>

\* bind, by an extender or a plugin.  The API server accepts a binding of a
\* pod that has no node and is not being deleted.
Bind(t) ==
    /\ pc[t] = "bind"
    /\ LET p == pod[t]
           accepted == versions' = [versions EXCEPT ![p] = Append(@, host[t])]
       IN \/ /\ Latest(p) = "pending" /\ accepted
             /\ Goto(t, "bound", "ok")
             /\ UNCHANGED <<misreported, faults>>
          \/ /\ Latest(p) = "pending" /\ accepted
             /\ BindMayTimeOut /\ Fault
             /\ misreported' = misreported \cup {p}
             /\ Goto(t, "cleanup", "error")
          \/ /\ IF Latest(p) = "pending" THEN Fault ELSE UNCHANGED faults
             /\ Goto(t, "cleanup", "error")
             /\ UNCHANGED <<versions, misreported>>
    /\ UNCHANGED <<seen, schedulingQueue, schedulerCache, owed, log>>

SendBindingSuccess(t) ==
    /\ pc[t] = "bound"
    /\ Send("BindingSuccess", pod[t], host[t])
    /\ Goto(t, "finish", "ok")
    /\ UNCHANGED <<api, schedulingQueue, schedulerCache, owed>>

\* The end of a successful binding cycle, and Done.
FinishBinding(t) == \E S \in SUBSET Pods :
    /\ pc[t] = "finish"
    /\ queue' = Activated(S)
    /\ Done(pod[t])
    /\ Leave(t)
    /\ UNCHANGED <<api, schedulerCache, owed, log, faults>>

-----------------------------------------------------------------------------
(* handleBindingCycleError.                                                *)

\* (Slips: the pod stays assumed; a rejected pod's room is announced to nobody.)
CleanupAssumed(t) ==
    /\ pc[t] = "cleanup"
    /\ Goto(t, "move", status[t])
    /\ UNCHANGED <<api, schedulingQueue, schedulerCache, owed, log, faults>>

CleanupInSilence(t) ==
    /\ pc[t] = "cleanup"
    /\ Forget(pod[t], host[t])
    /\ Goto(t, IF status[t] # "rejected" THEN "move" ELSE "failed", status[t])
    /\ UNCHANGED <<api, schedulingQueue, owed, log, faults>>

\* ForgetPod, and whether the pods that could use the room are moved now or
\* after the failure handler.
Cleanup(t) ==
    /\ pc[t] = "cleanup"
    /\ Forget(pod[t], host[t])
    /\ LET forgot == CanForget(pod[t], host[t])
       IN /\ Goto(t, IF forgot /\ status[t] # "rejected" THEN "move" ELSE "failed", status[t])
          /\ owed' = IF forgot /\ status[t] = "rejected" THEN owed \cup {t} ELSE owed
    /\ UNCHANGED <<api, schedulingQueue, log, faults>>

MovePods(t) ==
    /\ pc[t] = "move"
    /\ MoveAll(NoPod)
    /\ Goto(t, "failed", status[t])
    /\ UNCHANGED <<api, schedulerCache, owed, log, faults>>

\* The deferred move, which leaves the pod itself where it is.
DeferredMove(t) ==
    /\ pc[t] = "deferred"
    /\ MoveAll(pod[t])
    /\ owed' = owed \ {t}
    /\ Leave(t)
    /\ UNCHANGED <<api, schedulerCache, log, faults>>

-----------------------------------------------------------------------------
(* handleSchedulingFailure, on the loop or on a binder.                    *)

Return(t) == IF t \in owed THEN Goto(t, "deferred", status[t]) ELSE Leave(t)

\* (Slip: a pod is not tried again.)
LookUpPodOnce(t) ==
    /\ pc[t] = "failed"
    /\ Goto(t, "drop", status[t])
    /\ UNCHANGED <<api, schedulingQueue, schedulerCache, owed, log, faults>>

\* The pod is looked up in the informer's store; one that is not there or has
\* a node is not queued again.
LookUpPod(t) ==
    /\ pc[t] = "failed"
    /\ Goto(t, IF Seen(pod[t]) \in Nodes \cup {"gone"} THEN "drop" ELSE "requeue", status[t])
    /\ UNCHANGED <<api, schedulingQueue, schedulerCache, owed, log, faults>>

\* The deferred Done of a pod that is not queued again.
Drop(t) ==
    /\ pc[t] = "drop"
    /\ Done(pod[t])
    /\ Return(t)
    /\ UNCHANGED <<api, queue, schedulerCache, owed, log, faults>>

Requeue(t) ==
    /\ pc[t] = "requeue"
    /\ AddUnschedulableIfNotPresent(pod[t], status[t])
    /\ Return(t)
    /\ UNCHANGED <<api, schedulerCache, owed, log, faults>>

-----------------------------------------------------------------------------
(* The surroundings: timers of the queue, informers, users.                *)

BackoffCompleted(p) ==
    /\ queue[p] = "backoff"
    /\ queue' = [queue EXCEPT ![p] = "active"]
    /\ UNCHANGED <<api, inFlight, missed, silent, schedulerCache, locals, owed, log, faults>>

\* After podMaxInUnschedulablePodsDuration a pod is tried again anyway.
FlushUnschedulable(p) ==
    /\ queue[p] \in Unschedulable
    /\ queue' = [queue EXCEPT ![p] = "backoff"]
    /\ UNCHANGED <<api, inFlight, missed, silent, schedulerCache, locals, owed, log, faults>>

\* An update that leaves the pod unassigned, such as the condition updatePod
\* patches, puts it back into the active queue unless it is assumed.
PodUpdated(p) ==
    /\ Seen(p) \in {"pending", "terminating"}
    /\ p \notin assumed
    /\ queue[p] = "none"
    /\ queue' = [queue EXCEPT ![p] = "active"]
    /\ UNCHANGED <<api, inFlight, missed, silent, schedulerCache, locals, owed, log, faults>>

\* The informers deliver the next version of a pod to the event handlers.
Observe(p) ==
    /\ seen[p] < Len(versions[p])
    /\ seen' = [seen EXCEPT ![p] = @ + 1]
    /\ LET old == Seen(p)
           new == versions[p][seen[p] + 1]
       IN \/ /\ new = "pending"
             /\ queue' = [queue EXCEPT ![p] = "active"]
             /\ UNCHANGED <<inFlight, missed, silent, schedulerCache>>
          \/ /\ new = "terminating"
             /\ queue' = [queue EXCEPT ![p] =
                            IF @ \in Unschedulable \/ (@ = "none" /\ p \notin assumed)
                              THEN "active" ELSE @]
             /\ UNCHANGED <<inFlight, missed, silent, schedulerCache>>
          \/ /\ new \in Nodes
             /\ queue' = [queue EXCEPT ![p] = "none"]
             /\ cache' = [cache EXCEPT ![p] = new]
             /\ assumed' = assumed \ {p}
             /\ silent' = IF cache[p] \in Nodes \ {new} THEN silent \cup {cache[p]} ELSE silent
             /\ UNCHANGED <<inFlight, missed>>
          \/ /\ new = "gone" /\ old \notin Nodes
             /\ queue' = [queue EXCEPT ![p] = "none"]
             /\ UNCHANGED <<inFlight, missed, silent, schedulerCache>>
          \/ /\ new = "gone" /\ old \in Nodes
             /\ cache' = [cache EXCEPT ![p] = NoNode]
             /\ assumed' = assumed \ {p}
             /\ MoveAll(NoPod)
    /\ UNCHANGED <<versions, misreported, locals, owed, log, faults>>

\* A pod is deleted: at once, or after a grace period during which an
\* unassigned pod carries its deletion timestamp.
Delete(p) ==
    /\ Latest(p) # "gone"
    /\ \E v \in {"terminating", "gone"} :
         /\ v = "terminating" => Latest(p) = "pending"
         /\ versions' = [versions EXCEPT ![p] = Append(@, v)]
    /\ UNCHANGED <<seen, misreported, schedulingQueue, schedulerCache, locals, owed, log, faults>>

-----------------------------------------------------------------------------

ScheduleOne ==
    \/ \E p \in Pods : NextPod(p)
    \/ SkipPod \/ SchedulePod \/ SendScheduleSuccess
    \/ Assume \/ StartBinding \/ ReserveOrPermitFails

BindingCycle(t) ==
    \/ WaitOnPermit(t) \/ Bind(t) \/ SendBindingSuccess(t) \/ FinishBinding(t)
    \/ Cleanup(t) \/ MovePods(t) \/ DeferredMove(t)

FailureHandler(t) == LookUpPod(t) \/ Drop(t) \/ Requeue(t)

Surroundings(p) ==
    \/ BackoffCompleted(p) \/ FlushUnschedulable(p)
    \/ PodUpdated(p) \/ Observe(p) \/ Delete(p)

Next ==
    \/ ScheduleOne
    \/ \E t \in Binders : BindingCycle(t)
    \/ \E t \in Threads : FailureHandler(t)
    \/ \E p \in Pods : Surroundings(p)

Spec == Init /\ [][Next]_vars

\* A pending pod that waits in the unschedulable pool until there is room.
WaitsForRoom(p) == queue[p] = "unfit" /\ Seen(p) = "pending"

\* The threads run, the sniffer answers, the queue's timers fire and the
\* informers keep up; nobody has to delete or update a pod.  The active queue
\* is ordered by the time a pod entered it, so among pods of one priority none
\* is overtaken forever: strong fairness for taking a given pod.  The timer of the
\* unschedulable pool does not count for a pod that waits for room: an event has
\* to bring it back.
Fairness ==
    /\ WF_vars(ScheduleOne \/ FailureHandler(Loop))
    /\ \A t \in Binders : WF_vars(BindingCycle(t) \/ FailureHandler(t))
    /\ \A p \in Pods : /\ SF_vars(NextPod(p))
                       /\ WF_vars(BackoffCompleted(p))
                       /\ WF_vars(~WaitsForRoom(p) /\ FlushUnschedulable(p))
                       /\ WF_vars(Observe(p))

FairSpec == Spec /\ Fairness

-----------------------------------------------------------------------------
(* What is expected of it.                                                 *)

\* Every variable keeps its type; a busy thread has a pod.
ApiTypeOK ==
    /\ versions \in [Pods -> Seq(Nodes \cup Phases) \ {<<>>}]
    /\ seen \in [Pods -> Nat]
    /\ \A p \in Pods : seen[p] <= Len(versions[p])
    /\ misreported \subseteq Pods

QueueTypeOK ==
    /\ queue \in [Pods -> Places]
    /\ inFlight \subseteq Pods
    /\ missed \subseteq Pods
    /\ silent \subseteq Nodes

CacheTypeOK ==
    /\ cache \in [Pods -> Nodes \cup {NoNode}]
    /\ assumed \subseteq Pods

ThreadTypeOK ==
    /\ pc \in [Threads -> Steps]
    /\ pod \in [Threads -> Pods \cup {NoPod}]
    /\ host \in [Threads -> Nodes \cup {NoNode}]
    /\ status \in [Threads -> {"ok", "deleting", "unfit", "rejected", "error"}]
    /\ \A t \in Threads : pc[t] # "idle" => pod[t] \in Pods
    /\ \A t \in Threads : pc[t] \in HasHost => host[t] \in Nodes
    /\ owed \subseteq Binders

LogTypeOK ==
    /\ log \subseteq Records
    /\ faults \in 0..MaxFaults

TypeOK == ApiTypeOK /\ QueueTypeOK /\ CacheTypeOK /\ ThreadTypeOK /\ LogTypeOK

\* The steps of a thread that has assumed its pod and neither bound nor
\* forgotten it yet.
Holding == {"reserve", "permit", "bind", "cleanup"}

\* The cache agrees with the informer: a pod is confirmed (there, and not by
\* assumption) on exactly the node the informer has seen it bound to, however
\* AssumePod, ForgetPod and the event handlers interleave.
CacheFollowsInformer ==
    \A p \in Pods : \A n \in Nodes :
        Seen(p) = n <=> cache[p] = n /\ p \notin assumed

\* Assumed pods never expire (durationToExpireAssumedPod is 0), so each one
\* must be in the hands of a thread that will yet bind or forget it, or be
\* bound to that node with the event on its way.  Otherwise the room is lost.
NoOrphanedAssumption ==
    \A p \in assumed :
        \/ \E t \in Threads : pod[t] = p /\ host[t] = cache[p] /\ pc[t] \in Holding
        \/ \E i \in (seen[p] + 1)..Len(versions[p]) : versions[p][i] = cache[p]

\* A pod the scheduler knows and that wants a node is never dropped: it is
\* queued, in the hands of a thread that is not done with it, or about to be
\* seen bound or deleted.  In particular an assumed pod that skipPodSchedule
\* drops is in a binder's hands.
PendingPodNeverLost ==
    \A p \in Pods :
        Seen(p) = "pending" =>
            \/ queue[p] # "none"
            \/ \E t \in Threads : pod[t] = p /\ pc[t] \notin {"idle", "deferred"}
            \/ seen[p] < Len(versions[p])

\* No wakeup is lost: a pending pod waits in the unschedulable pool for room
\* only while no node has room, or while the thread that freed the room is about
\* to move the pods (handleBindingCycleError moves them at once, or, when the
\* plugins rejected the pod, after the failure handler).  Nobody tells of the room
\* on a node whose assumed pod turns out to be bound to another one, by an earlier
\* bind that reported an error: that room is found with the next event, or by the
\* timer of the pool.
NoLostWakeup ==
    \A p \in Pods :
        WaitsForRoom(p) /\ Feasible \ silent # {}
            => \E t \in Binders : pc[t] = "move" \/ t \in owed

\* The pods assumed and confirmed on a node never exceed its capacity, although
\* binding is asynchronous and the snapshot is older than the assumption; nor do
\* the pods that are bound to it on the API server.  A bind that takes effect and
\* reports an error makes the scheduler forget a pod that has its place, so such a
\* pod comes on top: it, and no other pod, may be one too many.
Bound(n) == {p \in Pods : Latest(p) = n}
WithinCapacity ==
    \A n \in Nodes :
        /\ Cardinality(OnNode(n) \ misreported) <= Capacity[n]
        /\ Cardinality(Bound(n) \ misreported) <= Capacity[n]

\* Two threads never try to bind the same pod, whichever binds are reported as
\* failed, until the deletion of the pod has been handled: a pod that is assumed is
\* skipped, a pod that is known is not assumed again.  A pod that was bound and is
\* deleted can be in the hands of two threads if its bind was misreported.
OneBinderPerPod ==
    \A t, u \in Threads :
        /\ pod[t] = pod[u]
        /\ pc[t] \in {"reserve", "permit", "bind"}
        /\ pc[u] \in {"reserve", "permit", "bind"}
        => \/ t = u
           \/ Seen(pod[t]) = "gone" /\ pod[t] \in misreported

\* A BindingSuccess record names the node the API server bound the pod to, so
\* over all records of that event each pod has one node.
BindingRecordsAreTrue ==
    \A r \in log : r.event = "BindingSuccess" =>
        /\ \E i \in 1..Len(versions[r.pod]) : versions[r.pod][i] = r.node
        /\ \A q \in log : q.event = r.event /\ q.pod = r.pod => q.node = r.node

\* Pods are dropped from flight: one that no thread works on and no queue
\* holds is not in flight (the comments in handleSchedulingFailure and ScheduleOne
\* call Done "to avoid leaking the pod").
NoLeakInFlight ==
    \A p \in inFlight : queue[p] # "none" \/ \E t \in Threads : pod[t] = p

\* There is not for ever both a node with room and a pod without a node: again and
\* again the nodes are full or every pod is bound or being deleted.  A pod that found
\* the nodes full is told when a pod leaves, a pod whose attempt failed is tried again,
\* and what a failed attempt took is given back.
RoomIsUsed == []<>(Feasible = {} \/ \A p \in Pods : Latest(p) # "pending")

\* A deleted pod is forgotten, also if the failure handler put it back into
\* the queue after its deletion was handled.
Forgotten(p) == queue[p] = "none" /\ cache[p] = NoNode /\ \A t \in Threads : pod[t] # p
DeletedPodForgotten == <>[](\A p \in Pods : Latest(p) = "gone" => Forgotten(p))
-----------------------------------------------------------------------------
(* What makes the assumptions safe: an inductive invariant.                *)

\* A pod is pending, then bound or terminating, then gone; a step may be missing.
VersionsInOrder ==
    \A p \in Pods : \A i \in 1..(Len(versions[p]) - 1) :
        /\ versions[p][i] # "gone"
        /\ versions[p][i] # "pending" => versions[p][i + 1] = "gone"

\* The informer has seen the pod, and not as a pending one any more.
Settled(p) == seen[p] > 0 /\ versions[p][seen[p]] # "pending"

\* The queue and the threads have only pods an informer told of.
OnlyKnownPods ==
    /\ \A p \in Pods : queue[p] # "none" => seen[p] > 0
    /\ \A t \in Threads : pc[t] # "idle" => seen[pod[t]] > 0

\* A pod that is dropped, by skipPodSchedule as one being deleted or by the
\* failure handler, is not pending.
OnlySettledDropped ==
    \A t \in Threads :
        pc[t] = "drop" \/ (t = Loop /\ pc[t] = "popped" /\ status[t] = "deleting")
            => Settled(pod[t])

\* After a bind that succeeded the API server has the pod on a node.
BoundRecorded ==
    \A t \in Threads : pc[t] \in {"bound", "finish"} =>
        \E i \in 1..Len(versions[pod[t]]) : versions[pod[t]][i] \in Nodes

AssumedInCache == \A p \in assumed : cache[p] \in Nodes

Inv ==
    /\ TypeOK
    /\ VersionsInOrder
    /\ OnlyKnownPods
    /\ OnlySettledDropped
    /\ BoundRecorded
    /\ AssumedInCache
    /\ CacheFollowsInformer
    /\ NoOrphanedAssumption
    /\ PendingPodNeverLost
=============================================================================
