----------------------------- MODULE Nomination -----------------------------
(***************************************************************************)
(* Nominations: preemption frees room on a node for a pod that did not     *)
(* fit, and the node is nominated for the pod until its next cycle         *)
(* (scheduler/schedule_one.go).  A nomination is kept twice: by the        *)
(* scheduling queue (its nominator), which the filters of other pods       *)
(* respect, and in the status of the pod, which the pod's own next cycle   *)
(* starts from.                                                            *)
(*                                                                         *)
(* Two threads write both: the scheduling loop, and a binding goroutine    *)
(* that fails; and so do the event handlers, from what the informers have  *)
(* seen.  Scheduler has the rest of these threads; here a cycle is only    *)
(* what bears on nominations.  The nominator, its respect by the filters,  *)
(* the informers, the event handlers and PostFilter are outside the        *)
(* repository.  A node has room for one pod.                               *)
(*                                                                         *)
(* A definition marked (Slip: ...) is no part of the model: it is the one  *)
(* after it with a plausible mistake, to see that a property notices.      *)
(***************************************************************************)
EXTENDS Naturals, Sequences, SequencesExt

CONSTANTS
    Pod, Node, Priority,
    Loop, Binders,
    NoNode,     \* also the empty nomination
    Gone,       \* in place of its node: a pod that was deleted
    Keep,       \* NominatingInfo that is nil: whatever is in the status
    MaxCycles,  \* bound: scheduling cycles
    MaxFaults   \* bound: failures, and deletions of pods

ASSUME NominationAssumption ==
    /\ Priority \in [Pod -> Nat]
    /\ Loop \notin Binders
    /\ {NoNode, Gone, Keep} \cap Node = {} /\ NoNode \notin {Gone, Keep}
    /\ MaxCycles \in Nat /\ MaxFaults \in Nat

Threads == {Loop} \cup Binders

VARIABLES
    view,       \* the version of each pod the event handlers have handled
    coming,     \* the versions after it, the last one being the API server's
    ahead,      \* the pods whose first coming version is in the informer's store
    queue,      \* the pods in the scheduling queue ...
    queued,     \* ... and the nomination in the status of what is queued
    nominated,  \* the nominator
    assumed,    \* the node a pod is assumed on
    occupied,   \* the nodes that other pods occupy, of the least priority
    job,        \* what each thread is at
    promised,   \* history: the node a pod was promised by its last cycle
    cycles, faults

pods == <<view, coming, ahead>>
schedulingQueue == <<queue, queued, nominated>>
bounds == <<cycles, faults>>
vars == <<pods, schedulingQueue, assumed, occupied, job, promised, bounds>>

Nominee == Node \cup {NoNode}
Version == [node : Nominee \cup {Gone}, nnn : Nominee]
Idle == [at |-> "idle"]

Init ==
    /\ view = [p \in Pod |-> [node |-> NoNode, nnn |-> NoNode]]
    /\ coming = [p \in Pod |-> <<>>]
    /\ ahead = {}
    /\ queue = Pod
    /\ queued = [p \in Pod |-> NoNode]
    /\ nominated = [p \in Pod |-> NoNode]
    /\ assumed = [p \in Pod |-> NoNode]
    /\ occupied \in SUBSET Node
    /\ job = [t \in Threads |-> Idle]
    /\ promised = [p \in Pod |-> NoNode]
    /\ cycles = 0
    /\ faults = 0

Pending(version) == version.node = NoNode

\* API server, and informer's store.
Live(p) == IF coming[p] = <<>> THEN view[p] ELSE Last(coming[p])
Stored(p) == IF p \in ahead THEN Head(coming[p]) ELSE view[p]
Write(p, version) == coming' = [coming EXCEPT ![p] = Append(@, version)]

Fault == faults < MaxFaults /\ faults' = faults + 1

-----------------------------------------------------------------------------
(* The nominator.                                                          *)

\* AddNominatedPod forgets what was nominated; what the store says is gone or bound
\* is not nominated again.
Added(p, nnn, info) ==
    [nominated EXCEPT ![p] = IF ~Pending(Stored(p)) THEN NoNode
                             ELSE IF info = Keep THEN nnn ELSE info]

\* An update without any nomination leaves the one in memory.
Updated(p, old, new) ==
    IF old.nnn = NoNode /\ new.nnn = NoNode THEN Added(p, new.nnn, nominated[p])
    ELSE Added(p, new.nnn, Keep)

Without(p) == [nominated EXCEPT ![p] = NoNode]

-----------------------------------------------------------------------------
(* A scheduling cycle.                                                     *)

At(t, step) == job[t].at = step
Turn(t, step) == job' = [job EXCEPT ![t].at = step]
Failed(t, info) ==
    job' = [job EXCEPT ![t] = [at |-> "failed", pod |-> @.pod, nnn |-> @.nnn, info |-> info]]

Pop(p) ==
    /\ At(Loop, "idle") /\ p \in queue
    /\ cycles < MaxCycles
    /\ cycles' = cycles + 1
    /\ queue' = queue \ {p}
    /\ job' = [job EXCEPT ![Loop] = [at |-> "popped", pod |-> p, nnn |-> queued[p]]]
    /\ UNCHANGED <<pods, queued, nominated, assumed, occupied, promised, faults>>

\* skipPodSchedule: an assumed pod.
Skip ==
    /\ At(Loop, "popped") /\ assumed[job[Loop].pod] # NoNode
    /\ job' = [job EXCEPT ![Loop] = Idle]
    /\ UNCHANGED <<pods, schedulingQueue, assumed, occupied, promised, bounds>>

\* The filters count the pods nominated to a node unless they have less priority.
Fits(p, n) ==
    /\ n \notin occupied
    /\ \A q \in Pod \ {p} :
         /\ assumed[q] # n /\ view[q].node # n
         /\ ~(nominated[q] = n /\ Priority[q] >= Priority[p])

\* The node nominated in the status is tried first.
Hosts(p, nnn) ==
    IF nnn \in Node /\ Fits(p, nnn) THEN {nnn} ELSE {n \in Node : Fits(p, n)}

Selecting(p) == At(Loop, "popped") /\ p = job[Loop].pod /\ assumed[p] = NoNode

\* The cache has the pods that the event handlers have seen bound.
Confirmed(p) == view[p].node \in Node

\* (Slip: a pod that has its node is still nominated.)
UponAssume(p) == nominated
AfterAssume(p) == Without(p)

\* Assume takes the room and ends the nomination in memory.
Assume == \E p \in Pod, n \in Node :
    /\ Selecting(p)
    /\ n \in Hosts(p, job[Loop].nnn)
    /\ ~Confirmed(p)
    /\ assumed' = [assumed EXCEPT ![p] = n]
    /\ nominated' = AfterAssume(p)
    /\ promised' = [promised EXCEPT ![p] = NoNode]
    /\ job' = [job EXCEPT ![Loop] = [at |-> "reserve", pod |-> p, nnn |-> @.nnn, node |-> n]]
    /\ UNCHANGED <<pods, queue, queued, occupied, bounds>>

\* AssumePod refuses a pod that is in the cache.
AssumeFails == \E p \in Pod :
    /\ Selecting(p)
    /\ Hosts(p, job[Loop].nnn) # {} /\ Confirmed(p)
    /\ Failed(Loop, NoNode)
    /\ UNCHANGED <<pods, schedulingQueue, assumed, occupied, promised, bounds>>

\* No node fits: PostFilter nominates one that it makes room on (it can for a pod that
\* is not of the least priority), takes a nomination back, or has no result.
PostFilter == \E p \in Pod, info \in Nominee \cup {Keep} :
    /\ Selecting(p)
    /\ Hosts(p, job[Loop].nnn) = {}
    /\ info \in Node => \E q \in Pod : Priority[q] < Priority[p]
    /\ Failed(Loop, info)
    /\ UNCHANGED <<pods, schedulingQueue, assumed, occupied, promised, bounds>>

ScheduleFails == \E p \in Pod :
    /\ Selecting(p)
    /\ Fault
    /\ Failed(Loop, NoNode)
    /\ UNCHANGED <<pods, schedulingQueue, assumed, occupied, promised, cycles>>

Forget(p) == assumed' = [assumed EXCEPT ![p] = NoNode]

ReserveOrPermitFails ==
    /\ At(Loop, "reserve")
    /\ Fault
    /\ Forget(job[Loop].pod)
    /\ Failed(Loop, NoNode)
    /\ UNCHANGED <<pods, schedulingQueue, occupied, promised, cycles>>

StartBinding(b) ==
    /\ At(Loop, "reserve") /\ At(b, "idle")
    /\ job' = [job EXCEPT ![b] = [job[Loop] EXCEPT !.at = "bind"], ![Loop] = Idle]
    /\ UNCHANGED <<pods, schedulingQueue, assumed, occupied, promised, bounds>>

Bind(b) ==
    /\ At(b, "bind")
    /\ LET p == job[b].pod IN
         /\ Pending(Live(p))
         /\ Write(p, [Live(p) EXCEPT !.node = job[b].node])
    /\ job' = [job EXCEPT ![b] = Idle]
    /\ UNCHANGED <<view, ahead, schedulingQueue, assumed, occupied, promised, bounds>>

\* handleBindingCycleError, also for a bind that took effect.
BindFails(b) ==
    /\ At(b, "bind")
    /\ LET p == job[b].pod IN
         /\ Forget(p)
         /\ IF Pending(Live(p))
              THEN Fault /\ (UNCHANGED coming \/ Write(p, [Live(p) EXCEPT !.node = job[b].node]))
              ELSE UNCHANGED <<coming, faults>>
    /\ Failed(b, NoNode)
    /\ UNCHANGED <<view, ahead, schedulingQueue, occupied, promised, cycles>>

-----------------------------------------------------------------------------
(* handleSchedulingFailure.                                                *)

\* A pod that the store has and that is not bound is to be queued again, as the
\* store has it.
LookUpPod(t) ==
    /\ At(t, "failed")
    /\ job' = LET stored == Stored(job[t].pod)
              IN [job EXCEPT ![t] =
                    [at |-> IF Pending(stored) THEN "requeue" ELSE "nominate", pod |-> @.pod,
                     nnn |-> @.nnn, info |-> @.info, queued |-> FALSE,
                     cached |-> IF Pending(stored) THEN stored.nnn ELSE @.nnn]]
    /\ UNCHANGED <<pods, schedulingQueue, assumed, occupied, promised, bounds>>

\* AddUnschedulableIfNotPresent.
Requeue(t) ==
    /\ At(t, "requeue")
    /\ LET p == job[t].pod IN
         IF p \in queue THEN UNCHANGED schedulingQueue /\ Turn(t, "nominate")
         ELSE /\ queue' = queue \cup {p}
              /\ queued' = [queued EXCEPT ![p] = job[t].cached]
              /\ nominated' = Added(p, job[t].cached, Keep)
              /\ job' = [job EXCEPT ![t].at = "nominate", ![t].queued = TRUE]
    /\ UNCHANGED <<pods, assumed, occupied, promised, bounds>>

\* (Slip: the update of the pod's status will tell the nominator.)
NominatedLater(p, nnn, info) == nominated
NominatedNow(p, nnn, info) == Added(p, nnn, info)

\* What was queued is the same object: an update of it may be read here already.
\* A promise needs a pod that the informers have not seen nominated yet: with
\* such a pod the next update brings an older nomination back.  A failure of an
\* earlier cycle that is handled late ends it too.
AddNominatedPod(t) ==
    /\ At(t, "nominate")
    /\ LET p == job[t].pod
       IN /\ \E nnn \in {job[t].cached} \cup (IF job[t].queued THEN {queued[p]} ELSE {}) :
               nominated' = NominatedNow(p, nnn, job[t].info)
          /\ promised' = [promised EXCEPT ![p] =
               IF /\ job[t].info \in Node /\ Pending(Stored(p))
                  /\ \A v \in {view[p], Stored(p)} : v.nnn = NoNode
               THEN job[t].info ELSE NoNode]
    /\ Turn(t, "update")
    /\ UNCHANGED <<pods, queue, queued, assumed, occupied, bounds>>

\* (Slip: a result without a nomination counts as one.)
NeedsUpdateOfAny(nnn, info) == info # nnn
NeedsUpdate(nnn, info) == info # Keep /\ info # nnn

\* updatePod: the nomination is patched if it differs from that of the pod as the
\* cycle had it; the condition may be patched without it; the patch may fail.
UpdatePod(t) ==
    /\ At(t, "update")
    /\ LET p == job[t].pod
           info == job[t].info
           nnnNeedsUpdate == NeedsUpdate(job[t].nnn, info)
       IN \/ /\ ~nnnNeedsUpdate \/ Live(p).node = Gone
             /\ UNCHANGED <<coming, faults>>
          \/ Fault /\ UNCHANGED coming
          \/ /\ Live(p).node # Gone
             /\ Write(p, IF nnnNeedsUpdate THEN [Live(p) EXCEPT !.nnn = info] ELSE Live(p))
             /\ UNCHANGED faults
    /\ job' = [job EXCEPT ![t] = Idle]
    /\ UNCHANGED <<view, ahead, schedulingQueue, assumed, occupied, promised, cycles>>

-----------------------------------------------------------------------------
(* The surroundings.                                                       *)

Delete(p) ==
    /\ Live(p).node # Gone
    /\ Fault
    /\ Write(p, [Live(p) EXCEPT !.node = Gone])
    /\ UNCHANGED <<view, ahead, schedulingQueue, assumed, occupied, job, promised, cycles>>

\* Another pod ends or was preempted.
Vacate(n) ==
    /\ n \in occupied
    /\ occupied' = occupied \ {n}
    /\ UNCHANGED <<pods, schedulingQueue, assumed, job, promised, bounds>>

\* The store of the informer is updated, and later the event handlers are called.
Receive(p) ==
    /\ p \notin ahead /\ coming[p] # <<>>
    /\ ahead' = ahead \cup {p}
    /\ UNCHANGED <<view, coming, schedulingQueue, assumed, occupied, job, promised, bounds>>

\* A pod without a node is updated in the queue, or put into it, unless it is assumed;
\* one that gets a node or is deleted is taken out and not nominated any more.
Handle(p) ==
    /\ p \in ahead
    /\ LET old == view[p]
           new == Head(coming[p])
       IN /\ view' = [view EXCEPT ![p] = new]
          /\ assumed' = [assumed EXCEPT ![p] = IF new.node \in Node THEN NoNode ELSE @]
          /\ IF ~Pending(old) \/ (Pending(new) /\ assumed[p] # NoNode)
               THEN UNCHANGED schedulingQueue
             ELSE IF Pending(new)
               THEN /\ queue' = queue \cup {p}
                    /\ queued' = [queued EXCEPT ![p] = new.nnn]
                    /\ nominated' = IF p \in queue THEN Updated(p, old, new)
                                    ELSE Added(p, new.nnn, Keep)
             ELSE /\ queue' = queue \ {p}
                  /\ nominated' = Without(p)
                  /\ UNCHANGED queued
          /\ promised' = [promised EXCEPT ![p] =
               IF Pending(new) /\ p \in queue /\ new.nnn \in {old.nnn, @} THEN @ ELSE NoNode]
    /\ coming' = [coming EXCEPT ![p] = Tail(@)]
    /\ ahead' = ahead \ {p}
    /\ UNCHANGED <<occupied, job, bounds>>

-----------------------------------------------------------------------------

SchedulingCycle ==
    \/ \E p \in Pod : Pop(p)
    \/ Skip \/ Assume \/ AssumeFails \/ PostFilter \/ ScheduleFails \/ ReserveOrPermitFails
BindingCycle(b) == StartBinding(b) \/ Bind(b) \/ BindFails(b)
FailureHandler(t) == LookUpPod(t) \/ Requeue(t) \/ AddNominatedPod(t) \/ UpdatePod(t)

Next ==
    \/ SchedulingCycle
    \/ \E b \in Binders : BindingCycle(b)
    \/ \E t \in Threads : FailureHandler(t)
    \/ \E p \in Pod : Delete(p) \/ Receive(p) \/ Handle(p)
    \/ \E n \in Node : Vacate(n)

Spec == Init /\ [][Next]_vars

-----------------------------------------------------------------------------
(* What is expected of it.                                                 *)

\* Every variable keeps its type; the store is never ahead of the API server.
TypeOK ==
    /\ view \in [Pod -> Version]
    /\ coming \in [Pod -> Seq(Version)]
    /\ ahead \subseteq {p \in Pod : coming[p] # <<>>}
    /\ queue \subseteq Pod
    /\ queued \in [Pod -> Nominee] /\ nominated \in [Pod -> Nominee]
    /\ assumed \in [Pod -> Nominee] /\ promised \in [Pod -> Nominee]
    /\ occupied \subseteq Node
    /\ cycles \in 0..MaxCycles /\ faults \in 0..MaxFaults
    /\ \A t \in Threads :
         /\ ~At(t, "idle") => job[t].pod \in Pod /\ job[t].nnn \in Nominee
         /\ job[t].at \in {"reserve", "bind"} =>
              job[t].node = assumed[job[t].pod] \/ ~Pending(view[job[t].pod])

\* Only a pod that wants a node is nominated.  A nomination never outlives its pod,
\* but for the moment until the event is handled; and it takes no room besides
\* that of the assumed pod, but while a failure of the pod's last cycle is handled.
Handled(p) == \E t \in Threads : job[t].at \in {"requeue", "nominate"} /\ job[t].pod = p
NominatedWantsNode ==
    \A p \in Pod : nominated[p] \in Node =>
        /\ Pending(Stored(p)) \/ p \in ahead
        /\ assumed[p] = NoNode \/ Handled(p)

\* The room that preemption made for a pod is not taken by one of less priority before
\* the pod's next cycle, however late its nomination is seen in its status.
RoomIsKept ==
    [][\A p, q \in Pod, n \in Node :
         promised[p] = n /\ Priority[q] < Priority[p] /\ assumed[q] = NoNode
           => assumed'[q] # n]_vars
=============================================================================
