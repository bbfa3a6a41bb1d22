------------------------------ MODULE Watcher ------------------------------
(***************************************************************************)
(* The watcher of sniffer/pkg/watcher: a process with an informer for the  *)
(* pods and one for the nodes, whose event handlers append what they see   *)
(* to the sniffer's log, all through one DebugLogger.                      *)
(*                                                                         *)
(* Each informer keeps a store of the objects as it last saw them, and one *)
(* goroutine that calls the handlers, one notification after the other.    *)
(* The two goroutines share the handle of the logger: one can close the    *)
(* file that the other has just opened, and the record of that one is lost *)
(* without a word.                                                         *)
(*                                                                         *)
(* The informers are outside the repository.  The watch of one can break   *)
(* (it then lists the objects anew), it resyncs every ten seconds, and the *)
(* process can die and be restarted; the file outlives it.                 *)
(*                                                                         *)
(* A definition marked (Slip: ...) is no part of the model: it is the one  *)
(* after it with a plausible mistake, to see that a property notices.      *)
(***************************************************************************)
EXTENDS Naturals, Sequences, FiniteSets, SequencesExt

CONSTANTS
    Pods, Nodes,
    System,       \* the pods in the namespace kube-system
    PodStates,    \* the states a pod goes through, in order
    NodeStates,   \* those of a node
    Transient,    \* the objects that may be deleted
    Conditions,   \* in each state, the conditions whose status is True
    MaxBacklog,   \* bound: the notifications that may be waiting at a resync
    MaxLapses     \* bound: broken watches, files that do not open, and deaths

Objects == Pods \cup Nodes
Kinds == {"pod", "node"}
KindOf(o) == IF o \in Pods THEN "pod" ELSE "node"
OfKind(k) == IF k = "pod" THEN Pods ELSE Nodes
Life(o) == IF o \in Pods THEN PodStates ELSE NodeStates

ASSUME ObjectsAssumption ==
    /\ IsFiniteSet(Objects) /\ Pods \cap Nodes = {}
    /\ System \subseteq Pods /\ Transient \subseteq Objects
    /\ PodStates \in Seq(STRING) /\ NodeStates \in Seq(STRING)
    /\ \A s \in Range(PodStates) \cup Range(NodeStates) : s # "gone" /\ Conditions[s] \in Seq(STRING)
    /\ MaxBacklog \in Nat /\ MaxLapses \in Nat

VARIABLES
    history,     \* API server: the versions of each object, oldest first
    seen,        \* the informers' stores: how many of them have been handled
    listed,      \* the informers that have listed their objects
    registered,  \* the informers with event handlers
    queue,       \* of each informer, the notifications for its handlers
    writing,     \* of each informer's goroutine, the records it has yet to save
    call,        \* of each of them, how far its call of the logger is
    handle,      \* w.log.handle: whose file it is, that of the latest Start
    closed,      \* the goroutines whose file is closed although their call goes on
    log,         \* the log file: the records of each object in it,
    latest,      \* and the version that the last of them is of, 0 without one
    lost,        \* the records that were given to the logger and are not in it
    up,          \* is the process running?
    lapses

informers == <<seen, listed, registered, queue>>
logger == <<call, handle, closed>>
file == <<log, latest, lost>>
vars == <<history, informers, writing, logger, file, up, lapses>>

Init ==
    /\ history = [o \in Objects |-> <<>>]
    /\ seen = [o \in Objects |-> 0]
    /\ listed = {}
    /\ registered = {}
    /\ queue = [k \in Kinds |-> <<>>]
    /\ writing = [k \in Kinds |-> <<>>]
    /\ call = [k \in Kinds |-> "none"]
    /\ handle = "none"
    /\ closed = {}
    /\ log = [o \in Objects |-> {}]
    /\ latest = [o \in Objects |-> 0]
    /\ lost = [o \in Objects |-> {}]
    /\ up = TRUE
    /\ lapses = 0

-----------------------------------------------------------------------------
(* What the cluster does.                                                  *)

Gone(o) == history[o] # <<>> /\ Last(history[o]) = "gone"

Progress(o) ==
    /\ Len(history[o]) < Len(Life(o))
    /\ ~Gone(o)
    /\ history' = [history EXCEPT ![o] = Append(@, Life(o)[Len(@) + 1])]
    /\ UNCHANGED <<informers, writing, logger, file, up, lapses>>

Delete(o) ==
    /\ o \in Transient /\ history[o] # <<>> /\ ~Gone(o)
    /\ history' = [history EXCEPT ![o] = Append(@, "gone")]
    /\ UNCHANGED <<informers, writing, logger, file, up, lapses>>

-----------------------------------------------------------------------------
(* Notifications, and what the handlers save of them.                      *)

\* The version of an object in the informer's store, or 0.
Stored(o) == IF seen[o] > 0 /\ history[o][seen[o]] # "gone" THEN seen[o] ELSE 0

Add(o, v) == [endpoint |-> "Add", object |-> o, old |-> v, new |-> v]
Update(o, old, new) == [endpoint |-> "Update", object |-> o, old |-> old, new |-> new]
Deleted(o, v) == [endpoint |-> "Delete", object |-> o, old |-> v, new |-> v]
\* A DeletedFinalStateUnknown stands for an object that a new list lacks.
Unknown(o) == [endpoint |-> "Unknown", object |-> o, old |-> 0, new |-> 0]

Record(o, v, event) == [object |-> o, version |-> v, event |-> event]

\* savePodData and saveNodeData: the phase and every condition that is true, but
\* nothing of a pod that is Pending.
Save(o, v) ==
    LET state == history[o][v]
    IN IF state = "Pending" THEN <<>>
       ELSE <<Record(o, v, "phase")>> \o
            [i \in DOMAIN Conditions[state] |-> Record(o, v, Conditions[state][i])]

\* (Slips: the new pod is saved before the old one; what does not change is not
\* saved.)
RecordsReversed(n) ==
    IF n.object \in System THEN <<>>
    ELSE IF n.endpoint = "Update" /\ n.object \in Pods
      THEN Save(n.object, n.new) \o Save(n.object, n.old)
      ELSE Save(n.object, n.new)

RecordsOfChange(n) ==
    IF n.object \in System \/ (n.endpoint = "Update" /\ n.old = n.new) THEN <<>>
    ELSE IF n.endpoint = "Update" /\ n.object \in Pods
      THEN Save(n.object, n.old) \o Save(n.object, n.new)
      ELSE Save(n.object, n.new)

\* podUpdate saves the old pod and the new one, nodeUpdate the new node only.
Records(n) ==
    IF n.object \in System THEN <<>>
    ELSE IF n.endpoint = "Update" /\ n.object \in Pods
      THEN Save(n.object, n.old) \o Save(n.object, n.new)
      ELSE Save(n.object, n.new)

\* The informer tells the handlers if there are any.
Notify(k, notifications) ==
    queue' = IF k \in registered THEN [queue EXCEPT ![k] = @ \o notifications] ELSE queue

-----------------------------------------------------------------------------
(* Run, and the informers.                                                 *)

\* An informer lists its objects for the first time.
List(k) ==
    /\ up /\ k \notin listed
    /\ listed' = listed \cup {k}
    /\ seen' = [o \in Objects |-> IF o \in OfKind(k) THEN Len(history[o]) ELSE seen[o]]
    /\ UNCHANGED <<history, registered, queue, writing, logger, file, up, lapses>>

\* (Slips: the informers are not waited for; a handler added to a running
\* informer is not told of what is there.)
RegisterUnsynced(k) ==
    /\ up /\ k \notin registered
    /\ k = "node" => "pod" \in registered
    /\ registered' = registered \cup {k}
    /\ UNCHANGED <<history, seen, listed, queue, writing, logger, file, up, lapses>>

RegisterLate(k) ==
    /\ up /\ k \notin registered
    /\ listed = Kinds
    /\ k = "node" => "pod" \in registered
    /\ registered' = registered \cup {k}
    /\ UNCHANGED <<history, seen, listed, queue, writing, logger, file, up, lapses>>

\* After both have synced, AddEventHandler for the pods and then for the nodes:
\* the handlers are told of every object in the store.
Register(k) ==
    /\ up /\ k \notin registered
    /\ listed = Kinds
    /\ k = "node" => "pod" \in registered
    /\ registered' = registered \cup {k}
    /\ \E order \in SetToSeqs({o \in OfKind(k) : Stored(o) # 0}) :
         queue' = [queue EXCEPT ![k] = [i \in DOMAIN order |-> Add(order[i], Stored(order[i]))]]
    /\ UNCHANGED <<history, seen, listed, writing, logger, file, up, lapses>>

\* The watch delivers the next version of an object.
Watch(o) ==
    /\ up /\ KindOf(o) \in listed
    /\ seen[o] < Len(history[o])
    /\ seen' = [seen EXCEPT ![o] = @ + 1]
    /\ LET v == seen[o] + 1
       IN Notify(KindOf(o), <<IF history[o][v] = "gone" THEN Deleted(o, Stored(o))
                              ELSE IF Stored(o) = 0 THEN Add(o, v)
                              ELSE Update(o, Stored(o), v)>>)
    /\ UNCHANGED <<history, listed, registered, writing, logger, file, up, lapses>>

Lapse == lapses < MaxLapses /\ lapses' = lapses + 1

\* The watch broke: the object is found as it is now, or it is not found.
Relist(o) ==
    /\ up /\ KindOf(o) \in listed
    /\ seen[o] < Len(history[o])
    /\ Lapse
    /\ seen' = [seen EXCEPT ![o] = Len(history[o])]
    /\ LET v == Len(history[o])
       IN Notify(KindOf(o), IF Gone(o) THEN IF Stored(o) = 0 THEN <<>> ELSE <<Unknown(o)>>
                            ELSE IF Stored(o) = 0 THEN <<Add(o, v)>>
                            ELSE <<Update(o, Stored(o), v)>>)
    /\ UNCHANGED <<history, listed, registered, writing, logger, file, up>>

\* Every ten seconds, every object in the store is notified as an update to what
\* it is.
Resync(k) ==
    /\ up /\ k \in registered
    /\ Len(queue[k]) <= MaxBacklog
    /\ \E order \in SetToSeqs({o \in OfKind(k) : Stored(o) # 0}) :
         Notify(k, [i \in DOMAIN order |-> Update(order[i], Stored(order[i]), Stored(order[i]))])
    /\ UNCHANGED <<history, seen, listed, registered, writing, logger, file, up, lapses>>

-----------------------------------------------------------------------------
(* The handlers.                                                           *)

Die ==
    /\ up' = FALSE
    /\ seen' = [o \in Objects |-> 0]
    /\ listed' = {}
    /\ registered' = {}
    /\ queue' = [k \in Kinds |-> <<>>]
    /\ writing' = [k \in Kinds |-> <<>>]
    /\ call' = [k \in Kinds |-> "none"]
    /\ handle' = "none"
    /\ closed' = {}

Free(k) == writing[k] = <<>> /\ call[k] = "none"

\* podAdd, podUpdate, podDelete, nodeAdd, nodeUpdate and nodeDelete.
Handle(k) ==
    /\ up /\ Free(k) /\ queue[k] # <<>>
    /\ Head(queue[k]).endpoint # "Unknown"
    /\ queue' = [queue EXCEPT ![k] = Tail(@)]
    /\ writing' = [writing EXCEPT ![k] = Records(Head(queue[k]))]
    /\ UNCHANGED <<history, seen, listed, registered, logger, file, up, lapses>>

\* The type assertion of podDelete or nodeDelete fails, and the panic ends the
\* process with all its goroutines.
HandleUnknown(k) ==
    /\ up /\ Free(k) /\ queue[k] # <<>>
    /\ Head(queue[k]).endpoint = "Unknown"
    /\ Die
    /\ UNCHANGED <<history, file, lapses>>

\* saveDatum, for one record after the other: w.log.Debug opens the file and
\* keeps it in the handle,
Start(k) ==
    /\ up /\ writing[k] # <<>> /\ call[k] = "none"
    /\ call' = [call EXCEPT ![k] = "opened"]
    /\ handle' = k
    /\ UNCHANGED closed
    /\ UNCHANGED <<history, informers, writing, file, up, lapses>>

Drop(record) == lost' = [lost EXCEPT ![record.object] = @ \cup ({record} \ log[record.object])]

\* (or it does not open, and nobody looks at the error)
StartFails(k) ==
    /\ up /\ writing[k] # <<>> /\ call[k] = "none"
    /\ Lapse
    /\ Drop(Head(writing[k]))
    /\ writing' = [writing EXCEPT ![k] = Tail(@)]
    /\ UNCHANGED <<history, informers, logger, log, latest, up>>

\* prints the record to the file it has opened, unless that was closed by the
\* other goroutine, and nobody looks at that error either,
Printf(k) ==
    /\ up /\ call[k] = "opened"
    /\ LET record == Head(writing[k])
       IN IF k \in closed
            THEN Drop(record) /\ UNCHANGED <<log, latest>>
            ELSE /\ log' = [log EXCEPT ![record.object] = @ \cup {record}]
                 /\ latest' = [latest EXCEPT ![record.object] = record.version]
                 /\ lost' = [lost EXCEPT ![record.object] = @ \ {record}]
    /\ writing' = [writing EXCEPT ![k] = Tail(@)]
    /\ call' = [call EXCEPT ![k] = "printed"]
    /\ UNCHANGED <<history, informers, handle, closed, up, lapses>>

\* and closes the file that is in the handle now (of no more interest when no
\* call prints to it).
Stop(k) ==
    /\ up /\ call[k] = "printed"
    /\ call' = [call EXCEPT ![k] = "none"]
    /\ closed' = {j \in Kinds : (j \in closed \/ j = handle) /\ call'[j] # "none"}
    /\ UNCHANGED <<history, informers, writing, handle, file, up, lapses>>

Killed ==
    /\ up
    /\ Lapse
    /\ Die
    /\ UNCHANGED <<history, file>>

Restart ==
    /\ ~up
    /\ up' = TRUE
    /\ UNCHANGED <<history, informers, writing, logger, file, lapses>>

-----------------------------------------------------------------------------

Cluster(o) == Progress(o) \/ Delete(o)
Informer(k) ==
    \/ List(k) \/ Register(k) \/ Resync(k)
    \/ \E o \in OfKind(k) : Watch(o) \/ Relist(o)
SaveDatum(k) == Start(k) \/ StartFails(k) \/ Printf(k) \/ Stop(k)
Handlers(k) == Handle(k) \/ HandleUnknown(k) \/ SaveDatum(k)

Next ==
    \/ \E o \in Objects : Cluster(o)
    \/ \E k \in Kinds : Informer(k) \/ Handlers(k)
    \/ Killed \/ Restart

Spec == Init /\ [][Next]_vars

\* The informers and the handlers go on, the resyncs come again and again, and a
\* container that died is restarted.
FairSpec ==
    /\ Spec
    /\ \A k \in Kinds :
         WF_vars(List(k)) /\ WF_vars(Register(k)) /\ WF_vars(Resync(k)) /\ WF_vars(Handlers(k))
    /\ \A o \in Objects : WF_vars(Watch(o))
    /\ WF_vars(Restart)

-----------------------------------------------------------------------------
(* What is expected of it.                                                 *)

\* Every variable keeps its type; no handler is called without being registered.
TypeOK ==
    /\ \A o \in Objects : history[o] \in Seq(Range(Life(o)) \cup {"gone"})
    /\ \A o \in Objects : seen[o] \in 0..Len(history[o])
    /\ registered \subseteq listed /\ listed \subseteq Kinds
    /\ call \in [Kinds -> {"none", "opened", "printed"}]
    /\ handle \in Kinds \cup {"none"} /\ closed \subseteq Kinds
    /\ up \in BOOLEAN
    /\ lapses \in 0..MaxLapses
    /\ \A k \in Kinds \ registered : queue[k] = <<>> /\ Free(k)
    /\ \A k \in Kinds : call[k] = "opened" => writing[k] # <<>>
    /\ \A o \in Objects : \A r \in log[o] \cup lost[o] : r.version \in DOMAIN history[o]

Saved(o) == {r.version : r \in log[o]}
Missed(o) == {r.version : r \in lost[o]}
Worthy(o, v) == o \notin System /\ history[o][v] \notin {"Pending", "gone"}
Idle(o) == registered = Kinds /\ queue[KindOf(o)] = <<>> /\ Free(KindOf(o))

\* The log never goes back in time: what it says of an object is in the order
\* of its versions, although updates repeat the old one, records are lost,
\* watches break, and a restarted watcher begins anew.
NeverBackwards == [][\A o \in Objects : latest[o] <= latest'[o]]_vars

\* The only gaps in the log, unless a watch breaks or the process dies, are the
\* records that the two handlers take from each other: between two versions
\* that it has it has every one, or a record of it was lost, and when the
\* handlers are idle that holds for the one in the store too.
NoGaps ==
    lapses = 0 => \A o \in Objects :
        /\ \A v, w \in Saved(o) : \A u \in v..w : Worthy(o, u) => u \in Saved(o) \cup Missed(o)
        /\ Idle(o) /\ Stored(o) # 0 /\ Worthy(o, Stored(o)) => Stored(o) \in Saved(o) \cup Missed(o)

\* The state an object stays in gets into the log with all its conditions,
\* whichever watches broke, whatever records were lost and however often the
\* watcher died on the way: a later resync writes what is missing, as soon as
\* the handlers stop closing each other's files.
Current(o) == Len(history[o])
Lasting(o) == Current(o) > 0 /\ Worthy(o, Current(o))
Undisturbed == \A k \in Kinds : call[k] = "opened" => k \notin closed
RecordedFully(o) ==
    Lasting(o) /\ \A event \in {"phase"} \cup Range(Conditions[Last(history[o])]) :
       Record(o, Current(o), event) \in log[o]
LatestRecorded ==
    \A o \in Objects :
        <>[]Lasting(o) /\ <>[]Undisturbed => <>[]RecordedFully(o)
=============================================================================
