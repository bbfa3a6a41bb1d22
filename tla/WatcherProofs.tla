--------------------------- MODULE WatcherProofs ---------------------------
(***************************************************************************)
(* Proofs about Watcher, for any pods, nodes, lives of them and lapses:    *)
(* the log never goes back in time, and while nothing goes wrong has no    *)
(* gaps but the records that the two handlers take from each other.        *)
(***************************************************************************)
EXTENDS Watcher, SequenceTheorems, FiniteSetTheorems, TLAPS

-----------------------------------------------------------------------------
(* The invariant.                                                          *)

Endpoint == {"Add", "Update", "Delete"}
Event == STRING \cup {"phase"}
Notice == [endpoint : Endpoint \cup {"Unknown"}, object : Objects, old : Nat, new : Nat]
Datum == [object : Objects, version : Nat, event : Event]
Typed ==
  /\ history \in [Objects -> Seq(STRING \cup {"gone"})] /\ seen \in [Objects -> Nat]
  /\ queue \in [Kinds -> Seq(Notice)] /\ writing \in [Kinds -> Seq(Datum)]
  /\ log \in [Objects -> SUBSET Datum] /\ lost \in [Objects -> SUBSET Datum]
  /\ latest \in [Objects -> Nat]

GoneIsLast ==
  \A o \in Objects : \A v \in DOMAIN history[o] :
    history[o][v] = "gone" => v = Len(history[o]) /\ v > 1

\* An informer's notifications and records are about objects of its kind.
OwnKind ==
  \A k \in Kinds :
    /\ \A i \in DOMAIN queue[k] : KindOf(queue[k][i].object) = k
    /\ \A i \in DOMAIN writing[k] : KindOf(writing[k][i].object) = k

\* The versions of an object that the logger was given a record of, and what is on its
\* way there: the notifications of the object, and the versions a handler is saving.
Given(o) == Saved(o) \cup Missed(o)
Notices(o) ==
  {n \in Range(queue[KindOf(o)]) : n.object = o /\ n.endpoint # "Unknown"}
Saving(o) == {r.version : r \in {r \in Range(writing[KindOf(o)]) : r.object = o}}

\* All of it is in the order of the versions, and none is ahead of the store.
Ordered(o) ==
  /\ latest[o] \in Given(o) \cup {0}
  /\ \A v \in Given(o) :
       /\ v \in DOMAIN history[o] /\ (KindOf(o) \in listed => v <= seen[o])
       /\ \A w \in Saving(o) : v <= w
       /\ \A n \in Notices(o) : v <= n.old
  /\ \A w \in Saving(o) :
       /\ w \in DOMAIN history[o] /\ w <= seen[o]
       /\ \A n \in Notices(o) : w <= n.old
  /\ \A n \in Notices(o) :
       /\ n.old \in DOMAIN history[o] /\ history[o][n.old] # "gone"
       /\ n.new \in DOMAIN history[o] /\ history[o][n.new] # "gone"
       /\ n.old <= n.new /\ n.new <= seen[o]
InOrder == \A o \in Objects : Ordered(o)

WritingInOrder ==
  \A k \in Kinds : \A i, j \in DOMAIN writing[k] :
    i < j => writing[k][i].version <= writing[k][j].version
Follows(m, n) ==
  m.object = n.object /\ m.endpoint # "Unknown" /\ n.endpoint # "Unknown" => m.new <= n.old
QueueInOrder ==
  \A k \in Kinds : \A i, j \in DOMAIN queue[k] : i < j => Follows(queue[k][i], queue[k][j])

\* As long as nothing goes wrong, every version since the first that was noted is given
\* to the logger or on its way there.
Noted(o) == Given(o) \cup Saving(o) \cup {n.new : n \in Notices(o)}
Gapless(o) ==
  /\ KindOf(o) \notin registered => Given(o) = {}
  /\ \A v \in Noted(o) \cup {n.old : n \in Notices(o)} : \A u \in v..seen[o] :
       Worthy(o, u) => u \in Noted(o)
  /\ KindOf(o) \in registered /\ Stored(o) # 0 /\ Worthy(o, Stored(o)) => Stored(o) \in Noted(o)
Complete ==
  lapses = 0 =>
    /\ up
    /\ \A k \in Kinds : \A i \in DOMAIN queue[k] : queue[k][i].endpoint # "Unknown"
    /\ \A o \in Objects : Gapless(o)

WatchInv ==
  /\ TypeOK /\ Typed /\ GoneIsLast /\ OwnKind
  /\ InOrder /\ WritingInOrder /\ QueueInOrder /\ Complete

-----------------------------------------------------------------------------
(* Kinds, and sequences.                                                   *)

\* Every object is of one kind.
LEMMA KindsOf ==
  /\ \A o \in Objects : KindOf(o) \in Kinds
  /\ \A k \in Kinds : \A o : o \in OfKind(k) <=> o \in Objects /\ KindOf(o) = k
BY ObjectsAssumption DEF KindOf, OfKind, Kinds, Objects

\* A sequence is its head and its tail.
LEMMA Heads ==
  ASSUME NEW S, NEW s \in Seq(S), s # <<>>
  PROVE  /\ Head(s) \in S /\ 1 \in DOMAIN s /\ Head(s) = s[1]
         /\ Tail(s) \in Seq(S) /\ Range(s) = {Head(s)} \cup Range(Tail(s))
         /\ \A i \in DOMAIN Tail(s) : /\ Tail(s)[i] = s[i + 1] /\ i + 1 \in DOMAIN s
                                      /\ 1 < i + 1 /\ i \in Nat
<1>1. /\ Head(s) \in S /\ Tail(s) \in Seq(S) /\ Len(Tail(s)) = Len(s) - 1
      /\ \A i \in 1..Len(Tail(s)) : Tail(s)[i] = s[i + 1]
  BY HeadTailProperties
<1>2. /\ Len(s) \in Nat /\ Len(s) >= 1 /\ DOMAIN s = 1..Len(s) /\ Head(s) = s[1]
      /\ DOMAIN Tail(s) = 1..(Len(s) - 1)
  BY <1>1, EmptySeq, LenProperties
<1>3. \A i \in 1..(Len(s) - 1) : i + 1 \in 1..Len(s) /\ 1 < i + 1 /\ i \in Nat
  BY <1>2
<1>4. \A i \in 1..Len(s) : i = 1 \/ (i - 1 \in 1..(Len(s) - 1) /\ s[i] = s[(i - 1) + 1])
  BY <1>2
<1>5. \A i \in 1..Len(s) : i = 1 \/ (i - 1 \in DOMAIN Tail(s) /\ s[i] = Tail(s)[i - 1])
  BY <1>1, <1>2, <1>4
<1>6. 1 \in DOMAIN s
  BY <1>2
<1>7. Range(s) \subseteq {Head(s)} \cup Range(Tail(s))
  BY <1>2, <1>5, ZenonT(40) DEF Range
<1>8. {Head(s)} \cup Range(Tail(s)) \subseteq Range(s)
  BY <1>1, <1>2, <1>3, <1>6 DEF Range
<1> QED
  BY <1>1, <1>2, <1>3, <1>6, <1>7, <1>8

\* A sequence with one more element.
LEMMA Appended ==
  ASSUME NEW S, NEW s \in Seq(S), NEW e \in S
  PROVE  /\ Append(s, e) \in Seq(S) /\ Len(Append(s, e)) = Len(s) + 1 /\ Len(s) \in Nat
         /\ DOMAIN s = 1..Len(s) /\ DOMAIN Append(s, e) = 1..(Len(s) + 1)
         /\ Append(s, e)[Len(s) + 1] = e /\ \A i \in 1..Len(s) : Append(s, e)[i] = s[i]
         /\ \A i \in DOMAIN Append(s, e) : i \in DOMAIN s \/ i = Len(s) + 1
<1>1. /\ Append(s, e) \in Seq(S) /\ Len(Append(s, e)) = Len(s) + 1
      /\ Append(s, e)[Len(s) + 1] = e /\ \A i \in 1..Len(s) : Append(s, e)[i] = s[i]
  BY AppendProperties
<1>2. Len(s) \in Nat /\ DOMAIN s = 1..Len(s) /\ DOMAIN Append(s, e) = 1..(Len(s) + 1)
  BY <1>1, LenProperties
<1> QED
  BY <1>1, <1>2

\* The elements of two sequences one after the other.
LEMMA Joined ==
  ASSUME NEW S, NEW s \in Seq(S), NEW t \in Seq(S)
  PROVE  /\ s \o t \in Seq(S) /\ Range(s \o t) = Range(s) \cup Range(t)
         /\ \A i \in DOMAIN (s \o t) :
              \/ i \in DOMAIN s /\ (s \o t)[i] = s[i]
              \/ i - Len(s) \in DOMAIN t /\ (s \o t)[i] = t[i - Len(s)] /\ i > Len(s)
         /\ \A i \in DOMAIN s : i <= Len(s) /\ i \in Nat
         /\ Len(s) \in Nat
<1>1. /\ s \o t \in Seq(S) /\ Len(s \o t) = Len(s) + Len(t)
      /\ \A i \in 1..(Len(s) + Len(t)) : (s \o t)[i] = IF i <= Len(s) THEN s[i] ELSE t[i - Len(s)]
  BY ConcatProperties
<1>2. /\ Len(s) \in Nat /\ Len(t) \in Nat /\ DOMAIN s = 1..Len(s) /\ DOMAIN t = 1..Len(t)
      /\ DOMAIN (s \o t) = 1..(Len(s) + Len(t))
  BY <1>1, LenProperties
<1> QED
  BY <1>1, <1>2, RangeConcatenation

\* A sequence of one.
LEMMA FewNotices ==
  ASSUME NEW S, NEW x \in S
  PROVE  /\ <<x>> \in Seq(S) /\ DOMAIN <<x>> = {1} /\ Range(<<x>>) = {x}
<1>1. DOMAIN <<x>> = 1..1 /\ <<x>>[1] = x /\ <<x>> \in Seq(S)
  OBVIOUS
<1>2. 1..1 = {1}
  OBVIOUS
<1> QED
  BY <1>1, <1>2 DEF Range

\* A sequence of none.
LEMMA NoNotices == ASSUME NEW S PROVE <<>> \in Seq(S) /\ Range(<<>>) = {}
<1>1. DOMAIN <<>> = {}
  OBVIOUS
<1> QED
  BY <1>1 DEF Range

-----------------------------------------------------------------------------
(* Versions of an object, and the records of them.                         *)

\* The versions of an object.
LEMMA States ==
  ASSUME TypeOK, Typed, NEW o \in Objects
  PROVE  /\ Len(history[o]) \in Nat /\ DOMAIN history[o] = 1..Len(history[o])
         /\ seen[o] \in Nat /\ seen[o] <= Len(history[o])
         /\ seen[o] > 0 => seen[o] \in DOMAIN history[o]
         /\ \A v \in DOMAIN history[o] :
              /\ v \in Nat /\ v >= 1
              /\ history[o][v] # "gone" => Conditions[history[o][v]] \in Seq(STRING)
<1>1. history[o] \in Seq(Range(Life(o)) \cup {"gone"})
  BY DEF TypeOK, Typed
<1>2. \A v \in DOMAIN history[o] : history[o][v] \in Range(Life(o)) \cup {"gone"}
  BY <1>1
<1>3. Range(Life(o)) \subseteq Range(PodStates) \cup Range(NodeStates)
  BY DEF Life
<1>4. /\ Len(history[o]) \in Nat /\ DOMAIN history[o] = 1..Len(history[o])
      /\ seen[o] \in 0..Len(history[o])
  BY <1>1 DEF TypeOK
<1> QED
  BY <1>2, <1>3, <1>4, ObjectsAssumption

\* What the store has is the last version seen, unless the object is gone for it.
LEMMA StoredIsSeen ==
  ASSUME TypeOK, Typed, GoneIsLast, NEW o \in Objects
  PROVE  /\ Stored(o) # 0 => /\ Stored(o) = seen[o] /\ Stored(o) \in DOMAIN history[o]
                             /\ history[o][Stored(o)] # "gone" /\ seen[o] > 0
         /\ Stored(o) = 0 /\ seen[o] < Len(history[o]) => seen[o] = 0
         /\ Stored(o) \in Nat
         /\ \A v \in DOMAIN history[o] :
              history[o][v] = "gone" /\ v = seen[o] + 1 => Stored(o) = seen[o] /\ Stored(o) # 0
<1>1. /\ Len(history[o]) \in Nat /\ seen[o] \in Nat /\ DOMAIN history[o] = 1..Len(history[o])
      /\ seen[o] <= Len(history[o])
  BY States
<1>2. \A v \in DOMAIN history[o] : history[o][v] = "gone" => v = Len(history[o]) /\ v > 1
  BY DEF GoneIsLast
<1> QED
  BY <1>1, <1>2 DEF Stored

\* The records saved of a version: all of it, and none of a pending pod.
LEMMA SaveIs ==
  ASSUME TypeOK, Typed, NEW o \in Objects, NEW v \in DOMAIN history[o], history[o][v] # "gone"
  PROVE  /\ Save(o, v) \in Seq(Datum)
         /\ \A r \in Range(Save(o, v)) : r.object = o /\ r.version = v
         /\ history[o][v] = "Pending" <=> Range(Save(o, v)) = {}
<1> DEFINE state == history[o][v]
           phase == <<Record(o, v, "phase")>>
           conditions == [i \in DOMAIN Conditions[state] |-> Record(o, v, Conditions[state][i])]
<1>1. v \in Nat /\ Conditions[state] \in Seq(STRING)
  BY States
<1>2. \A e \in Event : /\ Record(o, v, e) \in Datum
                       /\ Record(o, v, e).object = o /\ Record(o, v, e).version = v
  BY <1>1 DEF Record, Datum
<1>3. conditions \in Seq(Datum) /\ \A r \in Range(conditions) : r.object = o /\ r.version = v
  <2> DEFINE C == Conditions[state]
             f(i) == Record(o, v, C[i])
  <2>1. Len(C) \in Nat /\ DOMAIN C = 1..Len(C) /\ \A i \in 1..Len(C) : C[i] \in STRING
    BY <1>1
  <2>2. \A i \in 1..Len(C) : f(i) \in Datum /\ f(i).object = o /\ f(i).version = v
    BY <1>2, <2>1 DEF Event
  <2>3. conditions = [i \in 1..Len(C) |-> f(i)]
    BY <2>1
  <2> HIDE DEF f, C, conditions
  <2>4. conditions \in [1..Len(C) -> Datum]
    BY <2>2, <2>3
  <2> QED
    BY <2>1, <2>2, <2>3, <2>4, SeqDef DEF Range
<1>4. phase \in Seq(Datum) /\ Range(phase) = {Record(o, v, "phase")}
  <2>1. Record(o, v, "phase") \in Datum
    BY <1>2 DEF Event
  <2> QED
    BY <2>1, FewNotices
<1> HIDE DEF state, phase, conditions
<1>5. phase \o conditions \in Seq(Datum) /\ Range(phase \o conditions) = Range(phase) \cup Range(conditions)
  BY <1>3, <1>4, RangeConcatenation, ConcatProperties
<1>6. Save(o, v) = IF state = "Pending" THEN <<>> ELSE phase \o conditions
  BY DEF Save, state, phase, conditions
<1>7. Range(<<>>) = {} /\ <<>> \in Seq(Datum)
  BY NoNotices
<1>8. \A r \in Range(phase \o conditions) : r.object = o /\ r.version = v
  <2>1. /\ Record(o, v, "phase").object = o
        /\ Record(o, v, "phase").version = v
    BY DEF Record
  <2> QED
    BY <1>3, <1>4, <1>5, <2>1
<1>9. Range(phase \o conditions) # {}
  BY <1>4, <1>5
<1> QED
  BY <1>5, <1>6, <1>7, <1>8, <1>9 DEF state

\* A notification that the handlers can take, and what they save of it.
Valid(n) ==
  /\ n.old \in DOMAIN history[n.object] /\ history[n.object][n.old] # "gone"
  /\ n.new \in DOMAIN history[n.object] /\ history[n.object][n.new] # "gone"
  /\ n.old <= n.new

\* The records that a notification leads to, in the order of their versions.
LEMMA RecordsAre ==
  ASSUME TypeOK, Typed, NEW n \in Notice, n.endpoint # "Unknown", Valid(n)
  PROVE  /\ Records(n) \in Seq(Datum)
         /\ \A r \in Range(Records(n)) :
              /\ r.object = n.object /\ r.version \in {n.old, n.new} /\ Worthy(n.object, r.version)
         /\ \A i, j \in DOMAIN Records(n) : i < j => Records(n)[i].version <= Records(n)[j].version
         /\ Worthy(n.object, n.new) => \E r \in Range(Records(n)) : r.version = n.new
<1> DEFINE o == n.object
           s == Save(o, n.old)
           t == Save(o, n.new)
<1>1. o \in Objects
  BY DEF Notice
<1>2. /\ n.old \in DOMAIN history[o] /\ history[o][n.old] # "gone"
      /\ n.new \in DOMAIN history[o] /\ history[o][n.new] # "gone"
      /\ n.old <= n.new /\ n.old \in Nat /\ n.new \in Nat
  BY <1>1, States DEF Valid
<1>3. /\ s \in Seq(Datum) /\ \A r \in Range(s) : r.object = o /\ r.version = n.old
      /\ history[o][n.old] = "Pending" <=> Range(s) = {}
  BY <1>1, <1>2, SaveIs
<1>4. /\ t \in Seq(Datum) /\ \A r \in Range(t) : r.object = o /\ r.version = n.new
      /\ history[o][n.new] = "Pending" <=> Range(t) = {}
  BY <1>1, <1>2, SaveIs
<1>5. Records(n) = IF o \in System THEN <<>>
                   ELSE IF n.endpoint = "Update" /\ o \in Pods THEN s \o t ELSE t
  BY DEF Records
<1> HIDE DEF s, t
<1>6. CASE o \in System
  BY <1>5, <1>6, NoNotices DEF Worthy
<1>7. CASE o \notin System /\ Records(n) = t
  <2>1. \A i \in DOMAIN t : t[i] \in Range(t)
    BY DEF Range
  <2> QED
    BY <1>2, <1>4, <1>7, <2>1 DEF Worthy
<1>8. CASE o \notin System /\ Records(n) = s \o t
  <2>1. /\ s \o t \in Seq(Datum) /\ Range(s \o t) = Range(s) \cup Range(t)
        /\ \A i \in DOMAIN (s \o t) :
              \/ i \in DOMAIN s /\ (s \o t)[i] = s[i]
              \/ i - Len(s) \in DOMAIN t /\ (s \o t)[i] = t[i - Len(s)] /\ i > Len(s)
        /\ \A i \in DOMAIN s : i <= Len(s) /\ i \in Nat
        /\ Len(s) \in Nat
    BY <1>3, <1>4, Joined
  <2>2. \A i \in DOMAIN (s \o t) : i \in Nat
    BY <2>1
  <2>3. (\A i \in DOMAIN s : s[i] \in Range(s)) /\ \A i \in DOMAIN t : t[i] \in Range(t)
    BY DEF Range
  <2>4. ASSUME NEW i \in DOMAIN (s \o t), NEW j \in DOMAIN (s \o t), i < j
        PROVE  (s \o t)[i].version <= (s \o t)[j].version
    <3>1. i <= Len(s) => (s \o t)[i].version = n.old
      BY <1>3, <2>1, <2>3
    <3>2. j > Len(s) => (s \o t)[j].version = n.new
      BY <1>4, <2>1, <2>3
    <3>3. i > Len(s) => (s \o t)[i].version = n.new
      BY <1>4, <2>1, <2>3
    <3>4. j <= Len(s) => (s \o t)[j].version = n.old
      BY <1>3, <2>1, <2>3
    <3> QED
      BY <1>2, <2>1, <2>2, <2>4, <3>1, <3>2, <3>3, <3>4
  <2> QED
    BY <1>2, <1>3, <1>4, <1>8, <2>1, <2>4 DEF Worthy
<1> QED
  BY <1>5, <1>6, <1>7, <1>8

-----------------------------------------------------------------------------
(* The cluster, the life of the process, and a first list.                 *)

\* What is known of an object stays so when nothing about it changes.
Same(o) ==
  /\ history' = history /\ seen'[o] = seen[o] /\ log'[o] = log[o]
  /\ lost'[o] = lost[o] /\ latest'[o] = latest[o]
  /\ Saving(o)' = Saving(o) /\ Notices(o)' = Notices(o)
  /\ KindOf(o) \in listed' <=> KindOf(o) \in listed
  /\ KindOf(o) \in registered' <=> KindOf(o) \in registered

\* An object that a step does not touch keeps its order and has no new gap.
LEMMA SameObject ==
  ASSUME NEW o \in Objects, Same(o)
  PROVE  (Ordered(o) => Ordered(o)') /\ (Gapless(o) => Gapless(o)')
<1>1. Given(o)' = Given(o) /\ Stored(o)' = Stored(o)
  BY DEF Same, Given, Saved, Missed, Stored
<1>2. Noted(o)' = Noted(o)
  BY <1>1 DEF Same, Noted
<1>3. Ordered(o) => Ordered(o)'
  BY <1>1 DEF Same, Ordered
<1>4. Gapless(o) => Gapless(o)'
  BY <1>1, <1>2 DEF Same, Gapless, Worthy
<1> QED
  BY <1>3, <1>4

\* A change of an object on the API server keeps the invariant.
LEMMA ClusterStep == ASSUME WatchInv, NEW o \in Objects, Cluster(o) PROVE WatchInv'
<1>1. /\ TypeOK /\ Typed /\ GoneIsLast
      /\ UNCHANGED <<seen, listed, registered, queue, writing, call, handle, closed, log, latest, lost, up, lapses>>
  BY DEF WatchInv, Cluster, Progress, Delete, informers, logger, file
<1>2. PICK s : /\ history' = [history EXCEPT ![o] = Append(@, s)]
               /\ s \in Range(Life(o)) \cup {"gone"} /\ s \in STRING \cup {"gone"}
               /\ s = "gone" => history[o] # <<>>
               /\ ~Gone(o)
  <2>1. CASE Delete(o)
    BY <2>1 DEF Delete
  <2>2. CASE Progress(o)
    <3> DEFINE n == Len(history[o]) + 1
    <3>1. Life(o) \in Seq(STRING) /\ Len(history[o]) \in Nat
      BY <1>1, States, ObjectsAssumption DEF Life
    <3>2. n \in DOMAIN Life(o)
      BY <2>2, <3>1, LenProperties DEF Progress
    <3>3. Life(o)[n] \in Range(Life(o)) /\ Life(o)[n] \in STRING
      BY <3>1, <3>2 DEF Range
    <3>4. Life(o)[n] # "gone"
      BY <3>3, ObjectsAssumption DEF Life
    <3>5. /\ history' = [history EXCEPT ![o] = Append(@, Life(o)[Len(@) + 1])] /\ ~Gone(o)
      BY <2>2 DEF Progress
    <3> QED
      BY <3>3, <3>4, <3>5
  <2> QED
    BY <2>1, <2>2 DEF Cluster

<1>3. /\ history[o] \in Seq(Range(Life(o)) \cup {"gone"}) /\ history[o] \in Seq(STRING \cup {"gone"})
      /\ history \in [Objects -> Seq(STRING \cup {"gone"})]
  BY <1>1 DEF TypeOK, Typed
<1>4. /\ history'[o] \in Seq(Range(Life(o)) \cup {"gone"}) /\ history'[o] \in Seq(STRING \cup {"gone"})
      /\ Len(history[o]) \in Nat /\ Len(history'[o]) = Len(history[o]) + 1
      /\ DOMAIN history[o] = 1..Len(history[o]) /\ DOMAIN history'[o] = 1..(Len(history[o]) + 1)
      /\ history'[o][Len(history[o]) + 1] = s /\ \A i \in 1..Len(history[o]) : history'[o][i] = history[o][i]
  <2>1. history'[o] = Append(history[o], s)
    BY <1>2, <1>3
  <2> QED
    BY <1>2, <1>3, <2>1, Appended
<1>5. \A q \in Objects \ {o} : history'[q] = history[q]
  BY <1>2, <1>3
<1>6. ASSUME NEW q \in Objects
      PROVE  /\ Len(history[q]) \in Nat /\ Len(history'[q]) \in Nat /\ Len(history[q]) <= Len(history'[q])
             /\ DOMAIN history[q] = 1..Len(history[q]) /\ DOMAIN history'[q] = 1..Len(history'[q])
             /\ DOMAIN history[q] \subseteq DOMAIN history'[q]
             /\ \A i \in DOMAIN history[q] : i \in Nat /\ i >= 1 /\ history'[q][i] = history[q][i]
             /\ seen[q] \in Nat /\ seen[q] <= Len(history[q])
             /\ seen[q] > 0 => seen[q] \in DOMAIN history[q]
  BY <1>1, <1>4, <1>5, States, SMTT(40)
<1>7. TypeOK' /\ Typed'
  <2>1. \A q \in Objects : history'[q] \in Seq(Range(Life(q)) \cup {"gone"})
    BY <1>1, <1>4, <1>5 DEF TypeOK
  <2>2. \A q \in Objects : seen[q] \in 0..Len(history'[q])
    BY <1>6
  <2>3. history' \in [Objects -> Seq(STRING \cup {"gone"})]
    BY <1>2, <1>3, <1>4
  <2>4. \A q \in Objects : \A r \in log[q] \cup lost[q] : r.version \in DOMAIN history'[q]
    BY <1>1, <1>6 DEF TypeOK
  <2> QED
    BY <1>1, <2>1, <2>2, <2>3, <2>4 DEF TypeOK, Typed, Free
<1>8. GoneIsLast'
  <2>1. ASSUME NEW v \in DOMAIN history'[o], history'[o][v] = "gone"
        PROVE  v = Len(history'[o]) /\ v > 1
    <3>1. CASE v \in DOMAIN history[o]
      <4>1. history[o][v] = "gone" /\ v = Len(history[o])
        BY <1>1, <1>6, <2>1, <3>1 DEF GoneIsLast
      <4>2. Gone(o)
        BY <1>6, <3>1, <4>1, EmptySeq DEF Gone, Last
      <4> QED
        BY <1>2, <4>2
    <3>2. CASE v = Len(history[o]) + 1
      <4>1. history[o] # <<>> => Len(history[o]) # 0
        BY <1>3, EmptySeq
      <4> QED
        BY <1>2, <1>4, <2>1, <3>2, <4>1
    <3> QED
      BY <1>4, <3>1, <3>2
  <2> QED
    BY <1>1, <1>5, <2>1 DEF GoneIsLast
<1>9. ASSUME NEW q \in Objects
      PROVE  /\ Given(q)' = Given(q) /\ Saving(q)' = Saving(q) /\ Notices(q)' = Notices(q)
             /\ Noted(q)' = Noted(q) /\ Stored(q)' = Stored(q)
             /\ \A u \in DOMAIN history[q] : Worthy(q, u)' <=> Worthy(q, u)
  <2>1. Given(q)' = Given(q) /\ Saving(q)' = Saving(q) /\ Notices(q)' = Notices(q)
    BY <1>1 DEF Given, Saved, Missed, Saving, Notices
  <2>2. Stored(q)' = Stored(q)
    BY <1>1, <1>6 DEF Stored
  <2> QED
    BY <1>6, <2>1, <2>2 DEF Noted, Worthy
<1>10. InOrder'
  BY <1>1, <1>6, <1>9 DEF WatchInv, InOrder, Ordered
<1>11. Complete'
  <2>1. ASSUME NEW q \in Objects, Gapless(q) PROVE Gapless(q)'
    <3>1. Ordered(q)
      BY DEF WatchInv, InOrder
    <3>2. ASSUME NEW v \in Noted(q) \cup {n.old : n \in Notices(q)}, NEW u \in v..seen[q], Worthy(q, u)'
          PROVE  u \in Noted(q)
      <4>1. v \in DOMAIN history[q]
        BY <3>1, <3>2 DEF Ordered, Noted
      <4>2. u \in DOMAIN history[q]
        BY <1>6, <3>2, <4>1
      <4> QED
        BY <1>9, <2>1, <3>2, <4>2 DEF Gapless
    <3>3. Stored(q) # 0 /\ Worthy(q, Stored(q))' => Worthy(q, Stored(q))
      BY <1>1, <1>9, StoredIsSeen
    <3> QED
      BY <1>1, <1>9, <2>1, <3>2, <3>3 DEF Gapless
  <2> QED
    BY <1>1, <2>1 DEF WatchInv, Complete
<1> QED
  BY <1>1, <1>7, <1>8, <1>10, <1>11
     DEF WatchInv, OwnKind, KindOf, WritingInOrder, QueueInOrder, Follows

\* A process that died has only the log, and something had gone wrong.
LEMMA DieStep ==
  ASSUME WatchInv, Die, UNCHANGED <<history, log, latest, lost>>, lapses' \in 0..MaxLapses, lapses' # 0
  PROVE  WatchInv'
<1>1. /\ TypeOK /\ Typed /\ up' = FALSE /\ seen' = [o \in Objects |-> 0]
      /\ listed' = {} /\ registered' = {}
      /\ queue' = [k \in Kinds |-> <<>>] /\ writing' = [k \in Kinds |-> <<>>]
      /\ call' = [k \in Kinds |-> "none"] /\ handle' = "none" /\ closed' = {}
      /\ history' = history /\ UNCHANGED <<log, latest, lost>>
  BY DEF WatchInv, Die
<1>2. \A o \in Objects : Len(history[o]) \in Nat
  BY <1>1, States
<1>3. <<>> \in Seq(Notice) /\ <<>> \in Seq(Datum) /\ Range(<<>>) = {} /\ DOMAIN <<>> = {}
  BY NoNotices
<1>4. TypeOK' /\ Typed'
  <2>1. \A o \in Objects : seen'[o] \in 0..Len(history[o])
    BY <1>1, <1>2
  <2>2. TypeOK'
    BY <1>1, <2>1 DEF TypeOK, Free
  <2>3. /\ seen' \in [Objects -> Nat] /\ queue' \in [Kinds -> Seq(Notice)]
        /\ writing' \in [Kinds -> Seq(Datum)]
    BY <1>1, <1>3
  <2> QED
    BY <1>1, <2>2, <2>3 DEF Typed
<1>5. GoneIsLast'
  BY <1>1 DEF WatchInv, GoneIsLast
<1>6. OwnKind' /\ WritingInOrder' /\ QueueInOrder'
  BY <1>1, <1>3 DEF OwnKind, WritingInOrder, QueueInOrder
<1>7. InOrder'
  <2>1. ASSUME NEW o \in Objects PROVE Saving(o)' = {} /\ Notices(o)' = {} /\ Given(o)' = Given(o)
    BY <1>1, <1>3, KindsOf DEF Saving, Notices, Given, Saved, Missed
  <2> QED
    BY <1>1, <2>1 DEF WatchInv, InOrder, Ordered
<1>8. Complete'
  BY DEF Complete
<1> QED
  BY <1>4, <1>5, <1>6, <1>7, <1>8 DEF WatchInv

\* An unknown final state, a kill and a restart keep it.
LEMMA LifeStep == ASSUME WatchInv, (\E k \in Kinds : HandleUnknown(k)) \/ Killed \/ Restart PROVE WatchInv'
<1>1. lapses \in 0..MaxLapses /\ MaxLapses \in Nat
  BY ObjectsAssumption DEF WatchInv, TypeOK
<1>2. ASSUME NEW k \in Kinds, HandleUnknown(k) PROVE WatchInv'
  <2>1. /\ queue[k] # <<>> /\ Head(queue[k]).endpoint = "Unknown" /\ Die
        /\ UNCHANGED <<history, log, latest, lost, lapses>>
    BY <1>2 DEF HandleUnknown, file
  <2>2. 1 \in DOMAIN queue[k] /\ queue[k][1].endpoint = "Unknown"
    BY <2>1, Heads DEF WatchInv, Typed
  <2>3. lapses # 0
    BY <2>2 DEF WatchInv, Complete
  <2> QED
    BY <1>1, <2>1, <2>3, DieStep
<1>3. CASE Killed
  BY <1>1, <1>3, DieStep DEF Killed, Lapse, file
<1>4. CASE Restart
  <2>1. /\ ~up /\ up' = TRUE
        /\ UNCHANGED <<history, seen, listed, registered, queue, writing, call, handle, closed, log, latest, lost, lapses>>
    BY <1>4 DEF Restart, informers, logger, file
  <2>2. InOrder'
    BY <2>1, SameObject DEF WatchInv, InOrder, Same, Saving, Notices
  <2>3. Complete'
    BY <2>1 DEF WatchInv, Complete
  <2> QED
    BY <2>1, <2>2, <2>3 DEF WatchInv, TypeOK, Typed, Free, GoneIsLast, OwnKind, KindOf, WritingInOrder,
                            QueueInOrder, Follows
<1> QED
  BY <1>2, <1>3, <1>4

\* Listing a kind keeps it.
LEMMA ListStep == ASSUME WatchInv, NEW k \in Kinds, List(k) PROVE WatchInv'
<1>1. /\ TypeOK /\ Typed /\ k \notin listed /\ listed' = listed \cup {k}
      /\ seen' = [o \in Objects |-> IF o \in OfKind(k) THEN Len(history[o]) ELSE seen[o]]
      /\ UNCHANGED <<history, registered, queue, writing, call, handle, closed, log, latest, lost, up, lapses>>
  BY DEF WatchInv, List, logger, file
<1>2. k \notin registered /\ queue[k] = <<>> /\ writing[k] = <<>>
  BY <1>1 DEF TypeOK, Free
<1>3. \A o \in Objects : /\ Len(history[o]) \in Nat /\ DOMAIN history[o] = 1..Len(history[o])
                         /\ seen[o] \in Nat /\ seen[o] <= Len(history[o])
  BY <1>1, States
<1>4. TypeOK' /\ Typed'
  <2>1. \A o \in Objects : seen'[o] \in 0..Len(history[o])
    BY <1>1, <1>3
  <2>2. TypeOK'
    BY <1>1, <2>1 DEF TypeOK, Free
  <2>3. seen' \in [Objects -> Nat]
    BY <1>1, <1>3
  <2> QED
    BY <1>1, <2>2, <2>3 DEF Typed
<1>5. ASSUME NEW o \in Objects, KindOf(o) = k
      PROVE  Ordered(o)' /\ (lapses = 0 => Gapless(o)')
  <2>1. seen'[o] = Len(history[o])
    BY <1>1, <1>5, KindsOf
  <2>2. Saving(o)' = {} /\ Notices(o)' = {} /\ Given(o)' = Given(o)
    BY <1>1, <1>2, <1>5, NoNotices DEF Saving, Notices, Given, Saved, Missed, KindOf
  <2>3. Ordered(o)'
    BY <1>1, <1>3, <2>1, <2>2 DEF WatchInv, InOrder, Ordered
  <2>4. ASSUME lapses = 0 PROVE Gapless(o)'
    <3>1. Given(o) = {} /\ Noted(o)' = {}
      <4>1. Given(o) = {}
        BY <1>2, <1>5, <2>4 DEF WatchInv, Complete, Gapless
      <4> QED
        BY <1>1, <2>2, <4>1 DEF Noted, Given, Saved, Missed
    <3> QED
      BY <1>1, <1>2, <1>5, <2>2, <3>1 DEF Gapless, KindOf
  <2> QED
    BY <2>3, <2>4
<1>6. ASSUME NEW o \in Objects, KindOf(o) # k PROVE Same(o)
  <2>1. seen'[o] = seen[o]
    BY <1>1, <1>6, KindsOf
  <2> QED
    BY <1>1, <1>6, <2>1 DEF Same, Saving, Notices, KindOf
<1>7. InOrder'
  BY <1>5, <1>6, SameObject DEF WatchInv, InOrder
<1>8. Complete'
  BY <1>1, <1>5, <1>6, SameObject DEF WatchInv, Complete
<1> QED
  BY <1>1, <1>4, <1>7, <1>8 DEF WatchInv, GoneIsLast, OwnKind, KindOf, WritingInOrder, QueueInOrder,
                                Follows

-----------------------------------------------------------------------------
(* Notifications.                                                          *)

\* The objects of a set, one after the other, each of them once.
LEMMA OrderIs ==
  ASSUME NEW S \in SUBSET Objects, NEW order \in SetToSeqs(S)
  PROVE  \E m \in Nat : /\ order \in [1..m -> S] /\ DOMAIN order = 1..m
                        /\ \A o \in S : \E i \in 1..m : order[i] = o
<1> DEFINE m == Cardinality(S)
<1>1. IsFiniteSet(S) /\ m \in Nat
  BY ObjectsAssumption, FS_Subset, FS_CardinalityType
<1>2. order \in [1..m -> S] /\ \A i, j \in 1..m : i # j => order[i] # order[j]
  BY DEF SetToSeqs
<1>3. order \in Injection(1..m, S)
  BY <1>2 DEF Injection, IsInjective
<1>4. Cardinality(1..m) = m
  BY <1>1, FS_Interval
<1>5. order \in Surjection(1..m, S)
  BY <1>1, <1>3, <1>4, FS_Injection
<1> QED
  BY <1>1, <1>2, <1>5 DEF Surjection

\* One notification for each of them, about the version in the store.
LEMMA AboutStored ==
  ASSUME TypeOK, Typed, GoneIsLast, NEW k \in Kinds,
         NEW order \in SetToSeqs({o \in OfKind(k) : Stored(o) # 0}),
         NEW endpoint \in Endpoint,
         NEW ns, ns = [i \in DOMAIN order |-> [endpoint |-> endpoint, object |-> order[i],
                                               old |-> Stored(order[i]), new |-> Stored(order[i])]]
  PROVE  /\ ns \in Seq(Notice)
         /\ \A n \in Range(ns) :
              /\ KindOf(n.object) = k /\ n.endpoint # "Unknown" /\ Valid(n)
              /\ n.old = Stored(n.object) /\ n.new = Stored(n.object) /\ Stored(n.object) # 0
         /\ \A o \in OfKind(k) : Stored(o) # 0 =>
              \E n \in Range(ns) : n.object = o /\ n.new = Stored(o)
         /\ \A i, j \in DOMAIN ns : Follows(ns[i], ns[j])
<1> DEFINE S == {o \in OfKind(k) : Stored(o) # 0}
           f(o) == [endpoint |-> endpoint, object |-> o, old |-> Stored(o), new |-> Stored(o)]
<1>1. S \in SUBSET Objects /\ \A o \in S : KindOf(o) = k /\ Stored(o) # 0
  BY KindsOf
<1>2. PICK m \in Nat : /\ order \in [1..m -> S] /\ DOMAIN order = 1..m
                       /\ \A o \in S : \E i \in 1..m : order[i] = o
  BY <1>1, OrderIs
<1>3. \A o \in S :
        /\ f(o) \in Notice /\ f(o).object = o /\ f(o).endpoint # "Unknown"
        /\ f(o).old = Stored(o) /\ f(o).new = Stored(o)
        /\ Valid(f(o))
  <2>1. ASSUME NEW o \in S
        PROVE  /\ f(o) \in Notice /\ f(o).object = o /\ f(o).endpoint # "Unknown"
               /\ f(o).old = Stored(o) /\ f(o).new = Stored(o)
    BY <1>1, StoredIsSeen DEF Notice, Endpoint
  <2>2. ASSUME NEW o \in S PROVE Valid(f(o))
    BY <1>1, <2>1, StoredIsSeen DEF Valid
  <2> QED
    BY <2>1, <2>2
<1>4. ns = [i \in 1..m |-> f(order[i])]
  BY <1>2
<1> HIDE DEF S, f
<1>5. ns \in [1..m -> Notice]
  BY <1>2, <1>3, <1>4
<1>6. ns \in Seq(Notice) /\ DOMAIN ns = 1..m
  BY <1>5, SeqDef
<1>7. Range(ns) = {f(o) : o \in S}
  BY <1>2, <1>4, <1>6 DEF Range
<1>8. \A i, j \in DOMAIN ns : Follows(ns[i], ns[j])
  <2>1. \A i \in 1..m : order[i] \in S /\ ns[i] = f(order[i])
    BY <1>2, <1>4
  <2>2. \A o \in S : Stored(o) <= Stored(o)
    BY <1>1, StoredIsSeen
  <2> QED
    BY <1>3, <1>6, <2>1, <2>2 DEF Follows
<1> QED
  BY <1>1, <1>3, <1>6, <1>7, <1>8 DEF S

\* Registering the handlers of a kind keeps it.
LEMMA RegisterStep == ASSUME WatchInv, NEW k \in Kinds, Register(k) PROVE WatchInv'
<1>1. /\ TypeOK /\ Typed /\ GoneIsLast /\ listed = Kinds /\ k \notin registered
      /\ registered' = registered \cup {k}
      /\ queue[k] = <<>> /\ writing[k] = <<>>
      /\ UNCHANGED <<history, seen, listed, writing, call, handle, closed, log, latest, lost, up, lapses>>
  BY DEF WatchInv, Register, TypeOK, Free, logger, file
<1>2. PICK order \in SetToSeqs({o \in OfKind(k) : Stored(o) # 0}) :
        queue' = [queue EXCEPT ![k] = [i \in DOMAIN order |-> Add(order[i], Stored(order[i]))]]
  BY DEF Register
<1> DEFINE ns == [i \in DOMAIN order |-> Add(order[i], Stored(order[i]))]
<1>3. /\ ns \in Seq(Notice)
      /\ \A n \in Range(ns) :
           /\ KindOf(n.object) = k /\ n.endpoint # "Unknown" /\ Valid(n)
           /\ n.old = Stored(n.object) /\ n.new = Stored(n.object) /\ Stored(n.object) # 0
      /\ \A o \in OfKind(k) : Stored(o) # 0 => \E n \in Range(ns) : n.object = o /\ n.new = Stored(o)
      /\ \A i, j \in DOMAIN ns : Follows(ns[i], ns[j])
  <2>1. ns = [i \in DOMAIN order |-> [endpoint |-> "Add", object |-> order[i],
                                      old |-> Stored(order[i]), new |-> Stored(order[i])]]
    BY DEF Add
  <2>2. "Add" \in Endpoint
    BY DEF Endpoint
  <2> HIDE DEF ns
  <2> QED
    BY <1>1, <2>1, <2>2, AboutStored, SMTT(40)
<1> HIDE DEF ns
<1>4. /\ queue' \in [Kinds -> Seq(Notice)] /\ queue'[k] = ns
      /\ \A l \in Kinds \ {k} : queue'[l] = queue[l]
  BY <1>1, <1>2, <1>3 DEF Typed, ns
<1>5. \A i \in DOMAIN ns : ns[i] \in Range(ns)
  BY DEF Range
<1>6. ASSUME NEW o \in Objects, KindOf(o) = k
      PROVE  Ordered(o)' /\ (lapses = 0 => Gapless(o)')
  <2>1. /\ Saving(o)' = {} /\ Given(o)' = Given(o) /\ Stored(o)' = Stored(o)
        /\ Notices(o)' \subseteq {n \in Range(ns) : n.object = o}
        /\ Stored(o) # 0 => \E n \in Notices(o)' : n.new = Stored(o)
    <3>1. Saving(o)' = {}
      BY <1>1, <1>6, NoNotices DEF Saving, KindOf
    <3>2. Notices(o)' = {n \in Range(ns) : n.object = o /\ n.endpoint # "Unknown"}
      BY <1>4, <1>6 DEF Notices, KindOf
    <3>3. o \in OfKind(k)
      BY <1>6, KindsOf
    <3>4. Given(o)' = Given(o) /\ Stored(o)' = Stored(o)
      BY <1>1 DEF Given, Saved, Missed, Stored
    <3> QED
      BY <1>3, <3>1, <3>2, <3>3, <3>4
  <2>2. Stored(o) # 0 => /\ Stored(o) = seen[o] /\ Stored(o) \in DOMAIN history[o] /\ seen[o] \in Nat
                         /\ history[o][Stored(o)] # "gone"
    BY <1>1, StoredIsSeen, States
  <2>3. \A n \in Notices(o)' : n.old = Stored(o) /\ n.new = Stored(o) /\ Stored(o) # 0
    BY <1>3, <2>1
  <2>4. Ordered(o)'
    BY <1>1, <2>1, <2>2, <2>3, KindsOf DEF WatchInv, InOrder, Ordered
  <2>5. ASSUME lapses = 0 PROVE Gapless(o)'
    <3>1. Given(o) = {}
      BY <1>1, <1>6, <2>5 DEF WatchInv, Complete, Gapless
    <3>2. Noted(o)' = {n.new : n \in Notices(o)'}
      BY <1>1, <2>1, <3>1 DEF Noted, Given, Saved, Missed
    <3>3. \A v \in Noted(o)' \cup {n.old : n \in Notices(o)'} : v = Stored(o) /\ Stored(o) # 0
      BY <2>3, <3>2
    <3>4. Stored(o) # 0 => Stored(o) \in Noted(o)' /\ \A u \in Stored(o)..seen[o] : u = Stored(o)
      BY <2>1, <2>2, <3>2
    <3> QED
      BY <1>1, <2>1, <3>1, <3>3, <3>4 DEF Gapless
  <2> QED
    BY <2>4, <2>5
<1>7. ASSUME NEW o \in Objects, KindOf(o) # k PROVE Same(o)
  BY <1>1, <1>4, <1>7, KindsOf DEF Same, Saving, Notices, KindOf
<1>8. InOrder'
  BY <1>6, <1>7, SameObject DEF WatchInv, InOrder
<1>9. Complete'
  <2>1. ASSUME lapses = 0, NEW l \in Kinds, NEW i \in DOMAIN queue'[l]
        PROVE  queue'[l][i].endpoint # "Unknown"
    BY <1>3, <1>4, <1>5, <2>1 DEF WatchInv, Complete
  <2> QED
    BY <1>1, <1>6, <1>7, <2>1, SameObject DEF WatchInv, Complete
<1>10. OwnKind' /\ QueueInOrder'
  <2>1. ASSUME NEW l \in Kinds, NEW i \in DOMAIN queue'[l] PROVE KindOf(queue'[l][i].object) = l
    BY <1>3, <1>4, <1>5, <2>1 DEF WatchInv, OwnKind
  <2>2. ASSUME NEW l \in Kinds, NEW i \in DOMAIN queue'[l], NEW j \in DOMAIN queue'[l], i < j
        PROVE  Follows(queue'[l][i], queue'[l][j])
    BY <1>3, <1>4, <2>2 DEF WatchInv, QueueInOrder
  <2> QED
    BY <1>1, <2>1, <2>2 DEF WatchInv, OwnKind, KindOf, QueueInOrder, Follows
<1>11. TypeOK' /\ Typed'
  BY <1>1, <1>4 DEF TypeOK, Typed, Free
<1> QED
  BY <1>1, <1>8, <1>9, <1>10, <1>11 DEF WatchInv, GoneIsLast, WritingInOrder

\* The handlers of an informer are told of versions after those they know, none ahead of
\* the store.
Told(k, ns) ==
  /\ k \in registered /\ queue' = [queue EXCEPT ![k] = @ \o ns] /\ ns \in Seq(Notice)
  /\ \A n \in Range(ns) :
       /\ KindOf(n.object) = k
       /\ n.endpoint # "Unknown" =>
            Valid(n) /\ seen[n.object] <= n.old /\ n.new <= seen'[n.object]
  /\ \A i, j \in DOMAIN ns : i < j => Follows(ns[i], ns[j])
SeenGrows ==
  /\ seen' \in [Objects -> Nat]
  /\ \A o \in Objects : seen[o] <= seen'[o] /\ seen'[o] <= Len(history[o])
  /\ UNCHANGED <<history, listed, registered, writing, call, handle, closed, log, latest, lost, up>>
  /\ lapses' \in 0..MaxLapses

\* An informer that moves on and tells its handlers keeps it.
LEMMA TellStep ==
  ASSUME WatchInv, NEW k \in Kinds, NEW ns, SeenGrows, Told(k, ns) \/ queue' = queue, Complete'
  PROVE  WatchInv'
<1> USE DEF SeenGrows
<1>1. TypeOK /\ Typed /\ queue \in [Kinds -> Seq(Notice)] /\ registered \subseteq listed
  BY DEF WatchInv, Typed, TypeOK
<1>2. \A o \in Objects : seen[o] \in Nat /\ Len(history[o]) \in Nat /\ DOMAIN history[o] = 1..Len(history[o])
  BY <1>1, States
<1>3. ASSUME Told(k, ns)
      PROVE  /\ queue' \in [Kinds -> Seq(Notice)] /\ queue'[k] = queue[k] \o ns
             /\ \A l \in Kinds \ {k} : queue'[l] = queue[l]
             /\ Range(queue'[k]) = Range(queue[k]) \cup Range(ns)
             /\ \A i \in DOMAIN queue'[k] :
                  \/ i \in DOMAIN queue[k] /\ queue'[k][i] = queue[k][i]
                  \/ /\ i - Len(queue[k]) \in DOMAIN ns /\ queue'[k][i] = ns[i - Len(queue[k])]
                     /\ i > Len(queue[k])
             /\ \A i \in DOMAIN queue[k] : i <= Len(queue[k]) /\ i \in Nat
             /\ Len(queue[k]) \in Nat
             /\ k \in listed
  <2>1. queue[k] \in Seq(Notice) /\ ns \in Seq(Notice)
    BY <1>1, <1>3 DEF Told
  <2>2. queue[k] \o ns \in Seq(Notice)
    BY <2>1, ConcatProperties
  <2>3. queue' \in [Kinds -> Seq(Notice)] /\ queue'[k] = queue[k] \o ns
    BY <1>1, <1>3, <2>2 DEF Told
  <2> QED
    BY <1>1, <1>3, <2>1, <2>3, Joined DEF Told
<1>4. \A i \in DOMAIN ns : ns[i] \in Range(ns)
  BY DEF Range
<1>5. TypeOK' /\ Typed'
  <2>1. queue' \in [Kinds -> Seq(Notice)]
    BY <1>1, <1>3
  <2>2. \A l \in Kinds \ registered : queue'[l] = queue[l]
    BY <1>3 DEF Told
  <2>3. \A o \in Objects : seen'[o] \in 0..Len(history[o])
    BY <1>2
  <2> QED
    BY <1>1, <2>1, <2>2, <2>3 DEF TypeOK, Typed, Free
<1>6. OwnKind' /\ QueueInOrder'
  <2>1. CASE queue' = queue
    BY <2>1 DEF WatchInv, OwnKind, KindOf, QueueInOrder, Follows
  <2>2. CASE Told(k, ns)
    <3>1. ASSUME NEW i \in DOMAIN queue'[k] PROVE KindOf(queue'[k][i].object) = k
      BY <1>3, <1>4, <2>2, <3>1 DEF WatchInv, OwnKind, Told
    <3>2. ASSUME NEW i \in DOMAIN queue'[k], NEW j \in DOMAIN queue'[k], i < j
          PROVE  Follows(queue'[k][i], queue'[k][j])
      <4>1. CASE i \in DOMAIN queue[k] /\ j \in DOMAIN queue[k]
        BY <1>3, <2>2, <3>2, <4>1 DEF WatchInv, QueueInOrder
      <4>2. CASE i \in DOMAIN queue[k] /\ j \notin DOMAIN queue[k]
        <5> DEFINE m == queue[k][i]
                   n == ns[j - Len(queue[k])]
        <5>1. /\ queue'[k][i] = m /\ queue'[k][j] = n /\ m \in Range(queue[k]) /\ n \in Range(ns)
              /\ m \in Notice /\ n \in Notice
          BY <1>1, <1>3, <1>4, <2>2, <3>2, <4>2, RangeOfSeq, SMTT(40) DEF Told, Range
        <5>2. ASSUME m.object = n.object, m.endpoint # "Unknown", n.endpoint # "Unknown"
              PROVE  m.new <= n.old
          <6>1. m.object \in Objects /\ KindOf(m.object) = k
            BY <4>2, <5>1 DEF Notice, WatchInv, OwnKind
          <6>2. m \in Notices(m.object)
            BY <5>1, <5>2, <6>1 DEF Notices
          <6>3. m.new <= seen[m.object] /\ seen[m.object] <= n.old
            BY <2>2, <5>1, <5>2, <6>1, <6>2 DEF WatchInv, InOrder, Ordered, Told
          <6> QED
            BY <1>2, <5>1, <6>1, <6>3, SMTT(40) DEF Notice
        <5> QED
          BY <5>1, <5>2 DEF Follows
      <4>3. CASE i \notin DOMAIN queue[k]
        <5>1. j \notin DOMAIN queue[k]
          BY <1>3, <2>2, <3>2, <4>3
        <5>2. i - Len(queue[k]) < j - Len(queue[k])
          BY <1>3, <2>2, <3>2, <4>3, <5>1, LenProperties
        <5> QED
          BY <1>3, <2>2, <3>2, <4>3, <5>1, <5>2 DEF Told
      <4> QED
        BY <4>1, <4>2, <4>3
    <3> QED
      BY <1>3, <2>2, <3>1, <3>2, ZenonT(40) DEF WatchInv, OwnKind, KindOf, QueueInOrder, Follows
  <2> QED
    BY <2>1, <2>2
<1>7. InOrder'
  <2>1. ASSUME NEW o \in Objects PROVE Ordered(o)'
    <3>1. Given(o)' = Given(o) /\ Saving(o)' = Saving(o) /\ Ordered(o)
      BY DEF Given, Saved, Missed, Saving, WatchInv, InOrder
    <3>2. \A n \in Notices(o)' : n \notin Notices(o) =>
            Valid(n) /\ n.object = o /\ seen[o] <= n.old /\ n.new <= seen'[o] /\ n \in Notice /\ KindOf(o) \in listed
      <4>1. CASE queue' = queue
        BY <4>1 DEF Notices
      <4>2. CASE Told(k, ns) /\ KindOf(o) = k
        BY <1>3, <4>2, RangeOfSeq DEF Notices, Told, KindOf
      <4>3. CASE Told(k, ns) /\ KindOf(o) # k
        BY <1>3, <4>3, KindsOf DEF Notices, KindOf
      <4> QED
        BY <4>1, <4>2, <4>3
    <3>3. ASSUME NEW n \in Notices(o)'
          PROVE  /\ n.old \in DOMAIN history[o] /\ history[o][n.old] # "gone"
                 /\ n.new \in DOMAIN history[o] /\ history[o][n.new] # "gone"
                 /\ n.old <= n.new /\ n.new <= seen'[o]
                 /\ \A v \in Given(o) \cup Saving(o) : v <= n.old
      <4>1. CASE n \in Notices(o)
        BY <1>2, <3>1, <4>1 DEF Ordered
      <4>2. CASE n \notin Notices(o)
        BY <1>2, <3>1, <3>2, <4>2, SMTT(40) DEF Ordered, Valid
      <4> QED
        BY <4>1, <4>2
    <3>4. \A v \in Given(o) \cup Saving(o) :
            v \in DOMAIN history[o] /\ (v <= seen[o] => v <= seen'[o])
      BY <1>2, <3>1 DEF Ordered
    <3> QED
      BY <3>1, <3>3, <3>4 DEF Ordered
  <2> QED
    BY <2>1 DEF InOrder
<1> QED
  BY <1>5, <1>6, <1>7 DEF WatchInv, GoneIsLast, WritingInOrder

\* A resync keeps it.
LEMMA ResyncStep == ASSUME WatchInv, NEW k \in Kinds, Resync(k) PROVE WatchInv'
<1>1. /\ TypeOK /\ Typed /\ GoneIsLast /\ k \in registered
      /\ UNCHANGED <<history, seen, listed, registered, writing, call, handle, closed,
                     log, latest, lost, up, lapses>>
  BY DEF WatchInv, Resync, logger, file
<1>2. PICK order \in SetToSeqs({o \in OfKind(k) : Stored(o) # 0}) :
        Notify(k, [i \in DOMAIN order |-> Update(order[i], Stored(order[i]), Stored(order[i]))])
  BY DEF Resync
<1> DEFINE ns == [i \in DOMAIN order |-> Update(order[i], Stored(order[i]), Stored(order[i]))]
<1>3. /\ ns \in Seq(Notice)
      /\ \A n \in Range(ns) :
           /\ KindOf(n.object) = k /\ n.endpoint # "Unknown" /\ Valid(n)
           /\ n.old = Stored(n.object) /\ n.new = Stored(n.object) /\ Stored(n.object) # 0
      /\ \A i, j \in DOMAIN ns : Follows(ns[i], ns[j])
  <2>1. ns = [i \in DOMAIN order |-> [endpoint |-> "Update", object |-> order[i],
                                      old |-> Stored(order[i]), new |-> Stored(order[i])]]
    BY DEF Update
  <2>2. "Update" \in Endpoint
    BY DEF Endpoint
  <2> HIDE DEF ns
  <2> QED
    BY <1>1, <2>1, <2>2, AboutStored
<1>4. Notify(k, ns)
  BY <1>2
<1> HIDE DEF ns
<1>5. queue' = [queue EXCEPT ![k] = @ \o ns]
  BY <1>1, <1>4 DEF Notify
<1>6. \A n \in Range(ns) : n.object \in Objects
  <2>1. Range(ns) \subseteq Notice
    BY <1>3, RangeOfSeq
  <2> QED
    BY <2>1 DEF Notice
<1>7. Told(k, ns)
  <2>1. \A n \in Range(ns) : seen[n.object] <= n.old /\ n.new <= seen'[n.object]
    BY <1>1, <1>3, <1>6, StoredIsSeen, States
  <2> QED
    BY <1>1, <1>3, <1>5, <2>1 DEF Told
<1>8. queue[k] \in Seq(Notice) /\ queue'[k] = queue[k] \o ns /\ \A l \in Kinds \ {k} : queue'[l] = queue[l]
  BY <1>1, <1>5 DEF Typed
<1>9. SeenGrows
  BY <1>1, States DEF SeenGrows, Typed, TypeOK
<1>10. Complete'
  <2>1. Range(queue'[k]) = Range(queue[k]) \cup Range(ns)
    BY <1>3, <1>8, Joined
  <2>2. ASSUME lapses = 0, NEW l \in Kinds, NEW i \in DOMAIN queue'[l]
        PROVE  queue'[l][i].endpoint # "Unknown"
    <3>1. CASE l = k
      <4>1. queue'[k][i] \in Range(queue[k]) \cup Range(ns)
        BY <2>1, <2>2, <3>1 DEF Range
      <4>2. \A m \in Range(queue[k]) : m.endpoint # "Unknown"
        BY <2>2 DEF WatchInv, Complete, Range
      <4> QED
        BY <1>3, <3>1, <4>1, <4>2
    <3>2. CASE l # k
      BY <1>8, <2>2, <3>2 DEF WatchInv, Complete
    <3> QED
      BY <3>1, <3>2
  <2>3. ASSUME lapses = 0, NEW o \in Objects PROVE Gapless(o)'
    <3>1. Gapless(o) /\ KindOf(o) \in Kinds
      BY <2>3, KindsOf DEF WatchInv, Complete
    <3>2. /\ Given(o)' = Given(o) /\ Saving(o)' = Saving(o) /\ Stored(o)' = Stored(o)
          /\ \A u : Worthy(o, u)' <=> Worthy(o, u)
      BY <1>1 DEF Given, Saved, Missed, Saving, Stored, Worthy
    <3>3. \A m \in Notices(o)' : m \in Notices(o) \/ /\ m.old = Stored(o) /\ m.new = Stored(o)
                                                     /\ Stored(o) # 0 /\ KindOf(o) = k
      <4>1. CASE KindOf(o) = k
        BY <1>1, <1>3, <2>1, <4>1 DEF Notices, KindOf
      <4>2. CASE KindOf(o) # k
        BY <1>1, <1>8, <3>1, <4>2 DEF Notices, KindOf
      <4> QED
        BY <4>1, <4>2
    <3>4. Notices(o) \subseteq Notices(o)'
      <4>1. CASE KindOf(o) = k
        BY <2>1, <4>1 DEF Notices, KindOf
      <4>2. CASE KindOf(o) # k
        BY <1>8, <3>1, <4>2 DEF Notices, KindOf
      <4> QED
        BY <4>1, <4>2
    <3>5. Noted(o) \subseteq Noted(o)'
      BY <3>2, <3>4 DEF Noted
    <3>6. ASSUME NEW v \in Noted(o)' \cup {m.old : m \in Notices(o)'}, NEW u \in v..seen[o], Worthy(o, u)
          PROVE  u \in Noted(o)'
      <4>1. CASE v \in Noted(o) \cup {m.old : m \in Notices(o)}
        BY <3>1, <3>5, <3>6, <4>1 DEF Gapless
      <4>2. CASE v = Stored(o) /\ Stored(o) # 0 /\ KindOf(o) = k
        <5>1. Stored(o) = seen[o] /\ seen[o] \in Nat
          BY <1>1, <4>2, StoredIsSeen, States
        <5>2. u = Stored(o)
          BY <3>6, <4>2, <5>1
        <5> QED
          BY <1>1, <3>1, <3>5, <3>6, <4>2, <5>2 DEF Gapless
      <4> QED
        BY <3>2, <3>3, <3>6, <4>1, <4>2 DEF Noted
    <3> QED
      BY <1>1, <3>1, <3>2, <3>5, <3>6 DEF Gapless, KindOf
  <2> QED
    BY <1>1, <2>2, <2>3 DEF WatchInv, Complete
<1> QED
  BY <1>7, <1>9, <1>10, TellStep

\* One more notification.
LEMMA OneMore ==
  ASSUME NEW s \in Seq(Notice), NEW n \in Notice
  PROVE  Range(s \o <<n>>) = Range(s) \cup {n}
<1>1. <<n>> \in Seq(Notice) /\ Range(<<n>>) = {n}
  BY FewNotices
<1>2. Range(s \o <<n>>) = Range(s) \cup Range(<<n>>)
  BY <1>1, RangeConcatenation, ZenonT(40)
<1> QED
  BY <1>1, <1>2

\* One notification, for an object that is seen in a later version.
LEMMA OneNotice ==
  ASSUME TypeOK, Typed, NEW o \in Objects, NEW v \in DOMAIN history[o], seen[o] <= v,
         seen' = [seen EXCEPT ![o] = v],
         NEW n, n \in Notice, n.object = o,
         n.endpoint # "Unknown" => Valid(n) /\ seen[o] <= n.old /\ n.new <= v,
         Notify(KindOf(o), <<n>>)
  PROVE  queue' = queue \/ Told(KindOf(o), <<n>>)
<1>1. /\ <<n>> \in Seq(Notice) /\ DOMAIN <<n>> = {1} /\ Range(<<n>>) = {n}
  BY FewNotices
<1>2. seen'[o] = v /\ \A i, j \in {1} : ~(i < j)
  BY DEF Typed
<1> QED
  BY <1>1, <1>2 DEF Told, Notify

\* A list after a broken watch, which skips versions, keeps the invariant.
LEMMA RelistStep == ASSUME WatchInv, NEW o \in Objects, Relist(o) PROVE WatchInv'
<1> DEFINE v == Len(history[o])
           k == KindOf(o)
<1>1. /\ TypeOK /\ Typed /\ GoneIsLast /\ seen[o] < v /\ Lapse /\ k \in Kinds
      /\ seen' = [seen EXCEPT ![o] = v]
      /\ UNCHANGED <<history, listed, registered, writing, call, handle, closed, log, latest, lost, up>>
      /\ Notify(k, IF Gone(o) THEN IF Stored(o) = 0 THEN <<>> ELSE <<Unknown(o)>>
                   ELSE IF Stored(o) = 0 THEN <<Add(o, v)>>
                   ELSE <<Update(o, Stored(o), v)>>)
  BY KindsOf DEF WatchInv, Relist, logger, file
<1>2. /\ v \in Nat /\ seen[o] \in Nat /\ DOMAIN history[o] = 1..v /\ v \in DOMAIN history[o]
      /\ seen[o] <= v
  BY <1>1, States
<1>3. lapses' # 0 /\ lapses' \in 0..MaxLapses
  BY <1>1, ObjectsAssumption DEF TypeOK, Lapse
<1>4. SeenGrows
  <2>1. \A q \in Objects : seen[q] \in Nat /\ seen[q] <= Len(history[q]) /\ Len(history[q]) \in Nat
    BY <1>1, States
  <2>2. seen' \in [Objects -> Nat] /\ seen'[o] = v /\ \A q \in Objects \ {o} : seen'[q] = seen[q]
    BY <1>1, <1>2 DEF Typed
  <2> QED
    BY <1>1, <1>2, <1>3, <2>1, <2>2 DEF SeenGrows
<1>5. Complete'
  BY <1>3 DEF Complete
<1>6. ~Gone(o) => history[o][v] # "gone"
  <2>1. history[o] # <<>>
    BY <1>2, EmptySeq
  <2> QED
    BY <2>1 DEF Gone, Last
<1>7. \E ns : Told(k, ns) \/ queue' = queue
  <2>1. CASE Gone(o) /\ Stored(o) = 0
    <3>1. queue[k] \in Seq(Notice) /\ queue \in [Kinds -> Seq(Notice)]
      BY <1>1 DEF Typed
    <3>2. queue[k] \o <<>> = queue[k]
      BY <3>1, ConcatEmptySeq
    <3>3. queue' = queue
      BY <1>1, <2>1, <3>1, <3>2 DEF Notify
    <3> QED
      BY <3>3
  <2>2. CASE Gone(o) /\ Stored(o) # 0
    <3>1. Unknown(o) \in Notice /\ Unknown(o).object = o /\ Unknown(o).endpoint = "Unknown"
      BY DEF Unknown, Notice
    <3> QED
      BY <1>1, <1>2, <2>2, <3>1, OneNotice
  <2>3. CASE ~Gone(o) /\ Stored(o) = 0
    <3> DEFINE n == Add(o, v)
    <3>1. n \in Notice /\ n.object = o /\ n.old = v /\ n.new = v
      BY <1>2 DEF Add, Notice, Endpoint
    <3>2. Valid(n)
      BY <1>2, <1>6, <2>3, <3>1 DEF Valid
    <3> HIDE DEF n
    <3>3. Notify(k, <<n>>)
      BY <1>1, <2>3 DEF n
    <3>4. seen[o] <= n.old /\ n.new <= v
      BY <1>2, <3>1
    <3>5. queue' = queue \/ Told(KindOf(o), <<n>>)
      BY <1>1, <1>2, <3>1, <3>2, <3>3, <3>4, OneNotice
    <3> QED
      BY <3>5
  <2>4. CASE ~Gone(o) /\ Stored(o) # 0
    <3> DEFINE n == Update(o, Stored(o), v)
    <3>1. Stored(o) = seen[o] /\ Stored(o) \in DOMAIN history[o] /\ history[o][Stored(o)] # "gone"
      BY <1>1, <2>4, StoredIsSeen
    <3>2. n \in Notice /\ n.object = o /\ n.old = Stored(o) /\ n.new = v
      BY <1>2, <3>1 DEF Update, Notice, Endpoint
    <3>3. Valid(n)
      BY <1>2, <1>6, <2>4, <3>1, <3>2 DEF Valid
    <3> HIDE DEF n
    <3>4. Notify(k, <<n>>)
      BY <1>1, <2>4 DEF n
    <3>5. seen[o] <= n.old /\ n.new <= v
      BY <1>2, <3>1, <3>2
    <3>6. queue' = queue \/ Told(KindOf(o), <<n>>)
      BY <1>1, <1>2, <3>2, <3>3, <3>4, <3>5, OneNotice
    <3> QED
      BY <3>6
  <2> QED
    BY <2>1, <2>2, <2>3, <2>4
<1> QED
  BY <1>1, <1>4, <1>5, <1>7, TellStep

\* The watch delivers one version after the other.
LEMMA WatchStep == ASSUME WatchInv, NEW o \in Objects, Watch(o) PROVE WatchInv'
<1> DEFINE v == seen[o] + 1
           k == KindOf(o)
           n == IF history[o][v] = "gone" THEN Deleted(o, Stored(o))
                ELSE IF Stored(o) = 0 THEN Add(o, v) ELSE Update(o, Stored(o), v)
<1>1. /\ TypeOK /\ Typed /\ GoneIsLast /\ k \in Kinds /\ up
      /\ seen[o] < Len(history[o]) /\ seen' = [seen EXCEPT ![o] = @ + 1]
      /\ Notify(k, <<n>>)
      /\ UNCHANGED <<history, listed, registered, writing, call, handle, closed, log, latest, lost, up, lapses>>
  BY KindsOf DEF WatchInv, Watch, logger, file
<1>2. /\ seen[o] \in Nat /\ v \in DOMAIN history[o] /\ v \in Nat /\ seen'[o] = v /\ seen[o] <= v
      /\ seen' = [seen EXCEPT ![o] = v] /\ \A q \in Objects \ {o} : seen'[q] = seen[q]
      /\ \A u \in Nat : u <= v => u <= seen[o] \/ u = v
  BY <1>1, States DEF Typed
<1>3. SeenGrows
  <2>1. \A q \in Objects : seen[q] \in Nat /\ seen[q] <= Len(history[q]) /\ Len(history[q]) \in Nat
    BY <1>1, States
  <2>2. seen' \in [Objects -> Nat] /\ v <= Len(history[o])
    BY <1>1, <1>2, <2>1 DEF Typed
  <2> QED
    BY <1>1, <1>2, <2>1, <2>2 DEF SeenGrows, TypeOK
<1>4. /\ history[o][v] = "gone" => Stored(o) # 0
      /\ Stored(o) # 0 => /\ Stored(o) = seen[o] /\ Stored(o) \in DOMAIN history[o]
                          /\ history[o][Stored(o)] # "gone"
      /\ Stored(o) = 0 => seen[o] = 0
  BY <1>1, <1>2, StoredIsSeen
<1>5. /\ n \in Notice /\ n.object = o /\ n.endpoint # "Unknown"
      /\ n.old = IF Stored(o) = 0 THEN v ELSE Stored(o)
      /\ n.new = IF history[o][v] = "gone" THEN Stored(o) ELSE v
  BY <1>2, <1>4 DEF Deleted, Add, Update, Notice, Endpoint
<1>6. /\ Valid(n) /\ seen[o] <= n.old /\ n.new <= v
  BY <1>2, <1>4, <1>5 DEF Valid
<1> HIDE DEF n
<1>7. queue' = queue \/ Told(k, <<n>>)
  BY <1>1, <1>2, <1>5, <1>6, OneNotice
<1>8. ASSUME lapses = 0 PROVE Gapless(o)'
  <2>1. Gapless(o) /\ Ordered(o)
    BY <1>8 DEF WatchInv, Complete, InOrder
  <2>2. Given(o)' = Given(o) /\ Saving(o)' = Saving(o) /\ \A u : Worthy(o, u)' <=> Worthy(o, u)
    BY <1>1 DEF Given, Saved, Missed, Saving, Worthy
  <2>3. Stored(o)' # 0 => Stored(o)' = v /\ history[o][v] # "gone"
    BY <1>1, <1>2 DEF Stored
  <2>4. CASE k \notin registered
    <3>1. queue[k] = <<>> /\ writing[k] = <<>> /\ Given(o) = {} /\ queue' = queue
      BY <1>1, <2>1, <2>4 DEF TypeOK, Free, Gapless, Notify
    <3>2. Notices(o)' = {} /\ Saving(o)' = {} /\ Given(o)' = {}
      BY <1>1, <3>1, NoNotices DEF Notices, Saving, Given, Saved, Missed, KindOf
    <3> QED
      BY <1>1, <2>4, <3>1, <3>2 DEF Gapless, Noted, KindOf
  <2>5. CASE k \in registered
    <3>1. Notices(o)' = Notices(o) \cup {n}
      <4>1. queue[k] \in Seq(Notice) /\ queue \in [Kinds -> Seq(Notice)]
        BY <1>1 DEF Typed
      <4>2. queue'[k] = queue[k] \o <<n>>
        BY <1>1, <2>5, <4>1 DEF Notify
      <4>3. Range(queue'[k]) = Range(queue[k]) \cup {n}
        BY <1>5, <4>1, <4>2, OneMore
      <4> QED
        BY <1>5, <4>3 DEF Notices, KindOf
    <3>2. Noted(o)' = Noted(o) \cup {n.new}
      BY <2>2, <3>1 DEF Noted
    <3>3. ASSUME NEW w \in Noted(o)' \cup {m.old : m \in Notices(o)'}, NEW u \in w..v, Worthy(o, u)
          PROVE  u \in Noted(o)'
      <4>1. w \in Noted(o) \cup {m.old : m \in Notices(o)} \/ w = n.new \/ w = n.old
        BY <3>1, <3>2, <3>3
      <4>2. w \in DOMAIN history[o] /\ w \in Nat
        BY <1>1, <1>6, <2>1, <4>1, States, <1>5 DEF Ordered, Noted, Valid
      <4>3. u \in Nat /\ w <= u /\ u <= v
        BY <1>2, <3>3, <4>2
      <4>4. CASE u = v
        BY <1>5, <3>2, <3>3, <4>4 DEF Worthy
      <4>5. CASE u <= seen[o] /\ u # v
        <5>1. CASE w \in Noted(o) \cup {m.old : m \in Notices(o)}
          <6>1. u \in w..seen[o]
            BY <1>2, <4>2, <4>3, <4>5
          <6> QED
            BY <2>1, <3>2, <3>3, <5>1, <6>1 DEF Gapless
        <5>2. CASE w = n.new \/ w = n.old
          <6>1. u = seen[o] /\ u = Stored(o) /\ Stored(o) # 0
            BY <1>2, <1>4, <1>5, <4>2, <4>3, <4>5, <5>2
          <6> QED
            BY <2>1, <2>5, <3>2, <3>3, <6>1 DEF Gapless
        <5> QED
          BY <4>1, <5>1, <5>2
      <4> QED
        BY <1>2, <4>3, <4>4, <4>5
    <3>4. Stored(o)' # 0 => Stored(o)' \in Noted(o)'
      BY <1>5, <2>3, <3>2
    <3> QED
      BY <1>1, <1>2, <2>2, <2>5, <3>3, <3>4 DEF Gapless, KindOf
  <2> QED
    BY <2>4, <2>5
<1>9. ASSUME NEW q \in Objects \ {o} PROVE Same(q)
  <2>1. CASE queue' = queue
    BY <1>1, <1>2, <2>1 DEF Same, Saving, Notices, KindOf
  <2>2. CASE Told(k, <<n>>) /\ KindOf(q) = k
    <3>1. queue[k] \in Seq(Notice) /\ queue'[k] = queue[k] \o <<n>>
      BY <1>1, <2>2 DEF Typed, Told
    <3>2. Range(queue'[k]) = Range(queue[k]) \cup {n}
      BY <1>5, <3>1, OneMore
    <3> QED
      BY <1>1, <1>2, <1>5, <2>2, <3>2 DEF Same, Saving, Notices, KindOf
  <2>3. CASE Told(k, <<n>>) /\ KindOf(q) # k
    <3>1. queue'[KindOf(q)] = queue[KindOf(q)]
      BY <1>1, <2>3, KindsOf DEF Told, Typed
    <3> QED
      BY <1>1, <1>2, <3>1 DEF Same, Saving, Notices, KindOf
  <2> QED
    BY <1>7, <2>1, <2>2, <2>3
<1>10. Complete'
  <2>1. ASSUME lapses = 0, NEW l \in Kinds, NEW i \in DOMAIN queue'[l]
        PROVE  queue'[l][i].endpoint # "Unknown"
    <3>1. CASE queue' = queue
      BY <2>1, <3>1 DEF WatchInv, Complete
    <3>2. CASE Told(k, <<n>>) /\ l = k
      <4>1. queue[k] \in Seq(Notice) /\ queue'[k] = queue[k] \o <<n>>
        BY <1>1, <3>2 DEF Typed, Told
      <4>2. Range(queue'[k]) = Range(queue[k]) \cup {n}
        BY <1>5, <4>1, OneMore
      <4>3. \A m \in Range(queue[k]) : m.endpoint # "Unknown"
        BY <1>1, <2>1 DEF WatchInv, Complete, Range
      <4>4. queue'[k][i] \in Range(queue'[k])
        BY <2>1, <3>2 DEF Range
      <4> QED
        BY <1>5, <3>2, <4>2, <4>3, <4>4
    <3>3. CASE Told(k, <<n>>) /\ l # k
      BY <1>1, <2>1, <3>3 DEF WatchInv, Complete, Told, Typed
    <3> QED
      BY <1>7, <3>1, <3>2, <3>3
  <2> QED
    BY <1>1, <1>8, <1>9, <2>1, SameObject DEF WatchInv, Complete
<1> QED
  BY <1>1, <1>3, <1>7, <1>10, TellStep

-----------------------------------------------------------------------------
(* The handlers.                                                           *)

\* A handler that starts with a notification keeps it.
LEMMA HandleStep == ASSUME WatchInv, NEW k \in Kinds, Handle(k) PROVE WatchInv'
<1> DEFINE n == Head(queue[k])
           o == n.object
<1>1. /\ TypeOK /\ Typed /\ writing[k] = <<>> /\ call[k] = "none" /\ queue[k] # <<>> /\ n.endpoint # "Unknown"
      /\ queue' = [queue EXCEPT ![k] = Tail(@)] /\ writing' = [writing EXCEPT ![k] = Records(n)]
      /\ UNCHANGED <<history, seen, listed, registered, call, handle, closed, log, latest, lost, up, lapses>>
  BY DEF WatchInv, Handle, Free, logger, file
<1>2. /\ queue[k] \in Seq(Notice) /\ n \in Notice /\ 1 \in DOMAIN queue[k] /\ n = queue[k][1]
      /\ Tail(queue[k]) \in Seq(Notice)
      /\ Range(queue[k]) = {n} \cup Range(Tail(queue[k]))
      /\ \A i \in DOMAIN Tail(queue[k]) :
           /\ Tail(queue[k])[i] = queue[k][i + 1] /\ i + 1 \in DOMAIN queue[k] /\ 1 < i + 1 /\ i \in Nat
  BY <1>1, Heads DEF Typed
<1>3. o \in Objects /\ KindOf(o) = k /\ n \in Notices(o) /\ k \in registered
  <2>1. o \in Objects /\ KindOf(o) = k
    BY <1>2 DEF WatchInv, OwnKind, Notice
  <2> QED
    BY <1>1, <1>2, <2>1 DEF Notices, TypeOK
<1>4. /\ Ordered(o) /\ Valid(n) /\ n.new <= seen[o]
      /\ n.old \in Nat /\ n.new \in Nat /\ seen[o] \in Nat
  <2>1. Ordered(o)
    BY <1>3 DEF WatchInv, InOrder
  <2> QED
    BY <1>1, <1>2, <1>3, <2>1, States DEF Ordered, Valid, Notice
<1> HIDE DEF n
<1>5. /\ Records(n) \in Seq(Datum)
      /\ \A r \in Range(Records(n)) :
           /\ r.object = o /\ r.version \in {n.old, n.new} /\ Worthy(o, r.version)
      /\ \A i, j \in DOMAIN Records(n) : i < j => Records(n)[i].version <= Records(n)[j].version
      /\ Worthy(o, n.new) => \E r \in Range(Records(n)) : r.version = n.new
  BY <1>1, <1>2, <1>4, RecordsAre
<1>6. /\ queue' \in [Kinds -> Seq(Notice)] /\ queue'[k] = Tail(queue[k])
      /\ writing' \in [Kinds -> Seq(Datum)] /\ writing'[k] = Records(n)
      /\ \A l \in Kinds \ {k} : queue'[l] = queue[l] /\ writing'[l] = writing[l]
  BY <1>1, <1>2, <1>5 DEF Typed
<1>7. TypeOK' /\ Typed'
  <2>1. \A l \in Kinds \ registered : queue'[l] = <<>> /\ writing'[l] = <<>> /\ call[l] = "none"
    BY <1>1, <1>3, <1>6 DEF TypeOK, Free
  <2>2. \A l \in Kinds : call[l] = "opened" => writing'[l] # <<>>
    BY <1>1, <1>6 DEF TypeOK
  <2>3. TypeOK'
    BY <1>1, <2>1, <2>2 DEF TypeOK, Free
  <2>4. Typed'
    BY <1>1, <1>6 DEF Typed
  <2> QED
    BY <2>3, <2>4
<1>8. OwnKind' /\ QueueInOrder' /\ WritingInOrder'
  <2>1. ASSUME NEW i \in DOMAIN queue'[k] PROVE KindOf(queue'[k][i].object) = k
    BY <1>2, <1>6, <2>1 DEF WatchInv, OwnKind
  <2>2. ASSUME NEW i \in DOMAIN writing'[k] PROVE KindOf(writing'[k][i].object) = k
    BY <1>3, <1>5, <1>6, <2>2 DEF Range
  <2>3. ASSUME NEW i \in DOMAIN queue'[k], NEW j \in DOMAIN queue'[k], i < j
        PROVE  Follows(queue'[k][i], queue'[k][j])
    <3>1. i + 1 < j + 1
      BY <1>2, <1>6, <2>3
    <3> QED
      BY <1>2, <1>6, <2>3, <3>1 DEF WatchInv, QueueInOrder
  <2>4. OwnKind'
    BY <1>6, <2>1, <2>2 DEF WatchInv, OwnKind, KindOf
  <2>5. QueueInOrder'
    BY <1>6, <2>3, ZenonT(40) DEF WatchInv, QueueInOrder, Follows
  <2>6. WritingInOrder'
    BY <1>5, <1>6 DEF WatchInv, WritingInOrder
  <2> QED
    BY <2>4, <2>5, <2>6
<1>9. ASSUME NEW q \in Objects, q # o PROVE Same(q)
  <2>1. CASE KindOf(q) = k
    <3>1. Saving(q) = {} /\ Saving(q)' = {}
      BY <1>1, <1>5, <1>6, <1>9, <2>1, NoNotices DEF Saving, KindOf
    <3>2. Notices(q)' = Notices(q)
      BY <1>2, <1>6, <1>9, <2>1 DEF Notices, KindOf
    <3> QED
      BY <1>1, <3>1, <3>2 DEF Same, KindOf
  <2>2. CASE KindOf(q) # k
    <3>1. queue'[KindOf(q)] = queue[KindOf(q)] /\ writing'[KindOf(q)] = writing[KindOf(q)]
      BY <1>6, <2>2, KindsOf
    <3> QED
      BY <1>1, <3>1 DEF Same, Saving, Notices, KindOf
  <2> QED
    BY <2>1, <2>2
<1>10. PICK p \in Objects : p = o
  BY <1>3
<1>11. /\ Given(p)' = Given(p) /\ Saving(p) = {} /\ Saving(p)' = {r.version : r \in Range(Records(n))}
       /\ Notices(p) = {n} \cup Notices(p)' /\ n \in Notices(p)
       /\ \A m \in Notices(p)' : n.new <= m.old
  <2>1. Given(p)' = Given(p) /\ Saving(p) = {} /\ Saving(p)' = {r.version : r \in Range(Records(n))}
    BY <1>1, <1>3, <1>5, <1>6, <1>10, NoNotices DEF Given, Saved, Missed, Saving, KindOf
  <2>2. Notices(p) = {n} \cup Notices(p)' /\ n \in Notices(p)
    BY <1>1, <1>2, <1>3, <1>6, <1>10 DEF Notices, KindOf
  <2>3. ASSUME NEW m \in Notices(p)' PROVE n.new <= m.old
    <3>1. /\ m \in Range(Tail(queue[k])) /\ m.object = p /\ m.endpoint # "Unknown"
      BY <1>3, <1>6, <1>10, <2>3 DEF Notices, KindOf
    <3>2. PICK i \in DOMAIN Tail(queue[k]) : m = Tail(queue[k])[i]
      BY <3>1 DEF Range
    <3>3. Follows(n, m)
      BY <1>2, <3>2 DEF WatchInv, QueueInOrder
    <3> QED
      BY <1>1, <1>10, <3>1, <3>3 DEF Follows
  <2> QED
    BY <2>1, <2>2, <2>3
<1>12. Ordered(p)'
  <2>1. \A w \in Saving(p)' : w \in {n.old, n.new}
    BY <1>5, <1>11
  <2>2. /\ n.old \in DOMAIN history[p] /\ n.new \in DOMAIN history[p] /\ n.old <= n.new
        /\ \A m \in Notices(p)' : m \in Notices(p)
    BY <1>4, <1>10, <1>11 DEF Valid
  <2>3. \A m \in Notices(p)' : m.old \in Nat
    BY <1>1, <1>4, <1>10, <2>2, States DEF Ordered
  <2>4. \A v \in Given(p) : v \in Nat
    BY <1>1, <1>4, <1>10, States DEF Ordered
  <2>5. /\ \A w \in Saving(p)' :
             /\ w \in DOMAIN history[p] /\ w <= seen[p]
             /\ \A m \in Notices(p)' : w <= m.old
        /\ \A v \in Given(p) : \A w \in Saving(p)' : v <= w
    BY <1>4, <1>10, <1>11, <2>1, <2>2, <2>3, <2>4 DEF Ordered
  <2> QED
    BY <1>1, <1>4, <1>10, <1>11, <2>2, <2>5 DEF Ordered, KindOf
<1>13. ASSUME lapses = 0 PROVE Gapless(p)'
  <2>1. Gapless(p)
    BY <1>13 DEF WatchInv, Complete
  <2>2. \A u : Worthy(p, u)' <=> Worthy(p, u)
    BY <1>1 DEF Worthy
  <2>3. \A u \in Noted(p) : Worthy(p, u) => u \in Noted(p)'
    BY <1>5, <1>10, <1>11 DEF Noted
  <2>4. Noted(p)' \cup {m.old : m \in Notices(p)'} \subseteq Noted(p) \cup {m.old : m \in Notices(p)}
    BY <1>5, <1>10, <1>11 DEF Noted
  <2>5. Stored(p)' = Stored(p)
    BY <1>1 DEF Stored
  <2> QED
    BY <1>1, <1>11, <2>1, <2>2, <2>3, <2>4, <2>5 DEF Gapless, KindOf
<1>14. InOrder'
  BY <1>9, <1>10, <1>12, SameObject DEF WatchInv, InOrder
<1>15. Complete'
  <2>1. ASSUME lapses = 0, NEW l \in Kinds, NEW i \in DOMAIN queue'[l]
        PROVE  queue'[l][i].endpoint # "Unknown"
    <3>1. CASE l = k
      BY <1>2, <1>6, <2>1, <3>1, ZenonT(40) DEF WatchInv, Complete
    <3>2. CASE l # k
      BY <1>6, <2>1, <3>2 DEF WatchInv, Complete
    <3> QED
      BY <3>1, <3>2
  <2> QED
    BY <1>1, <1>9, <1>10, <1>13, <2>1, SameObject DEF WatchInv, Complete
<1> QED
  BY <1>1, <1>7, <1>8, <1>14, <1>15 DEF WatchInv, GoneIsLast

\* A record is written, or it is lost.
Wrote(r) ==
  /\ log' = [log EXCEPT ![r.object] = @ \cup {r}]
  /\ latest' = [latest EXCEPT ![r.object] = r.version]
  /\ lost' = [lost EXCEPT ![r.object] = @ \ {r}]
Lost(r) == Drop(r) /\ UNCHANGED <<log, latest>>

\* The logger's taking of a record keeps it, and the log does not go back.
LEMMA GiveStep ==
  ASSUME WatchInv, NEW k \in Kinds, writing[k] # <<>>,
         writing' = [writing EXCEPT ![k] = Tail(@)],
         Wrote(Head(writing[k])) \/ Lost(Head(writing[k])),
         call' \in [Kinds -> {"none", "opened", "printed"}], call'[k] # "opened",
         \A l \in Kinds \ {k} : call'[l] = call[l],
         lapses' \in 0..MaxLapses, lapses' = 0 => lapses = 0,
         UNCHANGED <<history, seen, listed, registered, queue, handle, closed, up>>
  PROVE  WatchInv' /\ \A q \in Objects : latest[q] <= latest'[q]
<1> DEFINE r == Head(writing[k])
           o == r.object
<1>1. TypeOK /\ Typed /\ (Wrote(r) \/ Lost(r))
  BY DEF WatchInv
<1>2. /\ writing[k] \in Seq(Datum) /\ r \in Datum /\ 1 \in DOMAIN writing[k] /\ r = writing[k][1]
      /\ Tail(writing[k]) \in Seq(Datum)
      /\ Range(writing[k]) = {r} \cup Range(Tail(writing[k]))
      /\ \A i \in DOMAIN Tail(writing[k]) :
           /\ Tail(writing[k])[i] = writing[k][i + 1] /\ i + 1 \in DOMAIN writing[k]
           /\ 1 < i + 1 /\ i \in Nat
  BY <1>1, Heads DEF Typed
<1>3. o \in Objects /\ KindOf(o) = k /\ r.version \in Saving(o) /\ k \in registered /\ k \in listed
  <2>1. o \in Objects /\ KindOf(o) = k
    BY <1>2 DEF WatchInv, OwnKind, Datum
  <2> QED
    BY <1>1, <1>2, <2>1 DEF Saving, TypeOK, Free
<1>4. PICK p \in Objects : p = o
  BY <1>3
<1> HIDE DEF r
<1>5. /\ log' \in [Objects -> SUBSET Datum] /\ lost' \in [Objects -> SUBSET Datum]
      /\ latest' \in [Objects -> Nat]
      /\ \A q \in Objects \ {p} : log'[q] = log[q] /\ lost'[q] = lost[q] /\ latest'[q] = latest[q]
      /\ log'[p] \cup lost'[p] = log[p] \cup lost[p] \cup {r}
      /\ latest'[p] = latest[p] \/ latest'[p] = r.version
  <2>1. r.version \in Nat
    BY <1>2 DEF Datum
  <2>2. CASE Wrote(r)
    BY <1>1, <1>2, <1>4, <2>1, <2>2 DEF Wrote, Typed
  <2>3. CASE Lost(r)
    BY <1>1, <1>2, <1>4, <2>1, <2>3 DEF Lost, Drop, Typed
  <2> QED
    BY <1>1, <2>2, <2>3
<1>6. /\ writing' \in [Kinds -> Seq(Datum)] /\ writing'[k] = Tail(writing[k])
      /\ \A l \in Kinds \ {k} : writing'[l] = writing[l]
  BY <1>1, <1>2 DEF Typed
<1>7. /\ Given(p)' = Given(p) \cup {r.version} /\ Saving(p) = Saving(p)' \cup {r.version}
      /\ Notices(p)' = Notices(p) /\ \A w \in Saving(p)' : r.version <= w
  <2>1. Given(p) = {x.version : x \in log[p] \cup lost[p]} /\ Given(p)' = {x.version : x \in log'[p] \cup lost'[p]}
    BY DEF Given, Saved, Missed
  <2>2. Given(p)' = Given(p) \cup {r.version}
    BY <1>5, <2>1
  <2>3. Saving(p) = Saving(p)' \cup {r.version}
    <3> DEFINE A == {x \in Range(writing[k]) : x.object = p}
               B == {x \in Range(Tail(writing[k])) : x.object = p}
    <3>1. Saving(p) = {x.version : x \in A} /\ Saving(p)' = {x.version : x \in B}
      BY <1>3, <1>4, <1>6 DEF Saving, KindOf
    <3>2. A = B \cup {r}
      BY <1>2, <1>4
    <3> QED
      BY <3>1, <3>2
  <2>4. ASSUME NEW w \in Saving(p)' PROVE r.version <= w
    <3>1. PICK i \in DOMAIN Tail(writing[k]) : w = Tail(writing[k])[i].version
      <4>1. Saving(p)' = {x.version : x \in {x \in Range(Tail(writing[k])) : x.object = p}}
        BY <1>3, <1>4, <1>6 DEF Saving, KindOf
      <4> QED
        BY <2>4, <4>1 DEF Range
    <3> QED
      BY <1>2, <3>1 DEF WatchInv, WritingInOrder
  <2> QED
    BY <2>2, <2>3, <2>4 DEF Notices
<1>8. Ordered(p) /\ r.version \in Saving(p)
  BY <1>3, <1>4 DEF WatchInv, InOrder
<1>9. Ordered(p)'
  <2>1. latest'[p] \in Given(p)' \cup {0}
    BY <1>5, <1>7, <1>8 DEF Ordered
  <2> QED
    BY <1>3, <1>4, <1>7, <1>8, <2>1 DEF Ordered
<1>10. ASSUME NEW q \in Objects, q # p PROVE Same(q)
  <2>1. Saving(q)' = Saving(q)
    <3>1. CASE KindOf(q) = k
      BY <1>2, <1>4, <1>6, <1>10, <3>1 DEF Saving, KindOf
    <3>2. CASE KindOf(q) # k
      BY <1>6, <3>2, KindsOf DEF Saving, KindOf
    <3> QED
      BY <3>1, <3>2
  <2> QED
    BY <1>5, <1>10, <2>1 DEF Same, Notices, KindOf
<1>11. InOrder'
  BY <1>9, <1>10, SameObject DEF WatchInv, InOrder
<1>12. \A q \in Objects : latest[q] <= latest'[q]
  <2>1. \A q \in Objects : latest[q] \in Nat
    BY <1>1 DEF Typed
  <2>2. r.version \in Nat
    BY <1>2 DEF Datum
  <2>3. latest[p] <= r.version
    BY <1>8, <2>1, <2>2 DEF Ordered
  <2> QED
    BY <1>5, <2>1, <2>2, <2>3
<1>13. Complete'
  <2>1. ASSUME lapses = 0 PROVE Gapless(p)'
    <3>1. Noted(p)' = Noted(p) /\ Stored(p)' = Stored(p) /\ \A u : Worthy(p, u)' <=> Worthy(p, u)
      BY <1>7 DEF Noted, Stored, Worthy
    <3>2. Gapless(p)
      BY <2>1 DEF WatchInv, Complete
    <3>3. KindOf(p) \in registered /\ registered' = registered /\ seen' = seen
      BY <1>3, <1>4
    <3>4. {n.old : n \in Notices(p)}' = {n.old : n \in Notices(p)}
      BY <1>7
    <3>5. \A v \in Noted(p)' \cup {n.old : n \in Notices(p)}' : \A u \in v..seen'[p] :
            Worthy(p, u)' => u \in Noted(p)'
      BY <3>1, <3>2, <3>3, <3>4 DEF Gapless
    <3>6. Stored(p)' # 0 /\ Worthy(p, Stored(p))' => Stored(p)' \in Noted(p)'
      BY <3>1, <3>2, <3>3 DEF Gapless
    <3> QED
      BY <3>3, <3>5, <3>6 DEF Gapless, KindOf
  <2> QED
    BY <1>10, <2>1, SameObject DEF WatchInv, Complete
<1>14. TypeOK' /\ Typed'
  <2>1. ASSUME NEW q \in Objects, NEW x \in log'[q] \cup lost'[q] PROVE x.version \in DOMAIN history[q]
    BY <1>11, <2>1 DEF InOrder, Ordered, Given, Saved, Missed
  <2>2. \A l \in Kinds : call'[l] = "opened" => writing'[l] # <<>>
    BY <1>1, <1>6 DEF TypeOK
  <2>3. \A l \in Kinds \ registered : writing'[l] = <<>> /\ call'[l] = "none"
    BY <1>1, <1>3, <1>6 DEF TypeOK, Free
  <2> QED
    BY <1>1, <1>5, <1>6, <2>1, <2>2, <2>3 DEF TypeOK, Typed, Free
<1>15. OwnKind' /\ WritingInOrder'
  <2>1. ASSUME NEW i \in DOMAIN writing'[k] PROVE KindOf(writing'[k][i].object) = k
    BY <1>2, <1>6, <2>1 DEF WatchInv, OwnKind
  <2>2. ASSUME NEW i \in DOMAIN writing'[k], NEW j \in DOMAIN writing'[k], i < j
        PROVE  writing'[k][i].version <= writing'[k][j].version
    <3>1. i + 1 < j + 1
      BY <1>2, <1>6, <2>2
    <3> QED
      BY <1>2, <1>6, <2>2, <3>1 DEF WatchInv, WritingInOrder
  <2> QED
    BY <1>1, <1>6, <2>1, <2>2 DEF WatchInv, OwnKind, KindOf, WritingInOrder
<1> QED
  BY <1>1, <1>11, <1>12, <1>13, <1>14, <1>15 DEF WatchInv, GoneIsLast, QueueInOrder, Follows

\* A call of the logger keeps it, and the log does not go back.
LEMMA SaveStep ==
  ASSUME WatchInv, NEW k \in Kinds, SaveDatum(k)
  PROVE  WatchInv' /\ \A o \in Objects : latest[o] <= latest'[o]
<1>1. /\ TypeOK /\ Typed
      /\ UNCHANGED <<history, seen, listed, registered, queue, up>>
  BY DEF WatchInv, SaveDatum, Start, StartFails, Printf, Stop, informers
<1>2. CASE Start(k) \/ Stop(k)
  <2>1. UNCHANGED <<writing, log, latest, lost, lapses>>
    BY <1>2 DEF Start, Stop, file
  <2>2. \A o \in Objects : Same(o)
    BY <1>1, <2>1 DEF Same, Saving, Notices
  <2>3. InOrder' /\ Complete'
    BY <1>1, <2>1, <2>2, SameObject DEF WatchInv, InOrder, Complete
  <2>4. k \in registered
    BY <1>1, <1>2 DEF Start, Stop, TypeOK, Free
  <2>5. /\ call' \in [Kinds -> {"none", "opened", "printed"}]
        /\ handle' \in Kinds \cup {"none"} /\ closed' \subseteq Kinds
        /\ \A l \in Kinds \ {k} : call'[l] = call[l]
        /\ call'[k] = "opened" => writing[k] # <<>>
    <3>1. call \in [Kinds -> {"none", "opened", "printed"}] /\ handle \in Kinds \cup {"none"} /\ closed \subseteq Kinds
      BY <1>1 DEF TypeOK
    <3>2. CASE Start(k)
      BY <3>1, <3>2 DEF Start
    <3>3. CASE Stop(k)
      <4>1. call' = [call EXCEPT ![k] = "none"] /\ handle' = handle
        BY <3>3 DEF Stop
      <4>2. closed' \subseteq Kinds
        BY <3>3 DEF Stop
      <4> QED
        BY <3>1, <4>1, <4>2
    <3> QED
      BY <1>2, <3>2, <3>3
  <2>6. TypeOK' /\ Typed'
    BY <1>1, <2>1, <2>4, <2>5 DEF TypeOK, Typed, Free
  <2>7. \A o \in Objects : latest[o] <= latest'[o]
    BY <1>1, <2>1 DEF Typed
  <2> QED
    BY <1>1, <2>1, <2>3, <2>6, <2>7 DEF WatchInv, GoneIsLast, OwnKind, KindOf, WritingInOrder,
                                       QueueInOrder, Follows
<1>3. CASE StartFails(k)
  <2>1. /\ writing[k] # <<>> /\ writing' = [writing EXCEPT ![k] = Tail(@)]
        /\ Lost(Head(writing[k])) /\ call[k] = "none"
        /\ UNCHANGED <<call, handle, closed>>
    BY <1>3 DEF StartFails, Lost, logger
  <2>2. lapses' \in 0..MaxLapses /\ lapses' # 0
    BY <1>1, <1>3, ObjectsAssumption DEF StartFails, Lapse, TypeOK
  <2> QED
    BY <1>1, <2>1, <2>2, GiveStep DEF TypeOK
<1>4. CASE Printf(k)
  <2>1. /\ writing[k] # <<>> /\ writing' = [writing EXCEPT ![k] = Tail(@)]
        /\ Wrote(Head(writing[k])) \/ Lost(Head(writing[k]))
        /\ UNCHANGED <<handle, closed, lapses>>
    BY <1>1, <1>4 DEF Printf, Wrote, Lost, TypeOK
  <2>2. /\ call' \in [Kinds -> {"none", "opened", "printed"}] /\ call'[k] # "opened"
        /\ \A l \in Kinds \ {k} : call'[l] = call[l]
    BY <1>1, <1>4 DEF Printf, TypeOK
  <2>3. lapses' \in 0..MaxLapses /\ (lapses' = 0 => lapses = 0)
    BY <1>1, <2>1 DEF TypeOK
  <2> QED
    BY <1>1, <2>1, <2>2, <2>3, GiveStep
<1> QED
  BY <1>2, <1>3, <1>4 DEF SaveDatum

-----------------------------------------------------------------------------
(* The invariant holds.                                                    *)

\* The invariant holds initially.
LEMMA WatchInit == ASSUME Init PROVE WatchInv
<1>1. /\ history = [o \in Objects |-> <<>>] /\ seen = [o \in Objects |-> 0] /\ listed = {} /\ registered = {}
      /\ queue = [k \in Kinds |-> <<>>] /\ writing = [k \in Kinds |-> <<>>]
      /\ call = [k \in Kinds |-> "none"] /\ handle = "none" /\ closed = {}
      /\ log = [o \in Objects |-> {}] /\ lost = [o \in Objects |-> {}] /\ latest = [o \in Objects |-> 0]
      /\ up = TRUE /\ lapses = 0
  BY DEF Init
<1>2. DOMAIN <<>> = {} /\ Len(<<>>) = 0 /\ \A S : <<>> \in Seq(S)
  BY EmptySeq
<1>3. Range(<<>>) = {}
  BY NoNotices
<1>4. TypeOK
  BY <1>1, <1>2, ObjectsAssumption DEF TypeOK, Free, Kinds
<1>5. Typed
  BY <1>1, <1>2 DEF Typed
<1>6. GoneIsLast /\ OwnKind /\ WritingInOrder /\ QueueInOrder
  BY <1>1, <1>2 DEF GoneIsLast, OwnKind, WritingInOrder, QueueInOrder
<1>7. \A o \in Objects : Given(o) = {} /\ Saving(o) = {} /\ Notices(o) = {} /\ Noted(o) = {}
  <2>1. ASSUME NEW o \in Objects PROVE Given(o) = {} /\ Saving(o) = {} /\ Notices(o) = {}
    BY <1>1, <1>2, <1>3, KindsOf DEF Given, Saved, Missed, Saving, Notices
  <2> QED
    BY <2>1 DEF Noted
<1>8. InOrder
  BY <1>1, <1>7 DEF InOrder, Ordered
<1>9. Complete
  BY <1>1, <1>2, <1>7 DEF Complete, Gapless
<1> QED
  BY <1>4, <1>5, <1>6, <1>8, <1>9 DEF WatchInv

\* Every step keeps the invariant.
LEMMA WatchNext == ASSUME WatchInv, [Next]_vars PROVE WatchInv'
<1>1. ASSUME NEW o \in Objects, Cluster(o) PROVE WatchInv'
  BY <1>1, ClusterStep
<1>2. ASSUME NEW k \in Kinds, Informer(k) PROVE WatchInv'
  <2>1. CASE List(k)
    BY <2>1, ListStep
  <2>2. CASE Register(k)
    BY <2>2, RegisterStep
  <2>3. CASE Resync(k)
    BY <2>3, ResyncStep
  <2>4. ASSUME NEW o \in OfKind(k), Watch(o) \/ Relist(o) PROVE WatchInv'
    <3>1. o \in Objects
      BY KindsOf
    <3> QED
      BY <2>4, <3>1, WatchStep, RelistStep
  <2> QED
    BY <1>2, <2>1, <2>2, <2>3, <2>4 DEF Informer
<1>3. ASSUME NEW k \in Kinds, Handlers(k) PROVE WatchInv'
  BY <1>3, HandleStep, SaveStep, LifeStep DEF Handlers
<1>4. CASE Killed \/ Restart
  BY <1>4, LifeStep
<1>5. CASE UNCHANGED vars
  <2>1. UNCHANGED <<history, seen, listed, registered, queue, writing, call, handle, closed,
                    log, latest, lost, up, lapses>>
    BY <1>5 DEF vars, informers, logger, file
  <2>2. \A o \in Objects : Same(o)
    BY <2>1 DEF Same, Saving, Notices
  <2>3. InOrder' /\ Complete'
    BY <2>1, <2>2, SameObject DEF WatchInv, InOrder, Complete
  <2> QED
    BY <2>1, <2>3 DEF WatchInv, TypeOK, Typed, Free, GoneIsLast, OwnKind, KindOf, WritingInOrder,
                      QueueInOrder, Follows
<1> QED
  BY <1>1, <1>2, <1>3, <1>4, <1>5 DEF Next

\* The invariant holds in every reachable state.
LEMMA WatchInvariance == Spec => []WatchInv
BY WatchInit, WatchNext, PTL DEF Spec

-----------------------------------------------------------------------------
(* What follows.                                                           *)

\* Every variable keeps its type: no store is ahead of the cluster, no handler is called
\* without being registered, no record is of a version that never was.
THEOREM WatcherTypes == Spec => []TypeOK
BY WatchInvariance, PTL DEF WatchInv

\* Only a call of the logger writes, and never an earlier version after a later one.
LEMMA NoStepBackwards ==
  ASSUME WatchInv, [Next]_vars
  PROVE  \A o \in Objects : latest[o] <= latest'[o]
<1>1. ASSUME NEW k \in Kinds, SaveDatum(k) PROVE \A o \in Objects : latest[o] <= latest'[o]
  BY <1>1, SaveStep
<1>2. CASE latest' = latest
  BY <1>2 DEF WatchInv, Typed
<1>3. ASSUME NEW k \in Kinds, Informer(k) \/ Handle(k) \/ HandleUnknown(k) PROVE latest' = latest
  BY <1>3 DEF Informer, Handle, HandleUnknown, List, Register, Resync, Watch, Relist, file
<1>4. ASSUME NEW o \in Objects, Cluster(o) PROVE latest' = latest
  BY <1>4 DEF Cluster, Progress, Delete, file
<1>5. CASE Killed \/ Restart \/ UNCHANGED vars
  BY <1>2, <1>5 DEF Killed, Restart, vars, file
<1> QED
  BY <1>1, <1>2, <1>3, <1>4, <1>5 DEF Next, Handlers

\* What the log says of an object is in the order of its versions (podUpdate saves the
\* old pod before the new one, events.go), across lost records, resyncs, new lists and
\* restarts.
THEOREM LogInOrder == Spec => NeverBackwards
<1>1. WatchInv /\ [Next]_vars => [\A o \in Objects : latest[o] <= latest'[o]]_vars
  BY NoStepBackwards
<1> QED
  BY <1>1, WatchInvariance, PTL DEF Spec, NeverBackwards

\* What is complete has no gaps: whatever is between two saved versions is saved before
\* the later of them, and idle handlers have nothing left to save.
LEMMA CompleteHasNoGaps == ASSUME WatchInv PROVE NoGaps
<1>1. SUFFICES ASSUME lapses = 0, NEW o \in Objects
               PROVE  /\ \A v, w \in Saved(o) : \A u \in v..w : Worthy(o, u) => u \in Saved(o) \cup Missed(o)
                      /\ Idle(o) /\ Stored(o) # 0 /\ Worthy(o, Stored(o)) => Stored(o) \in Saved(o) \cup Missed(o)
  BY DEF NoGaps
<1>2. Gapless(o) /\ Ordered(o) /\ TypeOK /\ Typed /\ KindOf(o) \in Kinds
  BY <1>1, KindsOf DEF WatchInv, Complete, InOrder
<1>3. ASSUME NEW v \in Saved(o), NEW w \in Saved(o), NEW u \in v..w, Worthy(o, u)
      PROVE  u \in Given(o)
  <2>1. KindOf(o) \in listed
    <3>1. Given(o) # {}
      BY <1>3 DEF Given
    <3> QED
      BY <1>2, <3>1 DEF Gapless, TypeOK
  <2>2. /\ v \in Nat /\ w \in Nat /\ seen[o] \in Nat /\ w <= seen[o]
    BY <1>2, <1>3, <2>1, States DEF Ordered, Given
  <2>3. u \in v..seen[o] /\ u <= w /\ u \in Nat
    BY <1>3, <2>2
  <2>4. u \in Noted(o)
    BY <1>2, <1>3, <2>3 DEF Gapless, Noted, Given
  <2>5. u \in Saving(o) => w <= u
    BY <1>2, <1>3 DEF Ordered, Given
  <2>6. ASSUME NEW n \in Notices(o), u = n.new PROVE w <= u
    <3>1. w <= n.old /\ n.old <= n.new /\ n.old \in Nat
      BY <1>2, <1>3, <2>6, States DEF Ordered, Given
    <3> QED
      BY <2>2, <2>3, <2>6, <3>1
  <2> QED
    BY <1>3, <2>2, <2>3, <2>4, <2>5, <2>6 DEF Noted, Given
<1>4. ASSUME Idle(o), Stored(o) # 0, Worthy(o, Stored(o)) PROVE Stored(o) \in Given(o)
  <2>1. Saving(o) = {} /\ Notices(o) = {} /\ KindOf(o) \in registered
    BY <1>2, <1>4, NoNotices DEF Idle, Free, Saving, Notices
  <2> QED
    BY <1>2, <1>4, <2>1 DEF Gapless, Noted
<1> QED
  BY <1>3, <1>4 DEF Given

\* As long as no watch breaks and the process lives, the log has every version worth it
\* between any two that it has, and when the handlers are idle the one in the store
\* (podAdd, podUpdate and their like in events.go), or a record of it was lost in the
\* logger that the two handlers share (logger.go).
THEOREM LogWithoutGaps == Spec => []NoGaps
BY WatchInvariance, CompleteHasNoGaps, PTL

=============================================================================
