-------------------------- MODULE NodeSearchProofs --------------------------
(***************************************************************************)
(* Proofs about NodeSearch, for any nodes, workers, plugins and settings.  *)
(***************************************************************************)
EXTENDS NodeSearch, FiniteSetTheorems, FunctionTheorems, SequenceTheorems, TLAPS

-----------------------------------------------------------------------------
(* Going round a list.                                                     *)

\* Division with remainder.
LEMMA DivMod ==
  ASSUME NEW a \in Int, NEW n \in Nat \ {0}
  PROVE  a \div n \in Int /\ a % n \in 0..(n - 1) /\ a = n * (a \div n) + (a % n)
<1>1. a % n \in 0..(n - 1)
  OBVIOUS
<1>2. a \div n \in Int
  OBVIOUS
<1>3. a = n * (a \div n) + (a % n)
  OBVIOUS
<1> QED
  BY <1>1, <1>2, <1>3

\* A multiple of n that is smaller than n is 0.
LEMMA SmallMultiple ==
  ASSUME NEW n \in Nat \ {0}, NEW q \in Int, n * q < n, n * q > 0 - n
  PROVE  q = 0
<1>1. CASE q >= 1
  <2>1. n * q >= n
    BY <1>1
  <2> QED
    BY <2>1
<1>2. CASE q <= -1
  <2>1. n * q <= 0 - n
    BY <1>2
  <2> QED
    BY <2>1
<1> QED
  BY <1>1, <1>2

\* The remainder is what is left in the range.
LEMMA ModIs ==
  ASSUME NEW a \in Int, NEW n \in Nat \ {0}, NEW q \in Int, NEW r \in 0..(n - 1),
         a = n * q + r
  PROVE  a % n = r
<1> DEFINE d == a \div n
           m == a % n
<1>1. d \in Int /\ m \in 0..(n - 1) /\ a = n * d + m
  BY DivMod
<1> HIDE DEF d, m
<1>2. n * (d - q) = r - m
  <2>1. n * (d - q) = n * d - n * q
    BY <1>1
  <2> QED
    BY <1>1, <2>1
<1>3. d - q \in Int /\ n * (d - q) < n /\ n * (d - q) > 0 - n
  BY <1>1, <1>2
<1>4. d - q = 0
  BY <1>3, SmallMultiple
<1>5. r = m
  BY <1>1, <1>2, <1>4
<1> QED
  BY <1>5 DEF m

\* Beginning anywhere, n steps lead to n different places.
LEMMA RoundOnce ==
  ASSUME NEW a \in Nat, NEW n \in Nat \ {0}, NEW i \in 0..(n - 1), NEW j \in 0..(n - 1),
         (a + i) % n = (a + j) % n
  PROVE  i = j
<1> DEFINE d == (a + i) \div n
           e == (a + j) \div n
           m == (a + i) % n
<1>1. d \in Int /\ e \in Int /\ m \in Int /\ a + i = n * d + m /\ a + j = n * e + m
  BY DivMod
<1> HIDE DEF d, e, m
<1>2. n * (d - e) = n * d - n * e
  BY <1>1
<1> DEFINE x == n * d
           y == n * e
<1>3. x \in Int /\ y \in Int /\ a + i = x + m /\ a + j = y + m
  BY <1>1
<1>4. x - y = i - j
  <2> HIDE DEF x, y
  <2> QED
    BY <1>1, <1>3
<1>5. d - e \in Int /\ n * (d - e) = i - j
  BY <1>1, <1>2, <1>4
<1>6. d - e = 0
  BY <1>5, SmallMultiple
<1> QED
  BY <1>5, <1>6

\* ... and every place is reached.
LEMMA RoundAll ==
  ASSUME NEW a \in Nat, NEW n \in Nat \ {0}, NEW k \in 0..(n - 1)
  PROVE  \E i \in 0..(n - 1) : (a + i) % n = k
<1> DEFINE i == (k - a) % n
           d == (k - a) \div n
<1>0. k - a \in Int
  OBVIOUS
<1>1. d \in Int /\ i \in 0..(n - 1) /\ k - a = n * d + i
  BY <1>0, DivMod
<1> HIDE DEF i, d
<1>2. a + i = n * (0 - d) + k
  <2>1. n * (0 - d) = 0 - n * d
    BY <1>1
  <2> QED
    BY <1>1, <2>1
<1>3. a + i \in Int /\ 0 - d \in Int
  BY <1>1
<1>4. (a + i) % n = k
  BY <1>2, <1>3, ModIs
<1> QED
  BY <1>1, <1>4

-----------------------------------------------------------------------------
(* The invariant of the goroutines that check nodes.                       *)

N == Len(nodes)
Places == 0..(N - 1)
Entry(k) == feasibleNodes[k]
Busy(w) == pc[w] \notin {"idle", "returned"}
Storing(w) == pc[w] = "store"
Over == {w \in Workers : pc[w] = "over"}

\* The counter without those that will take their increment back.
Slots == feasibleNodesLen - Cardinality(Over)

\* The array has a place for every node wanted; without a search there are no nodes.
ArrayOK ==
  /\ Searching \/ nodes = <<>>
  /\ nodes \in Seq(Node) /\ Distinct(nodes)
  /\ numNodesToFind \in Nat
  /\ feasibleNodes \in [1..numNodesToFind -> Node \cup {NoEntry}]

\* Whoever counted a node too many did so when every slot had been given away.
CounterOK ==
  /\ Slots \in 0..numNodesToFind
  /\ Over # {} => Slots = numNodesToFind

\* Every slot that was given away has an entry or will get one from one worker, the
\* others have none.
SlotsOK ==
  /\ \A k \in 1..numNodesToFind : Entry(k) # NoEntry => k <= Slots
  /\ \A k \in 1..numNodesToFind :
       k <= Slots => Entry(k) # NoEntry \/ \E w \in Workers : Storing(w) /\ length[w] = k
  /\ \A w \in Workers : Storing(w) =>
       /\ length[w] \in 1..numNodesToFind /\ length[w] <= Slots
       /\ Entry(length[w]) = NoEntry
  /\ \A w, v \in Workers :
       Storing(w) /\ Storing(v) /\ length[w] = length[v] => w = v

\* A piece is with the parallelizer, with one worker, rejected, or entered once.
PiecesApart ==
  /\ todo \cap result = {}
  /\ \A w \in Workers : Busy(w) => piece[w] \in Places \ (todo \cup result)
  /\ \A w, v \in Workers : Busy(w) /\ Busy(v) /\ piece[w] = piece[v] => w = v
EntriesApart ==
  /\ \A k \in 1..numNodesToFind : Entry(k) # NoEntry =>
       /\ Entry(k) \in Elements(nodes)
       /\ \A i \in todo \cup result : NodeOf(i) # Entry(k)
       /\ \A w \in Workers : Busy(w) => NodeOf(piece[w]) # Entry(k)
  /\ \A k, l \in 1..numNodesToFind : Entry(k) # NoEntry /\ Entry(k) = Entry(l) => k = l

\* No piece is lost, and the search not broken off, unless a plugin failed or enough
\* nodes were found.
EnoughOrFailed == failed \/ Slots = numNodesToFind
Accounted(i) ==
  \/ i \in todo \cup result
  \/ \E w \in Workers : Busy(w) /\ piece[w] = i
  \/ \E k \in 1..numNodesToFind : Entry(k) = NodeOf(i)
NothingLost ==
  /\ cancelled => EnoughOrFailed
  /\ \A i \in Places : Accounted(i) \/ EnoughOrFailed

SearchInv ==
  /\ TypeOK
  /\ ArrayOK /\ CounterOK /\ SlotsOK /\ PiecesApart /\ EntriesApart /\ NothingLost

-----------------------------------------------------------------------------
(* What the helpers return.                                                *)

\* Going round a list from any place gives its nodes, each one once.
Around(s, a, i) == s[((a + i) % Len(s)) + 1]

\* Going round a list of distinct nodes meets each of them once.
LEMMA AroundTheList ==
  ASSUME NEW s \in Seq(Node), Distinct(s), NEW a \in Nat
  PROVE  /\ Len(s) \in Nat
         /\ \A i \in 0..(Len(s) - 1) : Around(s, a, i) \in Elements(s) /\ Around(s, a, i) \in Node
         /\ \A i, j \in 0..(Len(s) - 1) : Around(s, a, i) = Around(s, a, j) => i = j
         /\ \A x \in Elements(s) :
              x \in Node /\ \E i \in 0..(Len(s) - 1) : Around(s, a, i) = x
<1> DEFINE n == Len(s)
           I == 0..(n - 1)
           at(i) == (a + i) % n
<1>1. n \in Nat /\ DOMAIN s = 1..n /\ \A k \in 1..n : s[k] \in Node
  OBVIOUS
<1>2. \A i : Around(s, a, i) = s[at(i) + 1]
  BY DEF Around
<1>3. ASSUME NEW i \in I PROVE n # 0 /\ i \in Int /\ a + i \in Int
  BY <1>1
<1>4. ASSUME NEW i \in I PROVE at(i) \in 0..(n - 1)
  BY <1>1, <1>3, DivMod
<1>5. ASSUME NEW i \in I PROVE Around(s, a, i) \in Elements(s) /\ Around(s, a, i) \in Node
  <2>1. at(i) + 1 \in 1..n
    BY <1>1, <1>4
  <2> QED
    BY <1>1, <1>2, <2>1 DEF Elements
<1>6. ASSUME NEW i \in I, NEW j \in I, Around(s, a, i) = Around(s, a, j) PROVE i = j
  <2>1. at(i) \in 0..(n - 1) /\ at(j) \in 0..(n - 1)
    BY <1>4
  <2>2. at(i) + 1 = at(j) + 1
    <3> HIDE DEF at
    <3> QED
      BY <1>1, <1>2, <1>6, <2>1, SMTT(40) DEF Distinct
  <2>3. at(i) = at(j)
    <3> HIDE DEF at
    <3> QED
      BY <1>1, <2>1, <2>2
  <2> QED
    BY <1>1, <1>3, <2>3, RoundOnce
<1>7. ASSUME NEW x \in Elements(s) PROVE x \in Node /\ \E i \in I : Around(s, a, i) = x
  <2>1. PICK k \in 1..n : x = s[k]
    BY <1>1 DEF Elements
  <2>2. n \in Nat \ {0} /\ k - 1 \in 0..(n - 1)
    BY <1>1, <2>1
  <2>3. PICK i \in 0..(n - 1) : at(i) = k - 1
    BY <2>2, RoundAll
  <2>4. at(i) + 1 = k
    BY <2>1, <2>3
  <2> QED
    BY <1>1, <1>2, <2>1, <2>3, <2>4
<1> QED
  BY <1>1, <1>5, <1>6, <1>7

\* The pieces are the nodes of the list.
LEMMA PiecesAreNodes ==
  ASSUME nodes \in Seq(Node), Distinct(nodes), nextStartNodeIndex \in Nat
  PROVE  /\ N \in Nat
         /\ \A i \in Places : NodeOf(i) \in Elements(nodes) /\ NodeOf(i) \in Node
         /\ \A i, j \in Places : NodeOf(i) = NodeOf(j) => i = j
         /\ \A x \in Elements(nodes) : x \in Node /\ \E i \in Places : NodeOf(i) = x
BY AroundTheList DEF Around, N, Places, NodeOf

\* An array is a sequence.
LEMMA ArrayIsSeq == ASSUME NEW S, NEW n \in Nat, NEW f \in [1..n -> S] PROVE f \in Seq(S) /\ Len(f) = n
<1>1. f \in Seq(S)
  BY SeqDef
<1>2. Len(f) \in Nat /\ DOMAIN f = 1..Len(f) /\ DOMAIN f = 1..n
  BY <1>1
<1> QED
  BY <1>1, <1>2

\* No more nodes are wanted than there are, and at least one.
LEMMA WantedBounds ==
  ASSUME NEW n \in Nat, NEW scoring \in BOOLEAN
  PROVE  /\ Wanted(n, scoring) \in Nat
         /\ n > 0 => Wanted(n, scoring) \in 1..n
<1> USE SettingsAssumption
<1>1. Percentage(n) \in 1..100
  <2>1. n \div 125 \in Nat
    BY DivMod
  <2> DEFINE adaptive == 50 - n \div 125
  <2>2. adaptive \in Int /\ adaptive <= 50
    BY <2>1
  <2>3. Percentage(n) = IF PercentageOfNodesToScore # 0 THEN PercentageOfNodesToScore
                        ELSE IF adaptive < 5 THEN 5 ELSE adaptive
    BY DEF Percentage, MinFeasibleNodesPercentageToFind
  <2> HIDE DEF adaptive
  <2> QED
    BY <2>2, <2>3
<1> DEFINE pct == Percentage(n)
           share == (n * pct) \div 100
<1>2. share \in Int /\ share <= n
  <2>1. n * pct \in Nat /\ n * pct <= n * 100
    BY <1>1
  <2>2. \A a \in Nat : a <= n * 100 => a \div 100 \in Int /\ a \div 100 <= n
    OBVIOUS
  <2> QED
    BY <2>1, <2>2
<1>3. NumFeasibleNodesToFind(n) =
        IF n < MinFeasibleNodesToFind THEN n
        ELSE IF share < MinFeasibleNodesToFind THEN MinFeasibleNodesToFind ELSE share
  BY DEF NumFeasibleNodesToFind
<1> HIDE DEF share
<1>4. NumFeasibleNodesToFind(n) \in Nat /\ (n > 0 => NumFeasibleNodesToFind(n) \in 1..n)
  BY <1>2, <1>3
<1> QED
  BY <1>4 DEF Wanted

\* The workers that found a node too many can be counted.
LEMMA OverFinite == IsFiniteSet(Over) /\ Cardinality(Over) \in Nat
BY WorkersAssumption, FS_Subset, FS_CardinalityType DEF Over

-----------------------------------------------------------------------------
(* The steps of a worker.                                                  *)

\* A worker leaves the search and the other workers alone.
Alone(w) ==
  /\ UNCHANGED <<nextStartNodeIndex, search, nodeToStatus>>
  /\ \A v \in Workers \ {w} : pc'[v] = pc[v] /\ piece'[v] = piece[v] /\ length'[v] = length[v]

\* A step of checkNode changes the program counter of its worker only.
LEMMA WorkerAlone == ASSUME TypeOK, NEW w \in Workers, CheckNode(w) PROVE Alone(w)
BY DEF CheckNode, Take, Begin, Reject, Fail, Count, Withdraw, Store, TypeOK, Alone

\* The nodes behind the pieces stay the same.
LEMMA SamePieces ==
  ASSUME UNCHANGED <<nextStartNodeIndex, nodes>>
  PROVE  N' = N /\ Places' = Places /\ \A i : NodeOf(i)' = NodeOf(i)
BY DEF N, Places, NodeOf

\* Taking a piece keeps the invariant.
LEMMA TakeStep == ASSUME SearchInv, NEW w \in Workers, Take(w) PROVE SearchInv'
<1>1. PICK i \in todo : /\ todo' = todo \ {i}
                        /\ piece' = [piece EXCEPT ![w] = i]
  BY DEF Take
<1>2. /\ pc[w] = "idle" /\ pc' = [pc EXCEPT ![w] = "taken"]
      /\ UNCHANGED <<nextStartNodeIndex, search, nodeToStatus, shared, length>>
  BY DEF Take
<1>3. /\ UNCHANGED <<nextStartNodeIndex, phase, hasFilters, scores, nodes, numNodesToFind,
                     nodeToStatus, cancelled, failed, feasibleNodesLen, feasibleNodes,
                     result, length>>
  BY <1>2 DEF search, shared
<1>4. TypeOK
  BY DEF SearchInv
<1>5. /\ pc'[w] = "taken" /\ piece'[w] = i
      /\ \A v \in Workers \ {w} : pc'[v] = pc[v] /\ piece'[v] = piece[v]
  BY <1>1, <1>2, <1>4 DEF TypeOK
<1>6. N \in Nat /\ i \in Places
  BY <1>4, <1>1 DEF N, Places, TypeOK
<1>7. Over' = Over /\ Slots' = Slots
  <2>1. Over' = Over
    BY <1>2, <1>5 DEF Over
  <2> QED
    BY <1>3, <2>1 DEF Slots
<1>8. Places' = Places /\ \A j : NodeOf(j)' = NodeOf(j)
  BY <1>3, SamePieces
<1>9. TypeOK'
  <2>1. phase \in {"nominated", "all"}
    BY <1>6 DEF SearchInv, ArrayOK, Searching, N, Places
  <2> QED
    BY <1>1, <1>2, <1>3, <1>4, <1>5, <1>6, <2>1 DEF TypeOK, Searching, N, Places
<1>10. ArrayOK' /\ CounterOK'
  BY <1>3, <1>7 DEF SearchInv, ArrayOK, CounterOK, Searching
<1>11. SlotsOK'
  BY <1>2, <1>3, <1>5, <1>7 DEF SearchInv, SlotsOK, Entry, Storing
<1>12. PiecesApart'
  BY <1>1, <1>2, <1>3, <1>5, <1>6, <1>8 DEF SearchInv, PiecesApart, Busy
<1>13. EntriesApart'
  BY <1>1, <1>2, <1>3, <1>5, <1>8 DEF SearchInv, EntriesApart, Entry, Busy
<1>14. NothingLost'
  BY <1>1, <1>2, <1>3, <1>5, <1>7, <1>8 DEF SearchInv, NothingLost, EnoughOrFailed, Accounted, Entry, Busy
<1> QED
  BY <1>9, <1>10, <1>11, <1>12, <1>13, <1>14 DEF SearchInv

\* So does looking at the context: a piece is dropped only if enough nodes were found
\* or a plugin failed.
LEMMA BeginStep == ASSUME SearchInv, NEW w \in Workers, Begin(w) PROVE SearchInv'
<1>1. /\ pc[w] = "taken" /\ pc' = [pc EXCEPT ![w] = IF cancelled THEN "returned" ELSE "filter"]
      /\ UNCHANGED <<nextStartNodeIndex, phase, hasFilters, scores, nodes, numNodesToFind,
                     nodeToStatus, todo, cancelled, failed, feasibleNodesLen, feasibleNodes,
                     result, piece, length>>
  BY DEF Begin, search, shared
<1>2. TypeOK
  BY DEF SearchInv
<1>3. /\ pc'[w] = IF cancelled THEN "returned" ELSE "filter"
      /\ \A v \in Workers \ {w} : pc'[v] = pc[v]
  BY <1>1, <1>2 DEF TypeOK
<1>4. Over' = Over /\ Slots' = Slots
  <2>1. Over' = Over
    BY <1>1, <1>3 DEF Over
  <2> QED
    BY <1>1, <2>1 DEF Slots
<1>5. Places' = Places /\ \A j : NodeOf(j)' = NodeOf(j)
  BY <1>1, SamePieces
<1>6. TypeOK'
  <2>1. pc' \in [Workers -> {"idle", "taken", "filter", "over", "store", "returned"}]
    BY <1>1, <1>2 DEF TypeOK
  <2> QED
    BY <1>1, <1>2, <1>3, <2>1 DEF TypeOK, Searching
<1>7. ArrayOK' /\ CounterOK'
  BY <1>1, <1>4 DEF SearchInv, ArrayOK, CounterOK, Searching
<1>8. SlotsOK'
  BY <1>1, <1>3, <1>4 DEF SearchInv, SlotsOK, Entry, Storing
<1>9. PiecesApart' /\ EntriesApart'
  BY <1>1, <1>3, <1>5 DEF SearchInv, PiecesApart, EntriesApart, Entry, Busy
<1>10. NothingLost'
  <2>1. CASE cancelled
    BY <1>1, <1>4, <2>1 DEF SearchInv, NothingLost, EnoughOrFailed
  <2>2. CASE ~cancelled
    <3>1. \A v \in Workers : Busy(v)' <=> Busy(v)
      BY <1>1, <1>3, <2>2 DEF Busy
    <3> QED
      BY <1>1, <1>4, <1>5, <3>1 DEF SearchInv, NothingLost, EnoughOrFailed, Accounted, Entry
  <2> QED
    BY <2>1, <2>2
<1> QED
  BY <1>6, <1>7, <1>8, <1>9, <1>10 DEF SearchInv

\* A node that the filters reject keeps it.
LEMMA RejectStep == ASSUME SearchInv, NEW w \in Workers, Reject(w) PROVE SearchInv'
<1>1. /\ pc[w] = "filter" /\ pc' = [pc EXCEPT ![w] = "idle"]
      /\ result' = result \cup {piece[w]}
      /\ UNCHANGED <<nextStartNodeIndex, phase, hasFilters, scores, nodes, numNodesToFind,
                     nodeToStatus, todo, cancelled, failed, feasibleNodesLen, feasibleNodes,
                     piece, length>>
  BY DEF Reject, search
<1>2. TypeOK
  BY DEF SearchInv
<1>3. pc'[w] = "idle" /\ \A v \in Workers \ {w} : pc'[v] = pc[v]
  BY <1>1, <1>2 DEF TypeOK
<1>4. piece[w] \in Places /\ piece[w] \notin todo /\ piece[w] \notin result
  BY <1>1 DEF SearchInv, PiecesApart, Busy
<1>5. Over' = Over /\ Slots' = Slots
  <2>1. Over' = Over
    BY <1>1, <1>3 DEF Over
  <2> QED
    BY <1>1, <2>1 DEF Slots
<1>6. Places' = Places /\ \A j : NodeOf(j)' = NodeOf(j)
  BY <1>1, SamePieces
<1>7. TypeOK'
  BY <1>1, <1>2, <1>3, <1>4 DEF TypeOK, Searching, N, Places
<1>8. ArrayOK' /\ CounterOK'
  BY <1>1, <1>5 DEF SearchInv, ArrayOK, CounterOK, Searching
<1>9. SlotsOK'
  BY <1>1, <1>3, <1>5 DEF SearchInv, SlotsOK, Entry, Storing
<1>10. PiecesApart'
  BY <1>1, <1>3, <1>4, <1>6 DEF SearchInv, PiecesApart, Busy
<1>11. EntriesApart'
  BY <1>1, <1>3, <1>6 DEF SearchInv, EntriesApart, Entry, Busy
<1>12. NothingLost'
  BY <1>1, <1>3, <1>5, <1>6 DEF SearchInv, NothingLost, EnoughOrFailed, Accounted, Entry, Busy
<1> QED
  BY <1>7, <1>8, <1>9, <1>10, <1>11, <1>12 DEF SearchInv

\* A filter that fails, which cancels the search, keeps it.
LEMMA FailStep == ASSUME SearchInv, NEW w \in Workers, Fail(w) PROVE SearchInv'
<1>1. /\ pc[w] = "filter" /\ pc' = [pc EXCEPT ![w] = "idle"] /\ failed' = TRUE /\ cancelled' = TRUE
      /\ UNCHANGED <<nextStartNodeIndex, phase, hasFilters, scores, nodes, numNodesToFind,
                     nodeToStatus, todo, feasibleNodesLen, feasibleNodes, result,
                     piece, length>>
  BY DEF Fail, search
<1>2. TypeOK
  BY DEF SearchInv
<1>3. pc'[w] = "idle" /\ \A v \in Workers \ {w} : pc'[v] = pc[v]
  BY <1>1, <1>2 DEF TypeOK
<1>4. Over' = Over /\ Slots' = Slots
  <2>1. Over' = Over
    BY <1>1, <1>3 DEF Over
  <2> QED
    BY <1>1, <2>1 DEF Slots
<1>5. Places' = Places /\ \A j : NodeOf(j)' = NodeOf(j)
  BY <1>1, SamePieces
<1>6. TypeOK'
  BY <1>1, <1>2, <1>3 DEF TypeOK, Searching
<1>7. ArrayOK' /\ CounterOK'
  BY <1>1, <1>4 DEF SearchInv, ArrayOK, CounterOK, Searching
<1>8. SlotsOK'
  BY <1>1, <1>3, <1>4 DEF SearchInv, SlotsOK, Entry, Storing
<1>9. PiecesApart' /\ EntriesApart'
  BY <1>1, <1>3, <1>5 DEF SearchInv, PiecesApart, EntriesApart, Entry, Busy
<1>10. NothingLost'
  BY <1>1 DEF NothingLost, EnoughOrFailed
<1> QED
  BY <1>6, <1>7, <1>8, <1>9, <1>10 DEF SearchInv

\* The counter gives a slot away, or it is past the last one.
LEMMA CountStep == ASSUME SearchInv, NEW w \in Workers, Count(w) PROVE SearchInv'
<1> DEFINE slot == feasibleNodesLen + 1
<1>1. /\ pc[w] = "filter"
      /\ feasibleNodesLen' = slot /\ length' = [length EXCEPT ![w] = slot]
      /\ pc' = [pc EXCEPT ![w] = IF slot > numNodesToFind THEN "over" ELSE "store"]
      /\ UNCHANGED <<nextStartNodeIndex, phase, hasFilters, scores, nodes, numNodesToFind,
                     nodeToStatus, todo, cancelled, failed, feasibleNodes, result, piece>>
  BY DEF Count, TooMany, search
<1>2. TypeOK /\ ArrayOK /\ CounterOK /\ SlotsOK
  BY DEF SearchInv
<1>3. /\ feasibleNodesLen \in Nat /\ numNodesToFind \in Nat
      /\ length'[w] = slot /\ \A v \in Workers \ {w} : pc'[v] = pc[v] /\ length'[v] = length[v]
  BY <1>1, <1>2 DEF TypeOK
<1>4. Places' = Places /\ \A j : NodeOf(j)' = NodeOf(j)
  BY <1>1, SamePieces
<1>5. pc'[w] # "idle" /\ TypeOK'
  <2>1. pc'[w] \in {"over", "store"}
    BY <1>1, <1>2 DEF TypeOK
  <2> QED
    BY <1>1, <1>2, <1>3, <2>1 DEF TypeOK, Searching
<1>6. PiecesApart' /\ EntriesApart'
  BY <1>1, <1>3, <1>4, <1>5 DEF SearchInv, PiecesApart, EntriesApart, Entry, Busy
<1>7. ArrayOK'
  BY <1>1, <1>2 DEF ArrayOK, Searching
<1>8. CASE slot > numNodesToFind
  <2>1. pc'[w] = "over"
    BY <1>1, <1>2, <1>8 DEF TypeOK
  <2>2. Over' = Over \cup {w} /\ w \notin Over
    BY <1>1, <1>3, <2>1 DEF Over
  <2>3. Cardinality(Over') = Cardinality(Over) + 1
    BY <2>2, OverFinite, FS_AddElement
  <2>4. Slots' = Slots
    BY <1>1, <1>3, <2>3, OverFinite DEF Slots
  <2>5. Slots = numNodesToFind
    <3>1. CASE Over = {}
      <4>1. Slots = feasibleNodesLen
        BY <1>3, <3>1, FS_EmptySet DEF Slots
      <4> QED
        BY <1>2, <1>3, <1>8, <4>1 DEF CounterOK
    <3> QED
      BY <1>2, <3>1 DEF CounterOK
  <2>6. CounterOK' /\ NothingLost'
    BY <1>1, <1>2, <2>4, <2>5 DEF CounterOK, NothingLost, EnoughOrFailed
  <2>7. SlotsOK'
    BY <1>1, <1>2, <1>3, <2>1, <2>4 DEF SlotsOK, Entry, Storing
  <2> QED
    BY <1>5, <1>6, <1>7, <2>6, <2>7 DEF SearchInv
<1>9. CASE ~(slot > numNodesToFind)
  <2>1. pc'[w] = "store"
    BY <1>1, <1>2, <1>9 DEF TypeOK
  <2>2. Over' = Over
    BY <1>1, <1>3, <2>1 DEF Over
  <2>3. Over = {}
    <3>1. Cardinality(Over) \in Nat /\ (Cardinality(Over) = 0 => Over = {})
      BY OverFinite, FS_EmptySet
    <3> QED
      BY <1>2, <1>3, <1>9, <3>1 DEF CounterOK, Slots
  <2>4. Slots = feasibleNodesLen /\ Slots' = slot /\ slot \in 1..numNodesToFind
    BY <1>1, <1>3, <1>9, <2>2, <2>3, FS_EmptySet DEF Slots
  <2>5. CounterOK'
    BY <1>1, <1>3, <2>2, <2>3, <2>4 DEF CounterOK
  <2>6. SlotsOK'
    <3>1. Entry(slot) = NoEntry /\ \A v \in Workers : Storing(v) => length[v] # slot
      BY <1>2, <1>3, <2>4 DEF SlotsOK
    <3>2. w \in Workers /\ ~Storing(w) /\ Storing(w)' /\ \A v \in Workers \ {w} : Storing(v)' <=> Storing(v)
      BY <1>1, <1>3, <2>1 DEF Storing
    <3>3. \A k : Entry(k)' = Entry(k)
      BY <1>1 DEF Entry
    <3>4. \A k \in 1..numNodesToFind : k <= slot <=> k <= Slots \/ k = slot
      BY <1>3, <2>4
    <3>5. \A k \in 1..numNodesToFind : Entry(k)' # NoEntry => k <= Slots'
      BY <1>2, <2>4, <3>3, <3>4 DEF SlotsOK
    <3>6. ASSUME NEW k \in 1..numNodesToFind, k <= Slots'
          PROVE  Entry(k)' # NoEntry \/ \E v \in Workers : Storing(v)' /\ length'[v] = k
      BY <1>2, <1>3, <2>4, <3>2, <3>3, <3>4, <3>6 DEF SlotsOK
    <3>7. ASSUME NEW v \in Workers, Storing(v)'
          PROVE  /\ length'[v] \in 1..numNodesToFind /\ length'[v] <= Slots'
                 /\ feasibleNodes'[length'[v]] = NoEntry
      BY <1>1, <1>2, <1>3, <2>4, <3>1, <3>2, <3>4, <3>7 DEF SlotsOK, Entry
    <3>8. ASSUME NEW u \in Workers, NEW v \in Workers, Storing(u)', Storing(v)',
                 length'[u] = length'[v]
          PROVE  u = v
      BY <1>2, <1>3, <3>1, <3>2, <3>8 DEF SlotsOK
    <3>9. numNodesToFind' = numNodesToFind
      BY <1>1
    <3> QED
      BY <3>5, <3>6, <3>7, <3>8, <3>9 DEF SlotsOK, Entry
  <2>7. NothingLost'
    <3>1. EnoughOrFailed => failed
      BY <1>3, <2>4 DEF EnoughOrFailed
    <3>2. \A i \in Places : Accounted(i) => Accounted(i)'
      BY <1>1, <1>3, <1>4, <1>5 DEF Accounted, Busy, Entry
    <3> QED
      BY <1>1, <1>4, <3>1, <3>2 DEF SearchInv, NothingLost, EnoughOrFailed
  <2> QED
    BY <1>5, <1>6, <1>7, <2>5, <2>6, <2>7 DEF SearchInv
<1> QED
  BY <1>8, <1>9

\* Taking back a count too many keeps it.
LEMMA WithdrawStep == ASSUME SearchInv, NEW w \in Workers, Withdraw(w) PROVE SearchInv'
<1>1. /\ pc[w] = "over" /\ pc' = [pc EXCEPT ![w] = "idle"] /\ cancelled' = TRUE
      /\ feasibleNodesLen' = feasibleNodesLen - 1
      /\ UNCHANGED <<nextStartNodeIndex, phase, hasFilters, scores, nodes, numNodesToFind,
                     nodeToStatus, todo, failed, feasibleNodes, result, piece, length>>
  BY DEF Withdraw, Decremented, search
<1>2. TypeOK /\ CounterOK
  BY DEF SearchInv
<1>3. pc'[w] = "idle" /\ \A v \in Workers \ {w} : pc'[v] = pc[v]
  BY <1>1, <1>2 DEF TypeOK
<1>4. Over' = Over \ {w} /\ w \in Over
  BY <1>1, <1>3 DEF Over
<1>5. Cardinality(Over') = Cardinality(Over) - 1 /\ Cardinality(Over) \in Nat /\ Cardinality(Over') \in Nat
  BY <1>4, OverFinite, FS_RemoveElement, FS_CardinalityType
<1>6. Slots' = Slots /\ Slots = numNodesToFind /\ feasibleNodesLen' \in Nat
  BY <1>1, <1>2, <1>4, <1>5 DEF Slots, CounterOK, TypeOK
<1>7. Places' = Places /\ \A j : NodeOf(j)' = NodeOf(j)
  BY <1>1, SamePieces
<1>8. TypeOK'
  BY <1>1, <1>2, <1>3, <1>6 DEF TypeOK, Searching
<1>9. ArrayOK' /\ CounterOK' /\ NothingLost'
  BY <1>1, <1>2, <1>6 DEF SearchInv, ArrayOK, CounterOK, NothingLost, EnoughOrFailed, Searching
<1>10. SlotsOK'
  BY <1>1, <1>3, <1>6 DEF SearchInv, SlotsOK, Entry, Storing
<1>11. PiecesApart' /\ EntriesApart'
  BY <1>1, <1>3, <1>7 DEF SearchInv, PiecesApart, EntriesApart, Entry, Busy
<1> QED
  BY <1>8, <1>9, <1>10, <1>11 DEF SearchInv

\* Storing a node at the place that was counted keeps it.
LEMMA StoreStep == ASSUME SearchInv, NEW w \in Workers, Store(w) PROVE SearchInv'
<1> DEFINE k == length[w]
           node == NodeOf(piece[w])
<1>1. /\ pc[w] = "store" /\ pc' = [pc EXCEPT ![w] = "idle"]
      /\ feasibleNodes' = [feasibleNodes EXCEPT ![k] = node]
      /\ UNCHANGED <<nextStartNodeIndex, phase, hasFilters, scores, nodes, numNodesToFind,
                     nodeToStatus, todo, cancelled, failed, feasibleNodesLen, result,
                     piece, length>>
  BY DEF Store, search
<1>2. TypeOK /\ ArrayOK /\ SlotsOK /\ PiecesApart /\ EntriesApart
  BY DEF SearchInv
<1>3. pc'[w] = "idle" /\ \A v \in Workers \ {w} : pc'[v] = pc[v]
  BY <1>1, <1>2 DEF TypeOK
<1>4. k \in 1..numNodesToFind /\ k <= Slots /\ Entry(k) = NoEntry
  BY <1>1, <1>2 DEF SlotsOK, Storing
<1>5. piece[w] \in Places \ (todo \cup result)
  BY <1>1, <1>2 DEF PiecesApart, Busy
<1>6. /\ node \in Elements(nodes) /\ node \in Node
      /\ \A i \in Places : NodeOf(i) = node => i = piece[w]
  BY <1>2, <1>5, PiecesAreNodes DEF ArrayOK, TypeOK
<1>7. node # NoEntry
  BY <1>6, NodesAssumption
<1>8. Over' = Over /\ Slots' = Slots
  <2>1. Over' = Over
    BY <1>1, <1>3 DEF Over
  <2> QED
    BY <1>1, <2>1 DEF Slots
<1>9. Places' = Places /\ \A j : NodeOf(j)' = NodeOf(j)
  BY <1>1, SamePieces
<1> HIDE DEF node
<1>10. ArrayOK'
  BY <1>1, <1>2, <1>4, <1>6 DEF ArrayOK, Searching
<1>11. \A l \in 1..numNodesToFind : Entry(l)' = IF l = k THEN node ELSE Entry(l)
  BY <1>1, <1>2, <1>4 DEF ArrayOK, Entry
<1>12. TypeOK'
  <2>1. feasibleNodes' \in Seq(Node \cup {NoEntry})
    BY <1>1, <1>10, ArrayIsSeq DEF ArrayOK
  <2> QED
    BY <1>1, <1>2, <1>3, <2>1 DEF TypeOK, Searching
<1>13. CounterOK'
  BY <1>1, <1>8 DEF SearchInv, CounterOK
<1>14. SlotsOK'
  <2>1. \A v \in Workers : Storing(v)' <=> Storing(v) /\ v # w
    BY <1>1, <1>3 DEF Storing
  <2>2. Storing(w)
    BY <1>1 DEF Storing
  <2>3. \A l \in 1..numNodesToFind : Entry(l)' # NoEntry => l <= Slots
    BY <1>2, <1>4, <1>11 DEF SlotsOK
  <2>4. \A l \in 1..numNodesToFind :
          l <= Slots => Entry(l)' # NoEntry \/ \E v \in Workers : Storing(v)' /\ length[v] = l
    BY <1>2, <1>7, <1>11, <2>1 DEF SlotsOK
  <2>5. ASSUME NEW v \in Workers, Storing(v)'
        PROVE  /\ length[v] \in 1..numNodesToFind /\ length[v] <= Slots
               /\ feasibleNodes'[length[v]] = NoEntry
    <3>1. /\ length[v] \in 1..numNodesToFind /\ length[v] <= Slots
          /\ feasibleNodes[length[v]] = NoEntry /\ length[v] # k
      BY <1>2, <2>1, <2>2, <2>5 DEF SlotsOK, Entry
    <3> QED
      BY <1>11, <3>1 DEF Entry
  <2>6. \A u, v \in Workers : Storing(u)' /\ Storing(v)' /\ length[u] = length[v] => u = v
    BY <1>2, <2>1 DEF SlotsOK
  <2> QED
    BY <1>1, <1>8, <2>3, <2>4, <2>5, <2>6 DEF SlotsOK, Entry
<1>15. PiecesApart'
  BY <1>1, <1>2, <1>3, <1>9 DEF PiecesApart, Busy
<1>16. EntriesApart'
  <2>1. ASSUME NEW l \in 1..numNodesToFind, Entry(l)' # NoEntry
        PROVE  /\ Entry(l)' \in Elements(nodes)
               /\ \A i \in todo \cup result : NodeOf(i) # Entry(l)'
               /\ \A v \in Workers : Busy(v)' => NodeOf(piece[v]) # Entry(l)'
    <3>1. CASE l = k
      <4>1. \A i \in todo \cup result : i \in Places /\ i # piece[w]
        BY <1>2, <1>5 DEF TypeOK, Places, N
      <4>2. \A v \in Workers : Busy(v)' => v # w /\ piece[v] \in Places /\ piece[v] # piece[w]
        BY <1>1, <1>2, <1>3 DEF PiecesApart, Busy
      <4> QED
        BY <1>6, <1>11, <3>1, <4>1, <4>2
    <3>2. CASE l # k
      BY <1>1, <1>2, <1>3, <1>11, <2>1, <3>2 DEF EntriesApart, Busy
    <3> QED
      BY <3>1, <3>2
  <2>2. ASSUME NEW l \in 1..numNodesToFind, Entry(l)' # NoEntry, l # k PROVE Entry(l)' # node
    BY <1>1, <1>2, <1>11, <2>2 DEF EntriesApart, Busy, node
  <2>3. ASSUME NEW l \in 1..numNodesToFind, NEW m \in 1..numNodesToFind,
               Entry(l)' # NoEntry, Entry(l)' = Entry(m)'
        PROVE  l = m
    BY <1>2, <1>11, <2>2, <2>3 DEF EntriesApart
  <2> QED
    BY <1>1, <1>9, <2>1, <2>3 DEF EntriesApart, Busy, Entry
<1>17. NothingLost'
  <2>1. ASSUME NEW i \in Places, Accounted(i) PROVE Accounted(i)'
    <3>1. CASE \E l \in 1..numNodesToFind : Entry(l) = NodeOf(i)
      <4>1. NodeOf(i) # NoEntry
        BY <1>2, PiecesAreNodes, NodesAssumption DEF ArrayOK, TypeOK
      <4> QED
        BY <1>1, <1>4, <1>9, <1>11, <3>1, <4>1 DEF Accounted, Entry
    <3>2. CASE i = piece[w]
      BY <1>1, <1>4, <1>9, <1>11, <3>2 DEF Accounted, Entry, node
    <3> QED
      BY <1>1, <1>3, <1>9, <2>1, <3>1, <3>2 DEF Accounted, Busy
  <2> QED
    BY <1>1, <1>8, <1>9, <2>1 DEF SearchInv, NothingLost, EnoughOrFailed
<1> QED
  BY <1>10, <1>12, <1>13, <1>14, <1>15, <1>16, <1>17 DEF SearchInv

-----------------------------------------------------------------------------
(* The beginning and the end of a search.                                  *)

Idle == \A w \in Workers : ~Busy(w)

\* A search of some nodes starts with the invariant.
LEMMA SearchStarts ==
  ASSUME TypeOK, Idle, NEW K \in SUBSET Node, Search(List[K]),
         nextStartNodeIndex' = nextStartNodeIndex,
         hasFilters' \in BOOLEAN, scores' \in BOOLEAN,
         phase' \in {"nominated", "all"}, nodeToStatus' \subseteq Node
  PROVE  SearchInv'
<1> DEFINE n == Len(List[K])
           wanted == IF n = 0 /\ ~hasFilters' THEN 0 ELSE Wanted(n, scores')
           at(k) == List[K][((nextStartNodeIndex + k - 1) % n) + 1]
<1>1. List[K] \in Seq(Node) /\ Distinct(List[K]) /\ n \in Nat
  BY NodesAssumption
<1>2. /\ nodes' = List[K] /\ numNodesToFind' = wanted
      /\ cancelled' = FALSE /\ failed' = FALSE /\ result' = {}
      /\ pc' = [w \in Workers |-> "idle"] /\ UNCHANGED <<piece, length>>
      /\ IF hasFilters'
           THEN /\ todo' = Pieces(n) /\ feasibleNodesLen' = 0
                /\ feasibleNodes' = [k \in 1..wanted |-> NoEntry]
           ELSE /\ todo' = {} /\ feasibleNodesLen' = wanted
                /\ feasibleNodes' = [k \in 1..wanted |-> at(k)]
  BY DEF Search
<1>3. wanted \in Nat /\ (~hasFilters' => wanted <= n)
  <2>1. CASE n = 0 /\ ~hasFilters'
    BY <2>1
  <2>2. CASE ~(n = 0 /\ ~hasFilters')
    <3>1. wanted = Wanted(n, scores')
      BY <2>2
    <3> QED
      BY <1>1, <2>2, <3>1, WantedBounds, SMTT(40)
  <2> QED
    BY <2>1, <2>2
<1> HIDE DEF n, wanted, at
<1>4. N' = n /\ Places' = Pieces(n)
  BY <1>2 DEF N, Places, Pieces, n
<1>5. ASSUME ~hasFilters', NEW k \in 1..wanted
      PROVE  at(k) = NodeOf(k - 1)' /\ k - 1 \in Places'
  <2>1. nextStartNodeIndex + k - 1 = nextStartNodeIndex + (k - 1)
    BY <1>3 DEF TypeOK
  <2>2. k - 1 \in 0..(n - 1)
    BY <1>1, <1>3, <1>5
  <2> QED
    BY <1>2, <1>4, <2>1, <2>2 DEF NodeOf, at, n, Pieces
<1>6. /\ \A i \in Places' : NodeOf(i)' \in Elements(nodes') /\ NodeOf(i)' \in Node
      /\ \A i, j \in Places' : NodeOf(i)' = NodeOf(j)' => i = j
  <2> DEFINE s == List[K]
             a == nextStartNodeIndex
  <2>1. s \in Seq(Node) /\ Distinct(s) /\ a \in Nat
    BY <1>1 DEF TypeOK
  <2>2. \A i : NodeOf(i)' = Around(s, a, i)
    BY <1>2 DEF NodeOf, Around
  <2>3. Places' = 0..(Len(s) - 1)
    BY <1>2 DEF Places, N
  <2>4. nodes' = s
    BY <1>2
  <2> HIDE DEF s, a
  <2>5. /\ \A i \in 0..(Len(s) - 1) : Around(s, a, i) \in Elements(s) /\ Around(s, a, i) \in Node
        /\ \A i, j \in 0..(Len(s) - 1) : Around(s, a, i) = Around(s, a, j) => i = j
    BY <2>1, AroundTheList
  <2>6. Elements(nodes') = Elements(s)
    BY <2>4
  <2> QED
    BY <2>2, <2>3, <2>5, <2>6
<1>7. Over' = {} /\ Slots' = feasibleNodesLen' /\ \A w \in Workers : ~Busy(w)' /\ ~Storing(w)'
  <2>1. Over' = {}
    BY <1>2 DEF Over
  <2>2. feasibleNodesLen' \in Nat
    BY <1>2, <1>3
  <2> QED
    BY <1>2, <2>1, <2>2, FS_EmptySet DEF Slots, Busy, Storing
<1>8. ArrayOK'
  <2>1. feasibleNodes' \in [1..wanted -> Node \cup {NoEntry}]
    BY <1>2, <1>5, <1>6
  <2> QED
    BY <1>1, <1>2, <1>3, <2>1 DEF ArrayOK, Searching
<1>9. TypeOK'
  <2>1. feasibleNodes' \in Seq(Node \cup {NoEntry})
    BY <1>2, <1>3, <1>8, ArrayIsSeq DEF ArrayOK
  <2>2. todo' \subseteq 0..(Len(nodes') - 1) /\ result' \subseteq 0..(Len(nodes') - 1)
    BY <1>2 DEF Pieces, n
  <2>3. /\ nodes' \in Seq(Node) /\ numNodesToFind' \in Nat /\ feasibleNodesLen' \in Nat
        /\ cancelled' \in BOOLEAN /\ failed' \in BOOLEAN
    <3>1. feasibleNodesLen' \in {0, wanted}
      BY <1>2
    <3>2. /\ nodes' = List[K] /\ numNodesToFind' = wanted
          /\ cancelled' = FALSE /\ failed' = FALSE
      BY <1>2
    <3>3. feasibleNodesLen' \in Nat /\ numNodesToFind' \in Nat
      BY <1>3, <3>1, <3>2
    <3> QED
      BY <1>1, <3>2, <3>3
  <2>4. /\ nextStartNodeIndex' \in Nat
        /\ phase' \in {"idle", "nominated", "all", "panic"}
    BY DEF TypeOK
  <2>5. /\ pc' \in [Workers -> {"idle", "taken", "filter", "over", "store", "returned"}]
        /\ piece' \in [Workers -> Nat] /\ length' \in [Workers -> Nat]
        /\ \A w \in Workers : pc'[w] = "idle"
    BY <1>2 DEF TypeOK
  <2> QED
    BY <2>1, <2>2, <2>3, <2>4, <2>5 DEF TypeOK
<1>10. CounterOK'
  BY <1>2, <1>3, <1>7 DEF CounterOK
<1>11. ASSUME NEW k \in 1..wanted
       PROVE  feasibleNodes'[k] = IF hasFilters' THEN NoEntry ELSE NodeOf(k - 1)'
  BY <1>2, <1>5, <1>11
<1>12. ~hasFilters' => \A k \in 1..wanted : NodeOf(k - 1)' \in Elements(nodes') /\ NodeOf(k - 1)' # NoEntry
  BY <1>5, <1>6, NodesAssumption
<1>13. SlotsOK'
  BY <1>2, <1>3, <1>7, <1>11, <1>12 DEF SlotsOK, Entry
<1>14. PiecesApart'
  BY <1>2, <1>7 DEF PiecesApart
<1>15. EntriesApart'
  <2>1. CASE hasFilters'
    BY <1>2, <1>11, <2>1 DEF EntriesApart, Entry
  <2>2. CASE ~hasFilters'
    <3>1. \A k, l \in 1..wanted : NodeOf(k - 1)' = NodeOf(l - 1)' => k = l
      BY <1>3, <1>5, <1>6, <2>2
    <3> QED
      BY <1>2, <1>7, <1>11, <1>12, <2>2, <3>1 DEF EntriesApart, Entry
  <2> QED
    BY <2>1, <2>2
<1>16. NothingLost'
  <2>1. CASE hasFilters'
    BY <1>2, <1>4, <2>1 DEF NothingLost, Accounted
  <2>2. CASE ~hasFilters'
    BY <1>2, <1>7, <2>2 DEF NothingLost, EnoughOrFailed
  <2> QED
    BY <2>1, <2>2
<1> QED
  BY <1>8, <1>9, <1>10, <1>13, <1>14, <1>15, <1>16 DEF SearchInv

\* What a search leaves behind is the same for all of them: nothing.
LEMMA SearchEnds ==
  ASSUME SearchInv, Idle, Finish, nextStartNodeIndex' \in Nat
  PROVE  SearchInv'
<1>1. /\ phase' = "idle" /\ hasFilters' = FALSE /\ scores' = FALSE /\ nodes' = <<>>
      /\ numNodesToFind' = 0 /\ todo' = {} /\ cancelled' = FALSE /\ failed' = FALSE
      /\ feasibleNodesLen' = 0 /\ feasibleNodes' = <<>> /\ result' = {} /\ nodeToStatus' = {}
      /\ piece' = [w \in Workers |-> 0] /\ length' = [w \in Workers |-> 0]
      /\ pc' = [w \in Workers |-> "idle"]
  BY DEF Finish
<1>2. TypeOK
  BY DEF SearchInv
<1>3. /\ nodes' \in Seq(Node) /\ Len(nodes') = 0 /\ DOMAIN nodes' = {}
      /\ feasibleNodes' \in Seq(Node \cup {NoEntry})
      /\ feasibleNodes' \in [1..0 -> Node \cup {NoEntry}]
  BY <1>1, EmptySeq
<1>4. N' = 0 /\ Places' = {}
  BY <1>3 DEF N, Places
<1>5. Over' = {} /\ Slots' = 0 /\ \A w \in Workers : ~Busy(w)' /\ ~Storing(w)'
  <2>1. Over' = {}
    BY <1>1 DEF Over, Idle, Busy
  <2> QED
    BY <1>1, <2>1, FS_EmptySet DEF Slots, Busy, Storing, Idle
<1>6. TypeOK'
  BY <1>1, <1>2, <1>3 DEF TypeOK, Idle
<1>7. ArrayOK'
  BY <1>1, <1>3 DEF ArrayOK, Distinct
<1>8. CounterOK' /\ SlotsOK'
  BY <1>1, <1>5 DEF CounterOK, SlotsOK
<1>9. PiecesApart' /\ EntriesApart'
  BY <1>1, <1>5 DEF PiecesApart, EntriesApart
<1>10. NothingLost'
  BY <1>1, <1>4 DEF NothingLost
<1> QED
  BY <1>6, <1>7, <1>8, <1>9, <1>10 DEF SearchInv

\* The invariant holds initially.
LEMMA SearchInit == Init => SearchInv
<1> SUFFICES ASSUME Init PROVE SearchInv
  OBVIOUS
<1>1. /\ nodes \in Seq(Node) /\ Len(nodes) = 0 /\ DOMAIN nodes = {}
      /\ feasibleNodes \in Seq(Node \cup {NoEntry})
      /\ feasibleNodes \in [1..0 -> Node \cup {NoEntry}]
  BY EmptySeq DEF Init
<1>2. Places = {}
  BY <1>1 DEF N, Places
<1>3. Over = {} /\ Slots = 0 /\ \A w \in Workers : ~Busy(w) /\ ~Storing(w)
  <2>1. Over = {}
    BY DEF Over, Init
  <2> QED
    BY <2>1, FS_EmptySet DEF Slots, Busy, Storing, Init
<1>4. TypeOK
  BY <1>1 DEF TypeOK, Init
<1>5. ArrayOK
  BY <1>1 DEF ArrayOK, Distinct, Init
<1>6. CounterOK /\ SlotsOK /\ PiecesApart /\ EntriesApart /\ NothingLost
  BY <1>2, <1>3 DEF CounterOK, SlotsOK, PiecesApart, EntriesApart, NothingLost, Init
<1> QED
  BY <1>4, <1>5, <1>6 DEF SearchInv

-----------------------------------------------------------------------------
(* The steps of findNodesThatFitPod.                                       *)

\* No worker checks a node between two searches, or when a search has returned.
LEMMA NobodyChecks == TypeOK /\ (phase = "idle" \/ Returned) => Idle
BY DEF TypeOK, Searching, Returned, Idle, Busy

\* The nodes in the list of a set are those of the set.
LEMMA RejectedAreNodes ==
  ASSUME SearchInv
  PROVE  Elements(nodes) \subseteq Node /\ Rejected \subseteq Node /\ result \subseteq Places
<1>1. result \subseteq Places
  BY DEF SearchInv, TypeOK, Places, N
<1> QED
  BY <1>1, PiecesAreNodes DEF SearchInv, ArrayOK, TypeOK, Rejected

\* So does a search of the nodes that PreFilter has kept.
LEMMA SearchAllStarts ==
  ASSUME TypeOK, Idle, NEW status, status \subseteq Node, SearchAll(status),
         hasFilters' \in BOOLEAN, scores' \in BOOLEAN
  PROVE  SearchInv'
<1>1. PICK kept \in Kept : /\ phase' = "all"
                           /\ nodeToStatus' = status \cup (Node \ kept)
                           /\ Search(List[kept])
                           /\ nextStartNodeIndex' = nextStartNodeIndex
  BY DEF SearchAll
<1>2. kept \in SUBSET Node
  BY SettingsAssumption
<1>3. nodeToStatus' \subseteq Node
  BY <1>1
<1> QED
  BY <1>1, <1>2, <1>3, SearchStarts

\* The steps of findNodesThatFitPod keep the invariant.
LEMMA NodesStep == ASSUME SearchInv, FindNodesThatFitPod PROVE SearchInv'
<1>1. TypeOK
  BY DEF SearchInv
<1>2. CASE FindNodes
  <2>1. Idle /\ hasFilters' \in BOOLEAN /\ scores' \in BOOLEAN /\ SearchAll({})
    BY <1>1, <1>2, NobodyChecks, SettingsAssumption DEF FindNodes
  <2> QED
    BY <1>1, <2>1, SearchAllStarts
<1>3. CASE EvaluateNominatedNode
  <2>1. PICK n \in Node : /\ phase' = "nominated" /\ nodeToStatus' = {} /\ Search(List[{n}])
                          /\ nextStartNodeIndex' = nextStartNodeIndex
    BY <1>3 DEF EvaluateNominatedNode
  <2>2. Idle /\ hasFilters' \in BOOLEAN /\ scores' \in BOOLEAN
    BY <1>1, <1>3, NobodyChecks, SettingsAssumption DEF EvaluateNominatedNode
  <2>3. {n} \in SUBSET Node
    OBVIOUS
  <2> QED
    BY <1>1, <2>1, <2>2, <2>3, SearchStarts
<1>4. CASE NominatedNodeFits
  <2>1. Idle /\ Finish /\ nextStartNodeIndex' = nextStartNodeIndex
    BY <1>1, <1>4, NobodyChecks DEF NominatedNodeFits
  <2> QED
    BY <1>1, <2>1, SearchEnds DEF TypeOK
<1>5. CASE NominatedNodeFails
  <2>1. Idle /\ hasFilters' \in BOOLEAN /\ scores' \in BOOLEAN
    BY <1>1, <1>5, NobodyChecks DEF NominatedNodeFails, TypeOK
  <2>2. PICK status : status \subseteq Node /\ SearchAll(status)
    <3>1. /\ nodeToStatus \cup Rejected \subseteq Node
          /\ \A noted \in {{}, Elements(nodes)} : noted \subseteq Node
      BY <1>1, RejectedAreNodes DEF TypeOK
    <3> QED
      BY <1>5, <3>1 DEF NominatedNodeFails
  <2> QED
    BY <1>1, <2>1, <2>2, SearchAllStarts
<1>6. CASE RememberStart
  <2>1. Idle /\ Finish /\ nodes # <<>> /\ nextStartNodeIndex' = (nextStartNodeIndex + Processed) % Len(nodes)
    BY <1>1, <1>6, NobodyChecks DEF RememberStart
  <2>2. nextStartNodeIndex + Processed \in Int
    <3>1. nodeToStatus \cup Rejected \subseteq Node
      BY <1>1, RejectedAreNodes DEF TypeOK
    <3>2. Cardinality(nodeToStatus \cup Rejected) \in Nat
      BY <3>1, NodesAssumption, FS_Subset, FS_CardinalityType
    <3> QED
      BY <1>1, <3>2 DEF TypeOK, Processed
  <2>3. Len(nodes) \in Nat \ {0}
    BY <1>1, <2>1, EmptySeq DEF TypeOK
  <2>4. nextStartNodeIndex' \in 0..(Len(nodes) - 1)
    BY <2>1, <2>2, <2>3, DivMod
  <2> QED
    BY <2>1, <2>3, <2>4, SearchEnds
<1>7. CASE DivideByZero
  <2>1. Idle /\ nodes = <<>> /\ phase' = "panic"
        /\ UNCHANGED <<nextStartNodeIndex, hasFilters, scores, nodes, numNodesToFind,
                       nodeToStatus, todo, cancelled, failed, feasibleNodesLen,
                       feasibleNodes, result, pc, piece, length>>
    BY <1>1, <1>7, NobodyChecks DEF DivideByZero, shared, locals
  <2>2. Over' = Over /\ Slots' = Slots /\ Places' = Places /\ \A i : NodeOf(i)' = NodeOf(i)
    BY <2>1 DEF Over, Slots, Places, N, NodeOf
  <2>3. TypeOK'
    BY <1>1, <2>1 DEF TypeOK, Idle
  <2>4. ArrayOK' /\ CounterOK' /\ SlotsOK'
    BY <2>1, <2>2 DEF SearchInv, ArrayOK, CounterOK, SlotsOK, Entry, Storing
  <2>5. PiecesApart' /\ EntriesApart'
    BY <2>1, <2>2 DEF SearchInv, PiecesApart, EntriesApart, Entry, Busy
  <2>6. NothingLost'
    BY <2>1, <2>2 DEF SearchInv, NothingLost, EnoughOrFailed, Accounted, Entry, Busy
  <2> QED
    BY <2>3, <2>4, <2>5, <2>6 DEF SearchInv
<1> QED
  BY <1>2, <1>3, <1>4, <1>5, <1>6, <1>7 DEF FindNodesThatFitPod

\* The invariant holds in every state of a search.
LEMMA SearchInvariance == Spec => []SearchInv
<1>1. ASSUME SearchInv, [Next]_vars PROVE SearchInv'
  <2>1. CASE FindNodesThatFitPod
    BY <1>1, <2>1, NodesStep
  <2>2. ASSUME NEW w \in Workers, CheckNode(w) PROVE SearchInv'
    BY <1>1, <2>2, TakeStep, BeginStep, RejectStep, FailStep, CountStep, WithdrawStep, StoreStep DEF CheckNode
  <2>3. CASE UNCHANGED vars
    <3>1. UNCHANGED <<nextStartNodeIndex, phase, hasFilters, scores, nodes, numNodesToFind,
                      nodeToStatus, todo, cancelled, failed, feasibleNodesLen, feasibleNodes,
                      result, pc, piece, length>>
      BY <2>3 DEF vars, search, shared, locals
    <3>2. Over' = Over /\ Slots' = Slots /\ Places' = Places /\ \A i : NodeOf(i)' = NodeOf(i)
      BY <3>1 DEF Over, Slots, Places, N, NodeOf
    <3>3. TypeOK' /\ ArrayOK'
      BY <1>1, <3>1 DEF SearchInv, TypeOK, ArrayOK, Searching
    <3>4. CounterOK' /\ SlotsOK'
      BY <1>1, <3>1, <3>2 DEF SearchInv, CounterOK, SlotsOK, Entry, Storing
    <3>5. PiecesApart' /\ EntriesApart'
      BY <1>1, <3>1, <3>2 DEF SearchInv, PiecesApart, EntriesApart, Entry, Busy
    <3>6. NothingLost'
      BY <1>1, <3>1, <3>2 DEF SearchInv, NothingLost, EnoughOrFailed, Accounted, Entry, Busy
    <3> QED
      BY <3>3, <3>4, <3>5, <3>6 DEF SearchInv
  <2> QED
    BY <1>1, <2>1, <2>2, <2>3 DEF Next
<1> QED
  BY <1>1, SearchInit, PTL DEF Spec

-----------------------------------------------------------------------------
(* What the result of a search is.                                         *)

\* When the workers have stopped, the counter says how many slots were given away,
\* and each of these has an entry.
LEMMA AllEntered ==
  ASSUME SearchInv, Returned
  PROVE  /\ feasibleNodesLen = Slots /\ feasibleNodesLen \in 0..numNodesToFind
         /\ feasibleNodes \in [1..numNodesToFind -> Node \cup {NoEntry}]
         /\ \A k \in 1..numNodesToFind : Entry(k) # NoEntry <=> k <= feasibleNodesLen
<1>1. Idle
  BY NobodyChecks DEF SearchInv
<1>2. Over = {}
  BY <1>1 DEF Over, Idle, Busy
<1>3. feasibleNodesLen = Slots
  BY <1>2, FS_EmptySet DEF Slots, SearchInv, TypeOK
<1>4. \A k \in 1..numNodesToFind : Entry(k) # NoEntry <=> k <= Slots
  BY <1>1 DEF SearchInv, SlotsOK, Storing, Idle, Busy
<1> QED
  BY <1>3, <1>4 DEF SearchInv, CounterOK, ArrayOK

\* The entries that are found lie in the array, are nodes of the search that no filter
\* rejected, and are as many as the counter says.
LEMMA SoundWhenReturned == SearchInv => ResultIsSound
<1> SUFFICES ASSUME SearchInv, Returned
             PROVE  /\ feasibleNodesLen <= Len(feasibleNodes)
                    /\ Found \subseteq Elements(nodes) \ Rejected
                    /\ Cardinality(Found) = feasibleNodesLen
  BY DEF ResultIsSound
<1> DEFINE c == feasibleNodesLen
<1>1. /\ c \in 0..numNodesToFind /\ numNodesToFind \in Nat
      /\ feasibleNodes \in [1..numNodesToFind -> Node \cup {NoEntry}]
      /\ \A k \in 1..numNodesToFind : Entry(k) # NoEntry <=> k <= c
  BY AllEntered DEF SearchInv, TypeOK
<1>2. c <= Len(feasibleNodes)
  BY <1>1, ArrayIsSeq
<1>3. \A k \in 1..c : k \in 1..numNodesToFind /\ Entry(k) # NoEntry
  BY <1>1
<1>4. Found \subseteq Elements(nodes) \ Rejected
  BY <1>3 DEF Found, Rejected, SearchInv, EntriesApart, Entry
<1>5. Cardinality(Found) = c
  <2> DEFINE f == [k \in 1..c |-> feasibleNodes[k]]
  <2>1. f \in Bijection(1..c, Found)
    <3>1. f \in [1..c -> Found]
      BY DEF Found
    <3>2. \A k, l \in 1..c : f[k] = f[l] => k = l
      BY <1>3 DEF SearchInv, EntriesApart, Entry
    <3>3. \A x \in Found : \E k \in 1..c : f[k] = x
      BY DEF Found
    <3> HIDE DEF f
    <3> QED
      BY <3>1, <3>2, <3>3, Fun_IsBij
  <2>2. IsFiniteSet(1..c) /\ Cardinality(1..c) = c
    BY <1>1, FS_Interval
  <2> HIDE DEF f
  <2>3. ExistsBijection(1..c, Found)
    BY <2>1 DEF ExistsBijection
  <2> QED
    BY <2>2, <2>3, FS_Bijection
<1> QED
  BY <1>2, <1>4, <1>5

\* A search that found fewer nodes than it wanted was not cancelled for another reason
\* than an error, and then every piece was handed out and is entered or rejected.
LEMMA NothingOverlookedWhenReturned == SearchInv => NothingOverlooked
<1> SUFFICES ASSUME SearchInv, Returned, ~failed, feasibleNodesLen < numNodesToFind
             PROVE  Found \cup Rejected = Elements(nodes)
  BY DEF NothingOverlooked
<1> DEFINE c == feasibleNodesLen
<1>1. /\ c = Slots /\ c \in 0..numNodesToFind /\ numNodesToFind \in Nat
      /\ \A k \in 1..numNodesToFind : Entry(k) # NoEntry <=> k <= c
  BY AllEntered DEF SearchInv, TypeOK
<1>2. ~EnoughOrFailed
  BY <1>1 DEF EnoughOrFailed
<1>3. todo = {} /\ Idle
  <2>1. Idle /\ \A w \in Workers : pc[w] # "returned"
    BY <1>2, NobodyChecks DEF SearchInv, NothingLost, TypeOK
  <2> QED
    BY <2>1, WorkersAssumption DEF Returned
<1>4. /\ \A i \in Places : NodeOf(i) \in Elements(nodes) /\ NodeOf(i) # NoEntry
      /\ \A x \in Elements(nodes) : \E i \in Places : NodeOf(i) = x
  BY PiecesAreNodes, NodesAssumption DEF SearchInv, ArrayOK, TypeOK
<1>5. ASSUME NEW i \in Places PROVE NodeOf(i) \in Found \cup Rejected
  <2>1. i \in result \/ \E k \in 1..numNodesToFind : Entry(k) = NodeOf(i)
    BY <1>2, <1>3 DEF SearchInv, NothingLost, Accounted, Busy, Idle
  <2>2. ASSUME NEW k \in 1..numNodesToFind, Entry(k) = NodeOf(i) PROVE NodeOf(i) \in Found
    <3>1. k \in 1..c
      BY <1>1, <1>4, <2>2
    <3> QED
      BY <2>2, <3>1 DEF Found, Entry
  <2> QED
    BY <2>1, <2>2 DEF Rejected
<1>6. Found \cup Rejected \subseteq Elements(nodes)
  <2>1. Found \subseteq Elements(nodes)
    BY SoundWhenReturned DEF ResultIsSound
  <2> QED
    BY <1>4, <2>1, RejectedAreNodes DEF Rejected
<1> QED
  BY <1>4, <1>5, <1>6

\* Every variable of a search keeps its type.
THEOREM SearchTypes == Spec => []TypeOK
<1>1. SearchInv => TypeOK
  BY DEF SearchInv
<1> QED
  BY <1>1, SearchInvariance, PTL

\* The result of a search is sound, whatever the goroutines of checkNode do in which
\* order and however many of them find a node too many.
THEOREM SoundResults == Spec => []ResultIsSound
BY SoundWhenReturned, SearchInvariance, PTL

\* A search never stops early: without an error it finds what it wants or has gone
\* through all its nodes.
THEOREM CompleteSearches == Spec => []NothingOverlooked
BY NothingOverlookedWhenReturned, SearchInvariance, PTL

=============================================================================
