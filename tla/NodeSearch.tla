----------------------------- MODULE NodeSearch -----------------------------
(***************************************************************************)
(* The search for the nodes that fit a pod: findNodesThatFitPod, and in it *)
(* the goroutines of findNodesThatPassFilters (scheduler/schedule_one.go). *)
(* One search follows the other, for one pod after the other; what is kept *)
(* between them is nextStartNodeIndex.                                     *)
(*                                                                         *)
(* The goroutines share the counter feasibleNodesLen, which they increment *)
(* and decrement atomically, and the arrays feasibleNodes and result.  The *)
(* parallelizer that hands them the pieces, and the filter plugins, are    *)
(* outside the repository.                                                 *)
(*                                                                         *)
(* A definition marked (Slip: ...) is no part of the model: it is the one  *)
(* after it with a plausible mistake, to see that a property notices.      *)
(***************************************************************************)
EXTENDS Integers, Sequences, FiniteSets

CONSTANTS
    Node,         \* the nodes of the snapshot
    List,         \* for each set of nodes, its list in the order of the snapshot
    NoEntry,      \* nil in feasibleNodes
    Workers,      \* the goroutines of the parallelizer
    HasFilters,   \* may a profile have filter plugins, may it have none?
    Scoring,      \* may a profile score nodes (or an extender filter), may it not?
    Kept,         \* the sets of nodes PreFilter plugins narrow a search to
    MayFail,      \* may a filter plugin return an error?
    Nominating,   \* may a pod carry a nominated node?
    MinFeasibleNodesToFind,   \* 100 in the code
    PercentageOfNodesToScore

Distinct(s) == \A i, j \in DOMAIN s : s[i] = s[j] => i = j
Elements(s) == {s[i] : i \in DOMAIN s}

ASSUME NodesAssumption ==
    /\ IsFiniteSet(Node)
    /\ NoEntry \notin Node
    /\ \A K \in SUBSET Node :
         List[K] \in Seq(Node) /\ Distinct(List[K]) /\ Elements(List[K]) = K
ASSUME WorkersAssumption == IsFiniteSet(Workers) /\ Workers # {}
ASSUME SettingsAssumption ==
    /\ HasFilters \subseteq BOOLEAN /\ Scoring \subseteq BOOLEAN
    /\ {MayFail, Nominating} \subseteq BOOLEAN
    /\ Kept \subseteq SUBSET Node
    /\ MinFeasibleNodesToFind \in Nat \ {0}
    /\ PercentageOfNodesToScore \in 0..100

-----------------------------------------------------------------------------
(* How many nodes to find.                                                 *)

MinFeasibleNodesPercentageToFind == 5

\* The share that is searched in a large cluster: as configured, or adapted
\* to its size.
Percentage(numAllNodes) ==
    LET adaptive == 50 - numAllNodes \div 125
    IN IF PercentageOfNodesToScore # 0 THEN PercentageOfNodesToScore
       ELSE IF adaptive < MinFeasibleNodesPercentageToFind
              THEN MinFeasibleNodesPercentageToFind ELSE adaptive

NumFeasibleNodesToFind(numAllNodes) ==
    LET share == (numAllNodes * Percentage(numAllNodes)) \div 100
    IN IF numAllNodes < MinFeasibleNodesToFind THEN numAllNodes
       ELSE IF share < MinFeasibleNodesToFind THEN MinFeasibleNodesToFind ELSE share

\* Without scoring the first node that fits will do.
Wanted(numAllNodes, scoring) == IF scoring THEN NumFeasibleNodesToFind(numAllNodes) ELSE 1

-----------------------------------------------------------------------------

VARIABLES
    nextStartNodeIndex,
    phase,            \* of findNodesThatFitPod
    hasFilters,       \* does the profile of the pod have filter plugins?
    scores,           \* does it score the nodes that pass them?
    nodes,            \* the nodes the current search goes through
    numNodesToFind,
    nodeToStatus,     \* the nodes with an entry in diagnosis.NodeToStatusMap
    todo,             \* the pieces the parallelizer has not handed out
    cancelled,        \* the context of the search is cancelled
    failed,           \* errCh holds an error
    feasibleNodesLen, feasibleNodes,
    result,           \* the pieces with an entry in result
    pc, piece, length \* locals of checkNode in each worker

shared == <<cancelled, failed, feasibleNodesLen, feasibleNodes, result>>
locals == <<pc, piece, length>>
search == <<phase, hasFilters, scores, nodes, numNodesToFind>>
vars == <<nextStartNodeIndex, search, nodeToStatus, todo, shared, locals>>

Init ==
    /\ nextStartNodeIndex = 0
    /\ phase = "idle"
    /\ hasFilters = FALSE /\ scores = FALSE
    /\ nodes = <<>>
    /\ numNodesToFind = 0
    /\ nodeToStatus = {}
    /\ todo = {}
    /\ cancelled = FALSE
    /\ failed = FALSE
    /\ feasibleNodesLen = 0
    /\ feasibleNodes = <<>>
    /\ result = {}
    /\ pc = [w \in Workers |-> "idle"]
    /\ piece = [w \in Workers |-> 0]
    /\ length = [w \in Workers |-> 0]

-----------------------------------------------------------------------------
(* findNodesThatPassFilters, over a list of nodes.                         *)

\* Piece i is the node i places after the one where the last search left off.
NodeOf(i) == nodes[((nextStartNodeIndex + i) % Len(nodes)) + 1]

\* The pieces the parallelizer hands out.  (Slip: one too many.)
PiecesOneMore(n) == 0..n
Pieces(n) == 0..(n - 1)

\* The beginning of a search.  Without filter plugins the nodes are taken as
\* they come.
Search(list) ==
    LET n == Len(list)
        wanted == IF n = 0 /\ ~hasFilters' THEN 0 ELSE Wanted(n, scores')
    IN /\ nodes' = list
       /\ numNodesToFind' = wanted
       /\ cancelled' = FALSE
       /\ failed' = FALSE
       /\ result' = {}
       /\ IF hasFilters'
            THEN /\ todo' = Pieces(n)
                 /\ feasibleNodesLen' = 0
                 /\ feasibleNodes' = [k \in 1..wanted |-> NoEntry]
            ELSE /\ todo' = {}
                 /\ feasibleNodesLen' = wanted
                 /\ feasibleNodes' = [k \in 1..wanted |->
                                        list[((nextStartNodeIndex + k - 1) % n) + 1]]
       /\ pc' = [w \in Workers |-> "idle"]
       /\ UNCHANGED <<piece, length>>

\* A worker receives the next piece ...
Take(w) ==
    /\ pc[w] = "idle"
    /\ \E i \in todo :
         /\ \A j \in todo : i <= j
         /\ todo' = todo \ {i}
         /\ piece' = [piece EXCEPT ![w] = i]
    /\ pc' = [pc EXCEPT ![w] = "taken"]
    /\ UNCHANGED <<nextStartNodeIndex, search, nodeToStatus, shared, length>>

\* ... and looks at the context only then: it drops the piece, and returns, if the
\* search was cancelled meanwhile.
Begin(w) ==
    /\ pc[w] = "taken"
    /\ pc' = [pc EXCEPT ![w] = IF cancelled THEN "returned" ELSE "filter"]
    /\ UNCHANGED <<nextStartNodeIndex, search, nodeToStatus, todo, shared, piece, length>>

\* The filter plugins reject the node, or fail, or pass it.
Reject(w) ==
    /\ pc[w] = "filter"
    /\ result' = result \cup {piece[w]}
    /\ pc' = [pc EXCEPT ![w] = "idle"]
    /\ UNCHANGED <<nextStartNodeIndex, search, nodeToStatus, todo,
                   cancelled, failed, feasibleNodesLen, feasibleNodes, piece, length>>

Fail(w) ==
    /\ MayFail
    /\ pc[w] = "filter"
    /\ failed' = TRUE
    /\ cancelled' = TRUE
    /\ pc' = [pc EXCEPT ![w] = "idle"]
    /\ UNCHANGED <<nextStartNodeIndex, search, nodeToStatus, todo,
                   feasibleNodesLen, feasibleNodes, result, piece, length>>

\* (Slips: the last node wanted is taken for one too many; the counter is not
\* decremented.)
TooManyEarly(len) == len >= numNodesToFind
TooMany(len) == len > numNodesToFind
NotDecremented == feasibleNodesLen
Decremented == feasibleNodesLen - 1

\* The node passes: the atomic increment ...
Count(w) ==
    /\ pc[w] = "filter"
    /\ feasibleNodesLen' = feasibleNodesLen + 1
    /\ length' = [length EXCEPT ![w] = feasibleNodesLen + 1]
    /\ pc' = [pc EXCEPT ![w] = IF TooMany(feasibleNodesLen + 1) THEN "over" ELSE "store"]
    /\ UNCHANGED <<nextStartNodeIndex, search, nodeToStatus, todo,
                   cancelled, failed, feasibleNodes, result, piece>>

\* ... and then, if enough were found, the cancellation and the decrement ...
Withdraw(w) ==
    /\ pc[w] = "over"
    /\ cancelled' = TRUE
    /\ feasibleNodesLen' = Decremented
    /\ pc' = [pc EXCEPT ![w] = "idle"]
    /\ UNCHANGED <<nextStartNodeIndex, search, nodeToStatus, todo,
                   failed, feasibleNodes, result, piece, length>>

\* ... or the entry in the array.
Store(w) ==
    /\ pc[w] = "store"
    /\ feasibleNodes' = [feasibleNodes EXCEPT ![length[w]] = NodeOf(piece[w])]
    /\ pc' = [pc EXCEPT ![w] = "idle"]
    /\ UNCHANGED <<nextStartNodeIndex, search, nodeToStatus, todo,
                   cancelled, failed, feasibleNodesLen, result, piece, length>>

\* The parallelizer returns when every worker has returned or finds no more pieces.
Returned ==
    /\ phase \in {"nominated", "all"}
    /\ \A w \in Workers : pc[w] = "returned" \/ (pc[w] = "idle" /\ todo = {})

Rejected == {NodeOf(i) : i \in result}

-----------------------------------------------------------------------------
(* findNodesThatFitPod.                                                    *)

\* The nodes that are left for the pod after its PreFilter plugins, which may
\* name nodes; the others are recorded as rejected.
SearchAll(status) == \E kept \in Kept :
    /\ phase' = "all"
    /\ nodeToStatus' = status \cup (Node \ kept)
    /\ Search(List[kept])
    /\ UNCHANGED nextStartNodeIndex

\* A pod without a nominated node, or with one that left the snapshot.
FindNodes ==
    /\ phase = "idle"
    /\ hasFilters' \in HasFilters /\ scores' \in Scoring
    /\ SearchAll({})

\* A nominated node is tried first, on its own.
EvaluateNominatedNode == \E n \in Node :
    /\ phase = "idle"
    /\ Nominating
    /\ hasFilters' \in HasFilters /\ scores' \in Scoring
    /\ phase' = "nominated"
    /\ nodeToStatus' = {}
    /\ Search(List[{n}])
    /\ UNCHANGED nextStartNodeIndex

Finish ==
    /\ phase' = "idle"
    /\ hasFilters' = FALSE /\ scores' = FALSE
    /\ nodes' = <<>>
    /\ numNodesToFind' = 0
    /\ todo' = {}
    /\ cancelled' = FALSE
    /\ failed' = FALSE
    /\ feasibleNodesLen' = 0
    /\ feasibleNodes' = <<>>
    /\ result' = {}
    /\ nodeToStatus' = {}
    /\ piece' = [w \in Workers |-> 0]
    /\ length' = [w \in Workers |-> 0]
    /\ pc' = [w \in Workers |-> "idle"]

\* The nominated node fits and the search ends with it; or it does not, there
\* was an error, or an extender rejects it (and may give a reason), and all nodes
\* are searched, with the entries made so far still in the map.
NominatedNodeFits ==
    /\ phase = "nominated" /\ Returned
    /\ ~failed /\ feasibleNodesLen > 0
    /\ Finish
    /\ UNCHANGED nextStartNodeIndex

NominatedNodeFails ==
    /\ phase = "nominated" /\ Returned
    /\ UNCHANGED <<hasFilters, scores>>
    /\ \/ (failed \/ feasibleNodesLen = 0) /\ SearchAll(nodeToStatus \cup Rejected)
       \/ /\ ~failed /\ feasibleNodesLen > 0
          /\ \E noted \in {{}, Elements(nodes)} : SearchAll(noted)


\* The next search begins where this one is thought to have left off.  The
\* remainder by the number of nodes searched panics when there are none.
Processed == feasibleNodesLen + Cardinality(nodeToStatus \cup Rejected)

RememberStart ==
    /\ phase = "all" /\ Returned
    /\ nodes # <<>>
    /\ nextStartNodeIndex' = (nextStartNodeIndex + Processed) % Len(nodes)
    /\ Finish

DivideByZero ==
    /\ phase = "all" /\ Returned
    /\ nodes = <<>>
    /\ phase' = "panic"
    /\ UNCHANGED <<nextStartNodeIndex, hasFilters, scores, nodes, numNodesToFind, nodeToStatus,
                   todo, shared, locals>>

-----------------------------------------------------------------------------

CheckNode(w) ==
    Take(w) \/ Begin(w) \/ Reject(w) \/ Fail(w) \/ Count(w) \/ Withdraw(w) \/ Store(w)

FindNodesThatFitPod ==
    \/ FindNodes \/ EvaluateNominatedNode
    \/ NominatedNodeFits \/ NominatedNodeFails \/ RememberStart \/ DivideByZero

Next == FindNodesThatFitPod \/ \E w \in Workers : CheckNode(w)

Spec == Init /\ [][Next]_vars

-----------------------------------------------------------------------------
(* What is expected of it.                                                 *)

Searching == phase \in {"nominated", "all"}

\* Every variable keeps its type; a busy worker has a piece of the search.
TypeOK ==
    /\ nextStartNodeIndex \in Nat
    /\ phase \in {"idle", "nominated", "all", "panic"}
    /\ hasFilters \in BOOLEAN /\ scores \in BOOLEAN
    /\ nodes \in Seq(Node)
    /\ numNodesToFind \in Nat
    /\ nodeToStatus \subseteq Node
    /\ todo \subseteq 0..(Len(nodes) - 1)
    /\ cancelled \in BOOLEAN
    /\ failed \in BOOLEAN
    /\ feasibleNodesLen \in Nat
    /\ feasibleNodes \in Seq(Node \cup {NoEntry})
    /\ result \subseteq 0..(Len(nodes) - 1)
    /\ pc \in [Workers -> {"idle", "taken", "filter", "over", "store", "returned"}]
    /\ piece \in [Workers -> Nat]
    /\ length \in [Workers -> Nat]
    /\ \A w \in Workers : pc[w] # "idle" => Searching /\ piece[w] < Len(nodes)
    /\ \A w \in Workers : pc[w] = "returned" => cancelled

Found == {feasibleNodes[k] : k \in 1..feasibleNodesLen}

\* When the workers have stopped, feasibleNodes[:feasibleNodesLen] is within the
\* array, has no nil in it and no node twice, and none that is also reported as
\* rejected, however the increments, decrements and stores of the workers that
\* found a node too many interleave with the others.
ResultIsSound ==
    Returned =>
        /\ feasibleNodesLen <= Len(feasibleNodes)
        /\ Found \subseteq Elements(nodes) \ Rejected
        /\ Cardinality(Found) = feasibleNodesLen

\* A search that found fewer nodes than it wanted, without an error, has gone
\* through all nodes: cancelling it never overlooks a node that was needed.
NothingOverlooked ==
    Returned /\ ~failed /\ feasibleNodesLen < numNodesToFind
        => Found \cup Rejected = Elements(nodes)

\* The next search begins where this one left off, "to make sure all nodes have the
\* same chance of being examined across pods": a search of all nodes passes over a
\* node, which it neither found to fit nor to be rejected, only if a worker lost it when
\* the search was broken off, and one worker has not; so with one worker none is passed
\* over, although what moves the start is the number of nodes and not their places.
\* (With entries from PreFilter plugins or from a nominated node in the map the start
\* moves past nodes that nobody looked at.)
PassedOver == {i \in Pieces(Len(nodes)) : i < Processed /\ NodeOf(i) \notin Found \cup Rejected}

\* The search never panics: schedulePod "will return a FitError with reasons".
NoPanic == phase # "panic"
=============================================================================
