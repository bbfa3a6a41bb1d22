--------------------------- MODULE MCNodeSearch ---------------------------
(* Instances of NodeSearch for TLC: four nodes, listed in order. *)
EXTENDS NodeSearch, TLC

CONSTANTS w1, w2

Four == 1..4
InOrder == [K \in SUBSET Node |-> SelectSeq([i \in 1..Cardinality(Node) |-> i], LAMBDA n : n \in K)]

AnyNodes == SUBSET Node
=============================================================================
