--------------------------- MODULE MCNomination ---------------------------
(* Instances of Nomination for TLC. *)
EXTENDS Nomination

CONSTANTS high, low, n1, n2, b1

HighFirst == [p \in Pod |-> IF p = high THEN 1 ELSE 0]
=============================================================================
