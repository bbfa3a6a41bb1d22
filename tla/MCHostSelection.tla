-------------------------- MODULE MCHostSelection --------------------------
(* Instances of HostSelection for TLC. *)
EXTENDS HostSelection, TLC

CONSTANTS n1, n2, n3, required, optional

NoneOrBoth == {<<>>, <<optional, required>>}
Weights == [e \in Extender |-> IF e = required THEN 1 ELSE 2]
=============================================================================
