---------------------------- MODULE MCScheduler ----------------------------
(* Instances of Scheduler for TLC. *)
EXTENDS Scheduler, TLC

CONSTANTS p1, p2, p3, n1, n2, b1, b2

OneEach == [n \in Nodes |-> 1]

\* Nothing runs in the cluster yet; or it is full.
NoneRunning == <<>>
AllTaken == (p2 :> n1) @@ (p3 :> n2)

\* Pods, nodes and goroutines are interchangeable in the safety runs.
Interchangeable ==
    Permutations(Pods) \cup Permutations(Nodes) \cup Permutations(Binders)
=============================================================================
