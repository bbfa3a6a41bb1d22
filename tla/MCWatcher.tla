----------------------------- MODULE MCWatcher -----------------------------
(* Instances of Watcher for TLC. *)
EXTENDS Watcher

CONSTANTS p, n

PodLife == <<"Pending", "Running", "Ready", "Succeeded">>
NodeLife == <<"NodeReady">>
TrueConditions ==
    [s \in Range(PodLife) \cup Range(NodeLife) |-> IF s = "Ready" THEN <<"Ready">> ELSE <<>>]
=============================================================================
