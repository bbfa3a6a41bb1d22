----------------------------- MODULE MCSniffer -----------------------------
(* Instances of Sniffer for TLC. *)
EXTENDS Sniffer

CONSTANTS loop, binder, hook, pods, service, watcher

\* Requests of the scheduling loop, of a binding goroutine and of a pod's hook reach
\* one service, while the watcher writes in its own process.
Served == [c \in Callers |-> IF c = pods THEN watcher ELSE service]
Decided == [c \in Callers |-> IF c = binder THEN {loop} ELSE {}]
Once == [c \in Callers |-> 1]
=============================================================================
