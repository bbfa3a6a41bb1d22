---------------------------- MODULE MCLifecycle ----------------------------
(* Instances of Lifecycle for TLC. *)
EXTENDS Lifecycle

CONSTANTS r1, r2

None == [s \in {} |-> TRUE]
Line(config, file, flags) == [config |-> config, file |-> file, flags |-> flags, write |-> FALSE]

\* A file that turns the election off and delays the informers.
Inline == [elect |-> FALSE, delay |-> TRUE, times |-> "invalid"]

\* With leader election and without, delayed and not; refused by Setup and by the
\* elector; only to write the configuration.
AllLines ==
    { Line(FALSE, None, [podMaxInUnschedulable |-> "1m"]),
      Line(FALSE, None, [elect |-> FALSE, times |-> "invalid", profiling |-> FALSE]),
      Line(FALSE, None, [times |-> "invalid"]),
      Line(TRUE, Inline, None),
      Line(TRUE, Inline, [elect |-> TRUE]),
      Line(TRUE, Inline, [elect |-> TRUE, times |-> "valid", profiling |-> FALSE,
                          podMaxInUnschedulable |-> "1m"]),
      [Line(FALSE, None, None) EXCEPT !.write = TRUE] }
=============================================================================
