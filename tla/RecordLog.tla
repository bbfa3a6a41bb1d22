------------------------------ MODULE RecordLog ------------------------------
(***************************************************************************)
(* What the writers of the sniffer's log are promised: each call appends   *)
(* its record to the log, once, before it returns, and the log only grows. *)
(* Calls that are excused may return without a record, and leave it late   *)
(* or never; but neither may they write it twice, nor do any harm to other *)
(* records.                                                                *)
(***************************************************************************)
EXTENDS Naturals, Sequences

CONSTANTS
    Callers,   \* whoever writes records
    Calls      \* how many records each one writes

VARIABLES
    entries,   \* the records in the log, each named by its caller and number
    returned,  \* how many calls of each caller have returned
    excused    \* the calls that need not leave a record

vars == <<entries, returned, excused>>

Current(c) == <<c, returned[c] + 1>>
Recorded(r) == \E i \in DOMAIN entries : entries[i] = r
Ready(c) == Recorded(Current(c)) \/ Current(c) \in excused
Calling == {c \in Callers : returned[c] < Calls[c]}

Init ==
    /\ entries = <<>>
    /\ returned = [c \in Callers |-> 0]
    /\ excused = {}

\* The call that is under way leaves its record, or an excused one does later.
Record == \E r \in {Current(c) : c \in Calling} \cup excused :
    /\ ~Recorded(r)
    /\ entries' = Append(entries, r)
    /\ UNCHANGED <<returned, excused>>

\* Calls that are under way, not those to come, are excused together ...
Excuse == \E C \in SUBSET Calling :
    /\ excused' = excused \cup {Current(c) : c \in C}
    /\ UNCHANGED <<entries, returned>>

\* ... or fail together.
Fail == \E C \in SUBSET Calling :
    /\ excused' = excused \cup {Current(c) : c \in C}
    /\ returned' = [c \in Callers |-> returned[c] + (IF c \in C THEN 1 ELSE 0)]
    /\ UNCHANGED entries

Return(c) ==
    /\ Ready(c)
    /\ returned' = [returned EXCEPT ![c] = @ + 1]
    /\ UNCHANGED <<entries, excused>>

Next == Record \/ Excuse \/ Fail \/ \E c \in Callers : Return(c)

\* A call that may return does.
Spec ==
    /\ Init /\ [][Next]_vars
    /\ \A c \in Callers : WF_vars(Return(c))
=============================================================================
