\* A pod that may preempt and one that may not, on two nodes.
CONSTANTS
    high = high
    low = low
    n1 = n1
    n2 = n2
    b1 = b1
    Loop = Loop
    NoNode = NoNode
    Gone = Gone
    Keep = Keep
    Pod = {high, low}
    Node = {n1, n2}
    Binders = {b1}
    Priority <- HighFirst
    MaxCycles = 4
    MaxFaults = 1
SPECIFICATION Spec
\* The cycles are bounded.
CHECK_DEADLOCK FALSE
INVARIANTS
    TypeOK
    NominatedWantsNode
PROPERTIES
    RoomIsKept
