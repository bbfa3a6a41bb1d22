\* Two nodes, one fault.
CONSTANTS
    p1 = p1
    p2 = p2
    p3 = p3
    n1 = n1
    n2 = n2
    b1 = b1
    b2 = b2
    Loop = Loop
    NoPod = NoPod
    NoNode = NoNode
    Pods = {p1}
    Nodes = {n1, n2}
    Binders = {b1, b2}
    Capacity <- OneEach
    Running <- NoneRunning
    MaxFaults = 1
    BindMayTimeOut = FALSE
    MayLose = FALSE
SPECIFICATION Spec
\* When every pod is settled nothing is left to do.
CHECK_DEADLOCK FALSE
INVARIANTS
    NoLeakInFlight
