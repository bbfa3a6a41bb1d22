\* Two pods compete for one place on one node.
CONSTANTS
    p1 = p1
    p2 = p2
    p3 = p3
    n1 = n1
    n2 = n2
    b1 = b1
    b2 = b2
    Loop = Loop
    NoPod = NoPod
    NoNode = NoNode
    Pods = {p1, p2}
    Nodes = {n1}
    Binders = {b1, b2}
    Capacity <- OneEach
    Running <- NoneRunning
    MaxFaults = 1
    BindMayTimeOut = TRUE
    MayLose = TRUE
SPECIFICATION Spec
SYMMETRY Interchangeable
\* When every pod is settled nothing is left to do.
CHECK_DEADLOCK FALSE
INVARIANTS
    TypeOK
    PendingPodNeverLost
    NoLostWakeup
    WithinCapacity
    OneBinderPerPod
