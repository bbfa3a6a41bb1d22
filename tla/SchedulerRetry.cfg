\* One pending pod, and two that have the only places when the scheduler starts.
\* A bind may take effect and be reported as failed, and every pod may be deleted at any
\* time.
CONSTANTS
    p1 = p1
    p2 = p2
    p3 = p3
    n1 = n1
    n2 = n2
    b1 = b1
    b2 = b2
    Loop = Loop
    NoPod = NoPod
    NoNode = NoNode
    Pods = {p1, p2, p3}
    Nodes = {n1, n2}
    Binders = {b1, b2}
    Capacity <- OneEach
    Running <- AllTaken
    MaxFaults = 1
    BindMayTimeOut = TRUE
    MayLose = FALSE
SPECIFICATION FairSpec
\* When the pod is bound or gone nothing is left to do.
CHECK_DEADLOCK FALSE
INVARIANTS
    CacheFollowsInformer
    NoOrphanedAssumption
    BindingRecordsAreTrue
PROPERTIES
    RoomIsUsed
    DeletedPodForgotten
