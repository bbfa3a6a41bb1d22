\* A pod and a node, one lapse, under fairness.
CONSTANTS
    p = p
    n = n
    Pods = {p}
    System = {}
    Nodes = {n}
    Transient = {p}
    PodStates <- PodLife
    NodeStates <- NodeLife
    Conditions <- TrueConditions
    MaxBacklog = 0
    MaxLapses = 1
SPECIFICATION FairSpec
\* The objects come to the end of their lives.
CHECK_DEADLOCK FALSE
INVARIANTS
    TypeOK
    NoGaps
PROPERTIES
    NeverBackwards
    LatestRecorded
