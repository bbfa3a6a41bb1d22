\* Pods whose named nodes are not in the snapshot.
CONSTANTS
    w1 = w1
    w2 = w2
    NoEntry = NoEntry
    Workers = {w1, w2}
    Node <- Four
    List <- InOrder
    HasFilters = {TRUE}
    Scoring = {TRUE}
    Kept <- AnyNodes
    MayFail = FALSE
    Nominating = FALSE
    MinFeasibleNodesToFind = 2
    PercentageOfNodesToScore = 0
SPECIFICATION Spec
\* A panic ends the process.
CHECK_DEADLOCK FALSE
INVARIANTS
    NoPanic
