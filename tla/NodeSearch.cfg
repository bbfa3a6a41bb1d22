\* Two workers look for one or two of up to four nodes.
CONSTANTS
    w1 = w1
    w2 = w2
    NoEntry = NoEntry
    Workers = {w1, w2}
    Node <- Four
    List <- InOrder
    HasFilters = {TRUE, FALSE}
    Scoring = {TRUE, FALSE}
    Kept <- AnyNodes
    MayFail = TRUE
    Nominating = TRUE
    MinFeasibleNodesToFind = 2
    PercentageOfNodesToScore = 0
SPECIFICATION Spec
\* A panic ends the process.
CHECK_DEADLOCK FALSE
INVARIANTS
    TypeOK
    ResultIsSound
    NothingOverlooked
    
