\* Two processes, each started twice, started with any of seven command lines, under
\* fairness.
CONSTANTS
    r1 = r1
    r2 = r2
    Replicas = {r1, r2}
    NoOne = NoOne
    MaxLives = 2
    Lines <- AllLines
SPECIFICATION FairSpec
\* A process is not started for ever.
CHECK_DEADLOCK FALSE
INVARIANTS
    TypeOK
    AsConfigured
    SyncedBeforeScheduling
    OverlapOnlyWhileEnding
PROPERTIES
    Terminates
    TakenOver
