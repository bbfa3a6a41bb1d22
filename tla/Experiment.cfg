\* Two batches of two jobs on a cluster that two sleeping pods fill, under fairness;
\* commands and calls may fail for two of the jobs.
CONSTANTS
    a = a
    b = b
    c = c
    d = d
    Job = {a, b, c, d}
    Batches <- TwoBatches
    Slots = 2
    MayFail = TRUE
    MaxFaults = 2
SPECIFICATION FairSpec
\* The experiments end.
CHECK_DEADLOCK FALSE
INVARIANTS
    BatchesApart
PROPERTIES
    SuccessRecorded
    RunEnds
