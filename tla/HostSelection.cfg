\* Three nodes; no extender, or one that is required and one that is ignorable, the
\* ignorable one configured first.
CONSTANTS
    n1 = n1
    n2 = n2
    n3 = n3
    required = required
    optional = optional
    NoNode = NoNode
    Node = {n1, n2, n3}
    Configurations <- NoneOrBoth
    Ignorable = {optional}
    Weight <- Weights
    Scale = 2
    Scores = {1, 2}
    Count = 2
SPECIFICATION FairSpec
\* A search ends.
CHECK_DEADLOCK FALSE
INVARIANTS
    TypeOK
    BestAreReported
    DrawIsFair
PROPERTIES
    RequiredDecideFirst
    UnresolvableStands
    Answered
