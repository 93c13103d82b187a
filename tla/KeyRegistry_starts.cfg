SPECIFICATION FairSpec
CONSTANTS
    Nodes = {n1, n2, n3}
    Absent = absent
    Torn = torn
    Free = free
    MaxCrashes = 1
INVARIANTS
    TypeOK
    NeverMisjudged
    OnlyKillsTear
PROPERTY
    StartEnds
CHECK_DEADLOCK FALSE
