SPECIFICATION Spec
CONSTANTS
    Nodes = {n1, n2, n3}
    Payloads = {d1, d2, d3}
    GenesisPayload = genesis
    RequiredSignatures = 2
    Clients = {c1, c2}
    Routes <- AllRoutes
    Persist = TRUE
    MaxCrashes = 1
    MaxUnanswered = 1
SYMMETRY Symmetry
INVARIANTS
    TypeOK
    IntegrityHolds
    IndexIsHeight
    VotesStand
    ParentOnMajority
    ForkOnlyAtTip
    CommittedIsKept
    MajorityCommitIsFinal
    NeverStuck
PROPERTY
    ImplementsAuditLog
CHECK_DEADLOCK FALSE
