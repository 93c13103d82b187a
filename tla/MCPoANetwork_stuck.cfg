SPECIFICATION Spec
CONSTANTS
    Nodes = {n1, n2, n3}
    Payloads = {d1, d2, d3, d4}
    GenesisPayload = genesis
    RequiredSignatures = 2
    Clients = {c1, c2}
    Routes <- AllRoutes
    Persist = TRUE
    MaxCrashes = 0
    MaxUnanswered = 0
SYMMETRY Symmetry
INVARIANTS
    AlwaysExtendable
CHECK_DEADLOCK FALSE
