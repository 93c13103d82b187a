SPECIFICATION Spec
CONSTANTS
    Nodes = {n1, n2, n3}
    Payloads = {d1, d2}
    GenesisPayload = genesis
    RequiredSignatures = 2
    Self = n1
    Threads = {t1, t2}
    Requests <- Proposed
    Persist = TRUE
    Absent = absent
    Torn = torn
    MaxCrashes = 0
PROPERTY
    AppendsExtendTip
CHECK_DEADLOCK FALSE
