SPECIFICATION Spec
CONSTANTS
    n1 = n1
    n2 = n2
    n3 = n3
    Nodes = {n1, n2, n3}
    GenesisPayload = genesis
    RequiredSignatures = 2
    MaxCrashes = 0
    MaxUnanswered = 1
    Actions = {continue_path, yield_and_pause}
    ContinuePath = continue_path
    YieldAndPause = yield_and_pause
    CollisionDistance = 3
    TriggerDistance = 2
    Lengths = {3}
    Speeds = {1}
    Tolerance = 0
    Gap <- HeadOn
    StepsPerCycle = 1
    MaxCycles = 2
    Script = script
    Urls <- InOrder
INVARIANTS
    AllThreeAgree
CHECK_DEADLOCK FALSE
