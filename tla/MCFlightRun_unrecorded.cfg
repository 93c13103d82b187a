SPECIFICATION Spec
CONSTANTS
    Actions = {continue_path, yield_and_pause, reroute_left}
    ContinuePath = continue_path
    YieldAndPause = yield_and_pause
    CollisionDistance = 3
    TriggerDistance = 2
    Lengths = {3, 4}
    Speeds = {0, 1, 2}
    Tolerance = 0
    Gap <- SwapGap
    StepsPerCycle = 1
    MaxCycles = 2
    Outcomes = {"recorded", "unrecorded", "raised"}
INVARIANT
    OneBlockPerCycle
CHECK_DEADLOCK FALSE
