SPECIFICATION FairSpec
CONSTANTS
    Actions = {continue_path, yield_and_pause, reroute_left}
    ContinuePath = continue_path
    YieldAndPause = yield_and_pause
    CollisionDistance = 3
    TriggerDistance = 2
    Lengths = {3, 4}
    Speeds = {0, 1, 2}
    Tolerance = 1
    Gap <- SwapGap
    StepsPerCycle = 2
    MaxCycles = 3
    Outcomes = {"recorded", "raised"}
INVARIANTS
    TypeOK
    StopsMatchPath
    NoHeadOnDecision
    SummaryMatchesRecord
    OneBlockPerCycle
PROPERTY
    FlightEnds
CHECK_DEADLOCK FALSE
