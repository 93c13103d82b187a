SPECIFICATION Spec
CONSTANTS
    SetupTime = 1
    MaxStep = 2
    BlockTime = 2
    LossTimeout = 1
    Commands <- FromBelowToAbove
    MaxThrottle = 3
    ArmThrottle = 1
    Second = 3
    Values = {v1, v2}
    Default = v1
    Measured = TRUE
    Rounded <- Float
    Resolution = 1
    ClockSize = 16
    MaxUptime = 12
INVARIANTS TypeOK SavesInTime
PROPERTY SilenceStopsMotors
