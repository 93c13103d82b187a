SPECIFICATION Spec
CONSTANTS
    SetupTime = 0
    MaxStep = 1
    BlockTime = 0
    LossTimeout = 1
    Commands <- OffToFull
    MaxThrottle = 2
    ArmThrottle = 1
    Second = 2
    Values = {v1}
    Default = v1
    Measured = FALSE
    Rounded <- Exact
    Resolution = 0
    ClockSize = 8
    MaxUptime = 16
PROPERTY SilenceStopsMotors
