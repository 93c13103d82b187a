SPECIFICATION Spec
CONSTANTS
    ClockSize = 16
    LoopInterval = 4
    CallGap = 2
    ReadTime = 3
    Staleness = 2
INVARIANTS
    TypeOK
    ElapsedIsTrueTime
    DrivenOnFreshReading
    StopsInTime
