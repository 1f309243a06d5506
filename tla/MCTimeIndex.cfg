SPECIFICATION Spec
CONSTANTS
    MaxEpoch = 2
    MaxGroups = 3
    MaxTime = 6
    Gaps = {0, 1}
    Durations = {0, 2, 5, 6}
    Wallclocks = {0, 2, 5}
    Timescale = 2
    NanosPerSecond = 3
    MaxInt64 = 6
INVARIANTS
    
    RangeWallclockComplete
    
CHECK_DEADLOCK FALSE
