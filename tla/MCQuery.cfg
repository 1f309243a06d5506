SPECIFICATION Spec
CONSTANTS
    MaxEpoch = 2
    MaxGroups = 2
    StrayEpoch = TRUE
    NoLog = NoLog
    Ops = {"lookup", "walk", "before"}
    BeforeAttempts = 2
    MaxLimit = 2
INVARIANTS
    MissesNothing
    NoHole
