SPECIFICATION Spec
CONSTANTS
    a = a
    b = b
    none = none
    Senders <- MCSenders
    NoSender = none
    TrackLimit <- MCTrackLimit
    SenderLimit <- MCSenderLimit
    Token = 3
    SenderBuckets = 1
    IdleTimeout = 5
    MaxTime = 5
SYMMETRY Symmetry
INVARIANTS
    LimitsKept
    RetryAfterKept
CHECK_DEADLOCK FALSE
