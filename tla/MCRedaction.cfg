SPECIFICATION Spec
CONSTANTS
    Requests = {r1, r2}
    MaxRows = 3
    None = None
INVARIANTS
    NeverLost
    
    RedactedOnce
    RedactsRecords
CHECK_DEADLOCK FALSE
