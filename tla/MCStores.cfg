SPECIFICATION Spec
CONSTANTS
    Callers = {c1, c2}
    Values = {a, b}
    MaxWrites = 3
    ConflictAttempts = 2
    Absent = Absent
    Torn = Torn
    None = None
INVARIANTS
    NoUpdateLost
    RefusalsTrue
    ConfirmedWhole
