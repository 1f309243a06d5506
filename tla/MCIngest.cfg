SPECIFICATION FairSpec
CONSTANTS
    put = put
    first = first
    retry = retry
    other = other
    k1 = k1
    k2 = k2
    NoKey = NoKey
    None = None
    Requests = {put, first, retry, other}
    Creates = {put}
    Key <- MCKey
    KeyLimit = 1
INVARIANTS
    TypeOK
    HeldStaysOpen
    DeliveredInOrder
    AnsweredStored
    
    StoredOnceKnown
PROPERTY Served
CHECK_DEADLOCK FALSE
