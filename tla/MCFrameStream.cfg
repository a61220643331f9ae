SPECIFICATION FairSpec
CONSTANTS
    IdMax = 1
    NameMax = 2
    PayloadMax = 8
    Malformed = {255}
    None = None
    Message <- Messages
    MaxSent = 2
CHECK_DEADLOCK FALSE
INVARIANTS
    DecodedAsSent
    RefusedByLimits
PROPERTIES
    ImplementsFrameQueue
    CatchesUp
