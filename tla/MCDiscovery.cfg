SPECIFICATION Spec
CONSTANTS
    p = p
    w = w
    Char <- Chars
    Device = {p, w}
    Phone = {p}
    Code <- Codes
    Coding <- AnyCodes
    Naming <- Namings
    None = None
    StaleAfter = 1
    Duration = 2
    MaxUses = 3
    SocketFault = TRUE
CHECK_DEADLOCK FALSE
INVARIANTS
    UpIsListed
    NamesSurvive
    ResolvedRight
PROPERTIES
    NoGhosts
