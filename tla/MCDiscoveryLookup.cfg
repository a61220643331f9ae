SPECIFICATION Spec
CONSTANTS
    p = p
    w = w
    Char <- Chars
    Device = {p, w}
    Phone = {p}
    Code <- Codes
    Coding <- OwnCodes
    Naming <- PlainNames
    None = None
    StaleAfter = 1
    Duration = 2
    MaxUses = 3
    SocketFault = FALSE
CHECK_DEADLOCK FALSE
INVARIANTS
    SearchSurvives
