SPECIFICATION Spec
CONSTANTS
    p1 = p1
    p2 = p2
    g = g
    d1 = d1
    d2 = d2
    Process = {p1, p2, g}
    Form = {g}
    Peer = {d1, d2}
    Port = {1}
    None = None
    MaxStarts = 3
    MaxCalls = 3
    Fault <- AllFaults
SYMMETRY Alike
CHECK_DEADLOCK FALSE
INVARIANTS
    NothingInvented
    ExactWhenAlone
    IdentityAgrees
