SPECIFICATION Spec
CONSTANTS
    Device = {d1}
    NoDevice = NoDevice
    Host = {h1}
    Size = {1, 2}
    SizeLimit = 1
    PairLimit = 1
    FileLimit = 2
    Window = 1
    MaxTime = 3
CHECK_DEADLOCK FALSE
INVARIANTS
    AtMostInWindow
    RefusedOnlyWhenFull
    BlockedNeverAdmitted
