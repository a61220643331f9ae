SPECIFICATION FairSpec
CONSTANTS
    Device = {d1}
    Name = {"x", "x.part"}
    Path <- MCPath
    Candidate <- MCCandidate
    TreePart <- MCTreePart
    PartOf <- MCPartOf
    NoTarget = NoTarget
    NoAsk = NoAsk
    Size = 1
    MaxStarts = 2
    MaxRequests = 2
    SocketFault = TRUE
CHECK_DEADLOCK FALSE
INVARIANTS
    RunningHasThread
    SavedUnlessCrowded
    
PROPERTIES
    FilesKept
    OffByReason
    Stops
