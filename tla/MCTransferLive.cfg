SPECIFICATION FairSpec
CONSTANTS
    Sender = {s1, s2}
    Base = {"a"}
    FileName <- OneName
    Trust = {"paired"}
    Illegal = Illegal
    Absent = Absent
    None = None
    ChunkSize = 1
    SenderMax = 2
    ReceiverMax = 2
    SourceMax = 2
    MaxKills = 1
    Fault <- HangFaults
CHECK_DEADLOCK FALSE
INVARIANTS
    NoMutualWait
PROPERTIES
    ReceiverReturns
    RunEnds
