SPECIFICATION Spec
CONSTANTS
    Sender = {s1}
    Base = {"a"}
    FileName <- OneName
    Trust = {"paired"}
    Illegal = Illegal
    Absent = Absent
    None = None
    ChunkSize = 2
    SenderMax = 4
    ReceiverMax = 3
    SourceMax = 4
    MaxKills = 1
    Fault <- UncheckedClose
CHECK_DEADLOCK FALSE
INVARIANTS
    SavedIntact
