SPECIFICATION Spec
CONSTANTS
    Sender = {s1, s2}
    Base = {"a"}
    FileName <- OneNameOrIllegal
    Trust <- AnyTrust
    Illegal = Illegal
    Absent = Absent
    None = None
    ChunkSize = 2
    SenderMax = 3
    ReceiverMax = 2
    SourceMax = 3
    MaxKills = 1
    Fault <- DiskFaults
SYMMETRY Senders
CHECK_DEADLOCK FALSE
INVARIANTS
    SavedIntact
    ReplacementReady
    OnlyConsented
    NoLitter
    SavedMeansSentWhole
PROPERTIES
    SavedOnlyReplaced
    ImplementsDelivery
