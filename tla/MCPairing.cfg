SPECIFICATION FairSpec
CONSTANTS
    d1 = d1
    d2 = d2
    d3 = d3
    Device = {d1, d2, d3}
    Phone = {d2, d3}
    Run <- RunsAtOne
    None = None
    MaxKills = 2
    Fault <- AllFaults
CHECK_DEADLOCK FALSE
INVARIANTS
    PairedByConsent
    HalfOnlyByFault
PROPERTIES
    AgreedIsRecorded
    AttemptsEnd
    ServersReturn
