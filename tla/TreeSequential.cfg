CONSTANTS
    pa = pa
    pb = pb
    pLog = pLog
    d1 = d1
    d2 = d2
    Threads = {t1}
    Paths = {pa, pb}
    Data = {d1, d2}
    DataFor <- AnyData
    AuditPath <- MCAuditPath
    AuditRecord = audit
    Small <- AllContents
    ScanLimit = 20
    Tombstone = tombstone
    Kinds = {"write", "read", "readAt"}
    LoseUnsynced = FALSE
    MaxOps = 3
    MaxClock = 2
    MaxFaults = 2
SPECIFICATION Spec
INVARIANTS
    ReadsAnswerCurrent
    ReadAtAnswersAsOf
    AcknowledgedChangesStay
PROPERTIES
    ImplementsTemporalTree
CHECK_DEADLOCK FALSE
