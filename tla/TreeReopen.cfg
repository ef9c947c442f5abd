CONSTANTS
    pa = pa
    pb = pb
    pLog = pLog
    d1 = d1
    d2 = d2
    Threads = {t1}
    Paths = {pa, pb}
    Data = {d1, d2}
    DataFor <- AnyData
    AuditPath <- MCAuditPath
    AuditRecord = audit
    Small <- AllContents
    ScanLimit = 3
    Tombstone = tombstone
    Kinds = {"write"}
    LoseUnsynced = FALSE
    MaxOps = 2
    MaxClock = 1
    MaxFaults = 1
SPECIFICATION Spec
INVARIANT RecordedPathsFound
CHECK_DEADLOCK FALSE
