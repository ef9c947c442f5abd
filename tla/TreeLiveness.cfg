CONSTANTS
    pa = pa
    pb = pb
    pLog = pLog
    d1 = d1
    d2 = d2
    Threads = {t1, t2}
    Paths = {pa, pLog}
    Data = {d1, d2}
    DataFor <- AnyData
    AuditPath <- MCAuditPath
    AuditRecord = audit
    Small <- AllContents
    ScanLimit = 20
    Tombstone = tombstone
    Kinds = {"write", "readAt", "purge"}
    LoseUnsynced = FALSE
    MaxOps = 3
    MaxClock = 1
    MaxFaults = 0
SPECIFICATION FairSpec
PROPERTY OperationsReturn
CHECK_DEADLOCK FALSE
