CONSTANTS
    pa = pa
    pb = pb
    pLog = pLog
    d1 = d1
    d2 = d2
    Threads = {t1}
    Paths = {pa, pLog}
    Data = {d1, d2}
    DataFor <- AnyData
    AuditPath <- MCAuditPath
    AuditRecord = audit
    Small <- AllContents
    ScanLimit = 20
    Tombstone = tombstone
    Kinds = {"write", "purge"}
    LoseUnsynced = FALSE
    MaxOps = 2
    MaxClock = 1
    MaxFaults = 0
SPECIFICATION Spec
PROPERTY PurgeKeepsChains
CHECK_DEADLOCK FALSE
