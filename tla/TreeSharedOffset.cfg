CONSTANTS
    pa = pa
    pb = pb
    pLog = pLog
    d1 = d1
    d2 = d2
    Threads = {t1, t2}
    Paths = {pa, pb}
    Data = {d1, d2}
    DataFor <- OwnData
    AuditPath <- MCAuditPath
    AuditRecord = audit
    Small <- AllContents
    ScanLimit = 20
    Tombstone = tombstone
    Kinds = {"write", "read"}
    LoseUnsynced = FALSE
    MaxOps = 4
    MaxClock = 1
    MaxFaults = 0
SPECIFICATION Spec
INVARIANT ReadsStayOnPath
CHECK_DEADLOCK FALSE
