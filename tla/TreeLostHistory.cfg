CONSTANTS
    pa = pa
    pb = pb
    pLog = pLog
    d1 = d1
    d2 = d2
    Threads = {t1, t2}
    Paths = {pa}
    Data = {d1, d2}
    DataFor <- AnyData
    AuditPath <- MCAuditPath
    AuditRecord = audit
    Small <- AllContents
    ScanLimit = 20
    Tombstone = tombstone
    Kinds = {"write"}
    LoseUnsynced = FALSE
    MaxOps = 3
    MaxClock = 1
    MaxFaults = 0
SPECIFICATION Spec
INVARIANT AcknowledgedChangesStay
CHECK_DEADLOCK FALSE
