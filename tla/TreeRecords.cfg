CONSTANTS
    pa = pa
    pb = pb
    pLog = pLog
    d1 = d1
    d2 = d2
    Threads = {t1}
    Paths = {pa}
    Data = {d1, d2}
    DataFor <- AnyData
    AuditPath <- MCAuditPath
    AuditRecord = audit
    Small <- AllContents
    ScanLimit = 20
    Tombstone = tombstone
    Kinds = {"write"}
    LoseUnsynced = FALSE
    MaxOps = 2
    MaxClock = 1
    MaxFaults = 1
SPECIFICATION Spec
\* TLC finds each of these violated, one at a time.
INVARIANT AcknowledgedIDsName
\* INVARIANT ChainTimesDescend
CHECK_DEADLOCK FALSE
