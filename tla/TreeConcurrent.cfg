CONSTANTS
    pa = pa
    pb = pb
    pLog = pLog
    d1 = d1
    d2 = d2
    Threads = {t1, t2}
    Paths = {pa, pLog}
    Data = {d1, d2}
    DataFor <- AnyData
    AuditPath <- MCAuditPath
    AuditRecord = audit
    Small <- ShortLabels
    ScanLimit = 20
    Tombstone = tombstone
    Kinds = {"write", "read", "readAt", "purge"}
    LoseUnsynced = TRUE
    MaxOps = 3
    MaxClock = 2
    MaxFaults = 1
SPECIFICATION Spec
INVARIANTS
    TypeOK
    MapsAgreeWithFiles
    ChainsGoBack
PROPERTIES
    InstancesAppendOnly
CHECK_DEADLOCK FALSE
SYMMETRY Symmetry
