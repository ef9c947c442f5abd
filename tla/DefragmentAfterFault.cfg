SPECIFICATION Spec
CONSTANTS
    v0 = v0
    u2 = u2
    u3 = u3
    unknown = unknown
    Contents = {v0, u2, u3, unknown}
    SizeOf <- MCSizeOf
    ScanSize <- MCScanSize
    Lookalikes <- MCLookalikes
    TierOf <- MCTierOf
    Holders = {h1, h2}
    Span = 100
    ScanUnit = 4
    ScanDefault = 50
    MaxFile = 7
    Upsets = {"fault", "defragment"}
    MaxUpsets = 2
INVARIANT FreeSpaceIsDead
CHECK_DEADLOCK FALSE
