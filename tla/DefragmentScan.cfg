SPECIFICATION Spec
CONSTANTS
    v0 = v0
    u2 = u2
    u3 = u3
    unknown = unknown
    Contents = {v0, u2, u3, unknown}
    SizeOf <- MCSizeOf
    ScanSize <- MCScanSize
    Lookalikes <- MCLookalikes
    TierOf <- MCTierOf3
    Holders = {h1, h2}
    Span = 100
    ScanUnit = 4
    ScanDefault = 50
    MaxFile = 7
    Upsets = {"defragment", "misled"}
    MaxUpsets = 2
\* TLC finds each of these violated, one at a time.
INVARIANT FreeSpaceIsDead
\* PROPERTY CompactionKeepsValues
CHECK_DEADLOCK FALSE
