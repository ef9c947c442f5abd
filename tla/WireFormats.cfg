SPECIFICATION Spec
CONSTANTS
    Strings <- MCStrings
    Words = {3, 6}
    M32 = 4
    M64 = 8
    Sequences32 = {3}
    Paths <- MCPaths
    Tags = {0, 1}
    ChildLists <- MCChildLists
    Codes = {1}
    AnyTail = FALSE
INVARIANTS
    RoundTrip
    DamageRefused
CHECK_DEADLOCK FALSE
