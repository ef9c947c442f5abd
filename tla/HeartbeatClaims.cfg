SPECIFICATION FairSpec
CONSTANTS
    Watchers = {"onX", "onY", "onAppend", "onMatch"}
    Paths <- MCPaths
    Lists <- MCLists
    Values = {0, 1}
    Default = 0
    Watching <- MCWatching
    Appending = {"onAppend", "onMatch"}
    Filtering = {"onMatch"}
    Bodies <- MCBodies
    RemotePaths <- MCRemotePaths
    BufferLimit = 2
    MaxCascadeRounds = 2
    MaxCalls = 3
\* TLC finds each of these violated, one at a time.
INVARIANT RoundsAreConsecutive
\* PROPERTY QuietAgain
CHECK_DEADLOCK FALSE
