SPECIFICATION FairSpec
CONSTANTS
    Watchers = {"onX", "onY", "onAppend", "onMatch"}
    Paths <- MCPaths
    Lists <- MCLists
    Values = {0, 1}
    Default = 0
    Watching <- MCWatching
    Appending = {"onAppend", "onMatch"}
    Filtering = {"onMatch"}
    Bodies <- MCBodies
    RemotePaths <- MCRemotePaths
    BufferLimit = 2
    MaxCascadeRounds = 2
    MaxCalls = 4
INVARIANTS NoChangeLost RollbackRestores OneLoop
PROPERTIES CascadesEnd StopReturns
CHECK_DEADLOCK FALSE
