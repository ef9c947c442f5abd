SPECIFICATION FairSpec
CONSTANTS
  Nodes = {1, 2, 3}
  Self = 1
  Paths <- MCPaths
  Placeholder <- MCPlaceholder
  MaxWrites = 2
  MaxStarts = 2
CHECK_DEADLOCK FALSE
INVARIANTS
  WritesSentOrQueued
  RoundsFit
PROPERTY
  QueuedWritesLeave
