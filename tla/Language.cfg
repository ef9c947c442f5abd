SPECIFICATION Spec
CONSTANTS
  MaxDepth = 40
  BufferLimit = 8
  MaxCallDepth = 4
  MaxIterations = 5
  MaxElements = 4
  FlushEvery = 2
  FlushAbove = 3
  MaxRecordNodes = 8
  MaxPrograms = 2
  Rooms = {2, 9}
  Programs <- MCPrograms
  Collation <- MCCollation
  Samples <- MCSamples
INVARIANTS
  IndentsBalance
  ChainsGroup
  WatchersReparse
  SessionRestored
  RolledBackLeavesNothing
  QuietBlocksAnnounceNothing
  LastWriteStands
  ComparisonsConsistent
CHECK_DEADLOCK FALSE
