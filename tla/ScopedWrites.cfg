SPECIFICATION Spec
CONSTANTS
  MaxDepth = 40
  BufferLimit = 8
  MaxCallDepth = 4
  MaxIterations = 5
  MaxElements = 4
  FlushEvery = 2
  FlushAbove = 3
  MaxRecordNodes = 8
  MaxPrograms = 1
  Rooms = {9}
  Programs <- ScopePrograms
  Collation <- MCCollation
  Samples = {}
INVARIANT StagedPathsStay
CHECK_DEADLOCK FALSE
