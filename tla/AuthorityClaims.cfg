SPECIFICATION AuthSpec
CONSTANTS
  Nodes = {1, 2}
  Self = 1
  Created <- MCCreated
  Roots <- MCRoots
  SelfKnown = FALSE
  MissedThreshold = 1
  WriteRateThreshold = 0
  MaxTime = 2
  MaxTasks = 2
  MaxElections = 3
CHECK_DEADLOCK FALSE
\* TLC finds each of these violated, one at a time.
PROPERTY LastAssignmentWins
\* PROPERTY CancelledElectionsEnd
