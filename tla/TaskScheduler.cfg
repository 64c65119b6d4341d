CONSTANTS
  MaxTasks = 2
  MaxStarts = 2
SPECIFICATION FairSpec
INVARIANTS
  NoOverlap
  ClaimIsBacked
  RunsUntilTold
PROPERTIES
  DueTaskLaunched
CHECK_DEADLOCK FALSE
