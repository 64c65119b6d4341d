CONSTANTS
  Jobs = {j1, j2, j3}
  NoJob = NoJob
  MaxTasks = 2
SPECIFICATION FairSpec
INVARIANTS
  SlotsConserved
  JobInOnePlace
  StatusIsTrue
  ClosedLeavesNoJob
PROPERTIES
  CloseEnds
  ImplementsJobRunner
