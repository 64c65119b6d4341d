CONSTANTS
  Jobs = {j1, j2, j3}
  NoJob = NoJob
  MaxTasks = 2
SPECIFICATION Spec
INVARIANTS
  DrainResolves
