CONSTANTS
  Callers = {r1, r2, r3}
  Items = {i1, i2}
  NoItem = NoItem
  MaxSize = 1
  MaxRequires = 3
SPECIFICATION FairSpec
INVARIANTS
  NobodyIsForgotten
  WorkIsLimited
  ProcessedOnce
PROPERTIES
  RequireAnswered
  CloseEnds
CHECK_DEADLOCK FALSE
