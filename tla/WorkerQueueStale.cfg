CONSTANTS
  Callers = {r1, r2, r3}
  Items = {i1, i2, i3}
  NoItem = NoItem
  MaxSize = 1
  MaxRequires = 3
SPECIFICATION Spec
INVARIANTS
  QueuedIsOngoing
CHECK_DEADLOCK FALSE
