CONSTANTS
  Callers = {r1, r2, r3}
  Items = {i1, i2}
  NoItem = NoItem
  MaxSize = 1
  MaxRequires = 3
SPECIFICATION Spec
INVARIANTS
  CancelledAlone
CHECK_DEADLOCK FALSE
