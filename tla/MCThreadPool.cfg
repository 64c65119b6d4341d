\* Three threads over two slots, so that one always has to wait; five
\* resources are the most that two idle slots and three hands can hold.
CONSTANTS
  Threads = {t1, t2, t3}
  Resources = {r1, r2, r3, r4, r5}
  PoolSize = 2
  Recycles = TRUE
  NoThread = NoThread
  NoResource = NoResource
SPECIFICATION Spec
SYMMETRY Symmetry
INVARIANTS
  SlotsConserved
  NoGenuineReturnIsSpurious
  ResourceNotShared
PROPERTY ImplementsSlotPool
