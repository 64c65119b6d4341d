CONSTANTS
  Tasks = {t1, t2, t3}
  Resources = {r1, r2, r3, r4}
  PoolSize = 2
  Recycles = TRUE
  SerialPrefill = TRUE
  NoResource = NoResource
SPECIFICATION FairSpec
INVARIANTS
  SlotsConserved
  ResourceNotShared
  PoolSizeIsMaximum
PROPERTIES
  ImplementsSlotPool
  AcquireAnswered
