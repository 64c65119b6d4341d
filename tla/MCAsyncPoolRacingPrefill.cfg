CONSTANTS
  Tasks = {t1, t2, t3}
  Resources = {r1, r2, r3, r4}
  PoolSize = 2
  Recycles = TRUE
  SerialPrefill = FALSE
  NoResource = NoResource
SPECIFICATION Spec
SYMMETRY Symmetry
INVARIANTS
  PoolSizeIsMaximum
