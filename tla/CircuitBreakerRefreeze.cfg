CONSTANTS
  Tasks = {t1, t2, t3}
  Freezes = {f1, f2, f3}
  NoFreeze = NoFreeze
SPECIFICATION FairSpec
PROPERTIES
  FrozenCallsWait
