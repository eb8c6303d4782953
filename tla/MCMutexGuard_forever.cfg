SPECIFICATION Spec
CONSTANTS
  NoTask = NoTask
  Tasks = {t1, t2, t3}
  t1 = t1
  t2 = t2
  t3 = t3
  MaxMutexes = 3
  MaxWaiters = 3
  LockCountMod = 1
  Patience = {"forever"}
SYMMETRY TaskSymmetry
INVARIANTS
  NoCircularWait
PROPERTIES
  RefusalIsRealCycle
