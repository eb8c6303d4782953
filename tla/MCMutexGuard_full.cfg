SPECIFICATION Spec
CONSTANTS
  NoTask = NoTask
  Tasks = {t1, t2, t3}
  t1 = t1
  t2 = t2
  t3 = t3
  MaxMutexes = 2
  MaxWaiters = 2
  LockCountMod = 1
  Patience = {"forever"}
SYMMETRY TaskSymmetry
INVARIANTS
  NoCircularWait
