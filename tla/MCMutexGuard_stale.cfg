SPECIFICATION Spec
CONSTANTS
  NoTask = NoTask
  Tasks = {t1, t2}
  t1 = t1
  t2 = t2
  MaxMutexes = 2
  MaxWaiters = 2
  LockCountMod = 1
  Patience = {"forever", "finite"}
SYMMETRY TaskSymmetry
PROPERTIES
  RefusalIsRealCycle
