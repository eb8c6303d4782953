SPECIFICATION Spec
CONSTANTS
  NoTask = NoTask
  Tasks = {t1, t2, t3}
  t1 = t1
  t2 = t2
  t3 = t3
  MaxMutexes = 2
  MaxWaiters = 3
  LockCountMod = 2
  Patience = {"forever", "finite"}
SYMMETRY TaskSymmetry
INVARIANTS
  TypeOK
  GuardMarksSection
  OwnerIsHolder
  EdgesMatchWaiters
  WaitForAcyclic
PROPERTIES
  ImplementsLockManager
  OwnershipPassesThroughFree
