SPECIFICATION Spec
CONSTANTS
  Tasks = {t1, t2}
  t1 = t1
  t2 = t2
  Monitor = Monitor
  Nobody = Nobody
  MaxTasks = 2
  CyclesPerUs = 2
  CounterMod = 3
  RuntimeMod = 2
  ExecMod = 2
  MaxTime = 3
SYMMETRY TaskSymmetry
INVARIANTS
  TypeOK
  RuntimeIsTimeRun
  ActivationsAreCounted
  StatusIsFresh
  HolderGivesBack
