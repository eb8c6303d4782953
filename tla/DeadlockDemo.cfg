SPECIFICATION DemoSpec
CONSTANTS
  NoTask = NoTask
  TaskA = TaskA
  TaskB = TaskB
  CLI = CLI
  Tasks = {TaskA, TaskB, CLI}
  MaxMutexes = 2
  MaxWaiters = 3
  LockCountMod = 1
  Patience = {"finite"}
INVARIANTS
  DemoTypeOK
  RestHoldsNothing
PROPERTIES
  EveryRoundEnds
  StatusReturns
