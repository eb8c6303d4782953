SPECIFICATION FairSpec
CONSTANTS
  short = short
  long = long
  Names = {short, long}
  Stored <- MCStored
  Callbacks = {c1, c2}
  MaxAlarms = 3
  QueueLength = 2
  TaskSets <- MCTaskSets
  NoVerdict = NoVerdict
CHECK_DEADLOCK FALSE
INVARIANTS
  TypeOK
  AlarmFollowsTable
  VerdictIsSafe
PROPERTIES
  AlarmKeepsFiring
