SPECIFICATION FairSpec
CONSTANTS
  NoTask = NoTask
  Tasks = {t1, t2, t3}
  t1 = t1
  t2 = t2
  t3 = t3
  MutexCount = 3
INVARIANTS
  TypeOK
  AnswerIsExact
  RecursionIsShallow
  FinishedIsClosed
PROPERTIES
  SearchEnds
