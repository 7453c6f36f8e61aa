CONSTANTS
  j1 = j1
  j2 = j2
  j3 = j3
  t1 = t1
  t2 = t2
  t3 = t3
  Jobs = {j1, j2, j3}
  Tasks = {t1, t2, t3}
  None = None
  Capacity = 2
  MaxFlushes = 1
  MaxSpurious = 1
SPECIFICATION FairSpec
INVARIANTS
  InputQueueIsExact
  NoJobStranded
  InputIsServed
PROPERTIES
  FlushLeavesNothing
  FlushReturns
  QueuedJobsEnd
CHECK_DEADLOCK FALSE
