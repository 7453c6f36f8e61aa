CONSTANTS
  t1 = t1
  t2 = t2
  t3 = t3
  Tasks = {t1, t2, t3}
  Stubborn = {t1}
  NoTask = NoTask
  IdModulus = 2
  MaxAborts = 1
  MaxSpurious = 1
SPECIFICATION FairSpec
INVARIANTS
  MapMatchesTasks
  ManagerOutlivesTasks
  WaitsForARunningTask
PROPERTIES
  CancelAndWaitReturns
CHECK_DEADLOCK FALSE
