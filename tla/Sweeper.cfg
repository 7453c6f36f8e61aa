CONSTANTS
  MaxGCs = 3
  LongDelay = 3
  ShortDelay = 1
  WatchdogDelay = 7
  Never = Never
  Slack = 1
  MarkingTime = 1
  MaxItems = 4
  kMaxNumberOfTasks = 3
  MaxThreads = 3
  Main = 0
  MaxCycles = 2
  NoPage = NoPage
  n1 = n1
  o1 = o1
  Pages <- MCPages
  Spaces <- MCSpaces
  Home <- MCHome
SPECIFICATION SweeperAloneSpec
INVARIANT SweepingFinishedMeansDone
CHECK_DEADLOCK FALSE
