CONSTANTS
  w1 = w1
  i1 = i1
  Workers = {w1}
  NoTask = NoTask
  Tasks = {1, 2, 3}
  Posters = {1}
  Isolates = {i1}
  Delays = {1, 2}
  MaxTime = 2
SPECIFICATION FairPlatformSpec
CHECK_DEADLOCK FALSE
INVARIANTS
  ForegroundOrder
  ControllerOutlivesTasks
PROPERTIES
  ForegroundTasksRun
  DestructorReturns
