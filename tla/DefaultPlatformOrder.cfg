CONSTANTS
  w1 = w1
  i1 = i1
  Workers = {w1}
  NoTask = NoTask
  Tasks = {1, 2}
  Posters = {}
  Isolates = {i1}
  Delays = {1}
  MaxTime = 2
SPECIFICATION PlatformSpec
CHECK_DEADLOCK FALSE
INVARIANT
  OrderOfScheduling
