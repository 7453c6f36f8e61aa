CONSTANTS
  w1 = w1
  w2 = w2
  w3 = w3
  t1 = t1
  t2 = t2
  t3 = t3
  t4 = t4
  Workers = {w1, w2, w3}
  Tasks = {t1, t2, t3, t4}
  NoTask = NoTask
  i1 = i1
  i2 = i2
  a1 = a1
  None = None
  Isolates = {i1, i2}
  Addrs = {a1}
  Values = {0, 1}
  WakeCounts = {1, 3}
  Budgets <- MCBudgets
SPECIFICATION MCFairSpec
INVARIANTS
  WorkConserving
  OrderlyTermination
  ListIsExact
  NothingIsSleptOver
PROPERTIES
  PoolMakesProgress
  WaitEnds
  RequestReturns
CHECK_DEADLOCK FALSE
