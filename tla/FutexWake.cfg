CONSTANTS
  i1 = i1
  i2 = i2
  a1 = a1
  None = None
  Isolates = {i1, i2}
  Addrs = {a1}
  Values = {0, 1}
  WakeCounts = {1}
  Budgets <- WakeBudgets
SPECIFICATION FutexSpec
CHECK_DEADLOCK FALSE
INVARIANT
  WakeReturnsWoken
