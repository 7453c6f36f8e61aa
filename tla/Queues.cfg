CONSTANTS
  n1 = n1
  n2 = n2
  n3 = n3
  n4 = n4
  v1 = v1
  v2 = v2
  p1 = p1
  p2 = p2
  c1 = c1
  c2 = c2
  Nodes = {n1, n2, n3, n4}
  Values = {v1, v2}
  Producers = {p1, p2}
  Consumers = {c1, c2}
  Null = Null
  Nothing = Nothing
  Yes = Yes
  No = No
  NoRecord = NoRecord
  Evacuators = {e1, e2}
  Length = 2
  MaxCodeEvents = 2
  MaxTicks = 1
  MaxSamples = 3
SPECIFICATION MCSpec
SYMMETRY QueueSymmetry
INVARIANT
  QueueNodesAreManaged
  SamplesMeetTheirCodeMap
PROPERTY
  QueuesImplementFIFO
CHECK_DEADLOCK FALSE
