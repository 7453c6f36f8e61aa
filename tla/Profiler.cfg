CONSTANTS
  Evacuators = {e1}
  Length = 2
  NoRecord = NoRecord
  MaxCodeEvents = 1
  MaxTicks = 1
  MaxSamples = 1
SPECIFICATION ProfilerSpec
INVARIANT AllTicksAreProcessed
CHECK_DEADLOCK FALSE
