CONSTANTS
  kIllegalLimit = kIllegalLimit
  kInterruptLimit = kInterruptLimit
  NoLimit = NoLimit
  Threads = {t1, t2}
  Requests = {"TERMINATE_EXECUTION", "DEBUGBREAK", "API_INTERRUPT"}
  Masks = {{"TERMINATE_EXECUTION"},
           {"TERMINATE_EXECUTION", "DEBUGBREAK", "API_INTERRUPT"}}
  MaxFrames = 4
  Null = Null
  Tracers = {r1, r2}
  Nothing = Nothing
  max_chunks = 2
  kChunkSize = 2
  SeqModulus = 64
  MaxEvents = 7
  Groups = {g1, g2, g3}
  Included = {g1, g2}
  MAX_CATEGORY_GROUPS = 6
  MaxStarts = 1
SPECIFICATION MCSpec
SYMMETRY Symmetric
INVARIANTS
  InterruptsAreConserved
  ScopesHoldBack
  StatesAreApart
  HandleFindsItsEvent
  RegistryIsSound
PROPERTY SessionIsWritten
CHECK_DEADLOCK FALSE
