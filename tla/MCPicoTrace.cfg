CONSTANTS
  c1 = c1
  c2 = c2
  Ids = {c1}
  NoId = NoId
  MaxTime = 1
  CalTicks = 0
  StaleAfter = 1
  Window = 1
  LinkCapacity = 0
  MaxTrace = 2
  DebugBuild = TRUE
  ArrivalCapacity = 1
  MaxNoise = 2
SPECIFICATION FairSpec
PROPERTY TraceEnds
CHECK_DEADLOCK FALSE
