CONSTANTS
  c1 = c1
  Ids = {c1}
  NoId = NoId
  MaxTime = 4
  CalTicks = 2
  StaleAfter = 1
  Window = 3
  LinkCapacity = 0
  MaxTrace = 0
  DebugBuild = FALSE
  ArrivalCapacity = 1
  MaxNoise = 0
SPECIFICATION PromptSpec
PROPERTY CalibrationInTime
CHECK_DEADLOCK FALSE
