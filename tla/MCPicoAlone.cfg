CONSTANTS
  c1 = c1
  c2 = c2
  Ids <- MCIds
  NoId = NoId
  MaxTime = 2
  CalTicks = 0
  StaleAfter = 1
  Window = 1
  LinkCapacity = 0
  MaxTrace = 0
  DebugBuild = FALSE
  ArrivalCapacity = 1
  MaxNoise = 1
SPECIFICATION Spec
SYMMETRY MCSymmetry
INVARIANTS
  OneCapture
  CameraOnTarget
  NotLost
  ServedOnce
PROPERTIES
  KeepsPromise
CHECK_DEADLOCK FALSE
