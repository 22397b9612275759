CONSTANTS
  c1 = c1
  c2 = c2
  Ids = {c1, c2}
  NoId = NoId
  MaxTime = 0
  CalTicks = 0
  StaleAfter = 1
  Window = 1
  MaxTrace = 0
  DebugBuild = FALSE
  LinkCapacity = 6
  PicoBuffer = 6
  RETRIES = 1
  ReceivedCapacity = 6
  WebCapacity = 5
  USE_TLS = FALSE
  Offered = {4}
  Polls = 2
  Faulty = FALSE
  MaxTimers = 0
  MaxRestarts = 0
SPECIFICATION ReadySpec
INVARIANT PhotoOnTarget
CHECK_DEADLOCK FALSE
