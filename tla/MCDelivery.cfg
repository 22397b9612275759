CONSTANTS
  c1 = c1
  c2 = c2
  Ids = {c1}
  NoId = NoId
  MaxTime = 0
  CalTicks = 0
  StaleAfter = 1
  Window = 1
  MaxTrace = 0
  DebugBuild = FALSE
  LinkCapacity = 3
  PicoBuffer = 3
  RETRIES = 1
  ReceivedCapacity = 3
  WebCapacity = 5
  USE_TLS = FALSE
  Offered = {4}
  Polls = 0
  Faulty = FALSE
  MaxTimers = 2
  MaxRestarts = 0
SPECIFICATION FairReadySpec
PROPERTY Delivered
CHECK_DEADLOCK FALSE
