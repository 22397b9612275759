CONSTANTS
  c1 = c1
  c2 = c2
  Ids = {c1}
  NoId = NoId
  MaxTime = 0
  CalTicks = 0
  StaleAfter = 1
  Window = 1
  MaxTrace = 0
  DebugBuild = FALSE
  LinkCapacity = 1
  PicoBuffer = 1
  RETRIES = 1
  ReceivedCapacity = 1
  WebCapacity = 2
  USE_TLS = FALSE
  Offered = {4}
  Polls = 0
  Faulty = FALSE
  MaxTimers = 2
  MaxRestarts = 0
SPECIFICATION ReadySpec
PROPERTY NoFalseAlarm
CHECK_DEADLOCK FALSE
