CONSTANTS
  c1 = c1
  Ids = {c1}
  NoId = NoId
  LinkCapacity = 1
  RETRIES = 2
  ReceivedCapacity = 1
  WebCapacity = 2
  PicoBuffer = 0
  USE_TLS = FALSE
  MaxMessages = 2
  MaxTimers = 1
  MaxRestarts = 1
SPECIFICATION FairSpec
PROPERTIES
  WaitEnds
  Handled
  EndIsFinal
CHECK_DEADLOCK FALSE
