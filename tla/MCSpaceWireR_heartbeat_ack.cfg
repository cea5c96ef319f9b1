SPECIFICATION Spec
CONSTANTS
  M = 4
  K = 2
  Messages <- FourSegments
  MaxRetries = 1
  FlowControl = FALSE
  InitialMASN <- Zero
  InitialFlags = {FALSE}
  AppCloses = FALSE
  MaxOpens = 1
  MaxHeartBeats = 1
  MaxLosses = 0
  LossyTypes <- Nothing
  Delays <- Nothing
CHECK_DEADLOCK FALSE
PROPERTIES SendReturnsReceived
