SPECIFICATION Spec
CONSTANTS
  M = 8
  K = 3
  Messages <- NineSegments
  MaxRetries = 1
  FlowControl = TRUE
  InitialMASN <- Zero
  InitialFlags = {FALSE}
  AppCloses = FALSE
  MaxOpens = 1
  MaxHeartBeats = 0
  MaxLosses = 0
  LossyTypes <- Nothing
  Delays <- Nothing
CHECK_DEADLOCK FALSE
PROPERTIES SendsOnlyUpToMASN
