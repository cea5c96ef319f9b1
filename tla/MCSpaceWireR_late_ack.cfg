SPECIFICATION Spec
CONSTANTS
  M = 4
  K = 2
  Messages <- TwoMessages
  MaxRetries = 1
  FlowControl = FALSE
  InitialMASN <- Zero
  InitialFlags = {FALSE}
  AppCloses = FALSE
  MaxOpens = 1
  MaxHeartBeats = 0
  MaxLosses = 2
  LossyTypes <- DataAndAck
  Delays <- LateAcks
CHECK_DEADLOCK FALSE
PROPERTIES SendReturnsReceived
