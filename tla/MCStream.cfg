SPECIFICATION StreamBehaviour
CONSTANTS
  M = 5
  K = 2
  Messages <- SixSegments
  MaxRetries = 1
  FlowControl = FALSE
  InitialMASN <- Zero
  InitialFlags = {FALSE}
  AppCloses = TRUE
  MaxOpens = 1
  MaxHeartBeats = 1
  MaxLosses = 2
  LossyTypes <- AllButClose
  Delays <- AllDelays
CHECK_DEADLOCK FALSE
INVARIANTS
  MessagesIntact ChannelInv  
PROPERTIES
  StreamSpec DataNeverClosesReceiver
