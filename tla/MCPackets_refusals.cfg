SPECIFICATION PacketsSpec
CONSTANTS
  AddressSpace = 16
  Files <- NodeFiles
  Calls <- SomeCalls
  OptionChoices <- SomeOptions
  TargetSetup <- OneTarget
  ShortAnswers = FALSE
  BitErrors <- OneBit
  BeyondBytes = {0}
  MaxCalls = 1
  MaxDamages = 0
  TEPs = {"r1", "t2"}
  Kind <- EndPointKind
  Channel <- EndPointChannel
  FlowControl = TRUE
  MASN = 7
  FarPackets <- Arriving
  BitFlips <- Flips
  MaxArrivals = 0
  AppStops = TRUE
  MaxDamaged = 1
  MaxSends = 1
  MaxReopens = 1
CHECK_DEADLOCK FALSE
INVARIANT RefusalsReachTheCaller
