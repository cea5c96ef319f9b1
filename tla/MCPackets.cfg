SPECIFICATION PacketsSpec
CONSTANTS
  AddressSpace = 16
  Files <- NodeFiles
  Calls <- SomeCalls
  OptionChoices <- SomeOptions
  TargetSetup <- OneTarget
  ShortAnswers = FALSE
  BitErrors <- OneBit
  BeyondBytes = {0}
  MaxCalls = 2
  MaxDamages = 1
  TEPs = {"r1", "t2"}
  Kind <- EndPointKind
  Channel <- EndPointChannel
  FlowControl = TRUE
  MASN = 7
  FarPackets <- Arriving
  BitFlips <- Flips
  MaxArrivals = 2
  AppStops = TRUE
  MaxDamaged = 1
  MaxSends = 1
  MaxReopens = 1
CHECK_DEADLOCK FALSE
INVARIANTS
  ExchangeInv AnswersTellTheTruth TimeoutsHaveACause EngineInv AnswersFindTheirWay NoCrossTalk
PROPERTIES
  DamageIsNoticed EngineGoesOn EveryCallReturns
