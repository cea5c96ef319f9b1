SPECIFICATION InterfacesSpec
CONSTANTS
  Senders = {"s1", "s2"}
  Receivers = {"r1"}
  SendRequests <- Frames
  ReceiveCalls = {"pointer", "value"}
  MaxSendCalls = 1
  MaxLeaks = 1
  LengthOfSizePart = 1
  MayBreak = TRUE
  MayCancel = TRUE
  AddressSpace = 16
  Apps = {"a1"}
  Styles <- BothStyles
  Targets <- TwoTargets
  Commands <- SomeCommands
  MaxModules = 2
  MaxCommands = 2
  MaxRuns = 2
CHECK_DEADLOCK FALSE
INVARIANTS
  SSDTPInv LifeInv EngineReceivesOnLiveModule
PROPERTIES
  CallsGiveBackTheirLocks SentPacketsArrive StopAlwaysReturns
