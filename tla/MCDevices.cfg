SPECIFICATION DevicesSpec
CONSTANTS
  Clients <- TwoClients
  Router <- SixPortRouter
  ConfigRequests <- RouterRequests
  LogicalAddresses <- ThreeRows
  InitialWords <- OneWord
  RouterFaults <- AllRouterFaults
  MaxConfigCalls = 1
  Users = {"u1"}
  CallsOf <- BoardUse
  NumberOfChannels = 2
  HalfSpace = 4
  MaxTrials = 2
  RetriesOpen = FALSE
  MaxBoardCalls = 2
  MaxBoardFaults = 2
  MaxHolds = 1
  MaxTicks = 1
  WordSpace = 4
  ByteSpace = 4
  EventKinds <- TwoKinds
  ReceiveBufferSize = 8
  MaxWaveformLength = 2
  InitialEventInstances = 1
  OpensWhenQuiet = TRUE
  ClosesBetweenEvents = TRUE
  MaxEvents = 2
  MaxOpens = 2
  MaxCuts = 1
  Writers = {"w1", "w2"}
  Reader = "reader"
  SpiPackets = {"p", "long"}
  TooLong = {"long"}
  FarEnds = {"EOP", "EEP"}
  MaxSpiCalls <- CallsOfThreads
  MaxSpiArrivals = 2
  MaxSpiOpens = 2
CHECK_DEADLOCK FALSE
INVARIANTS
  RouterInv BoardInv OkMeansDone EventInv SpiInv
PROPERTIES
  StartStopUnderSemaphore DeviceCallsReturn
