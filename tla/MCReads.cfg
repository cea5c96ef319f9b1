SPECIFICATION ReadsSpec
CONSTANTS
  i1 = i1
  i2 = i2
  NoOne = NoOne
  Initiators <- Both
  Ops <- ReadOps
  ManualInitiators <- NoManual
  ManualTID <- EmptyFunction
  Faults <- AllFaults
  LateReplies = FALSE
  MaxCommands = 3
  NTIDs = 2
  ReplyKinds <- OkOrError
CHECK_DEADLOCK FALSE
SYMMETRY Symmetry
INVARIANTS
  TIDConservation
  TakesLivePacket
  NoPacketLeak
  OnlyFailedSendsLeakTIDs
  CancelsOwnTransaction
  ReadTimesOutOnlyWithoutReply
