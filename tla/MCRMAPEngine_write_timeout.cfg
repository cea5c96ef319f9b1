SPECIFICATION Spec
CONSTANTS
  i1 = i1
  i2 = i2
  NoOne = NoOne
  Initiators <- Both
  Ops <- BlockingOps
  ManualInitiators <- NoManual
  ManualTID <- EmptyFunction
  Faults <- LossOnly
  LateReplies = FALSE
  MaxCommands = 1
  NTIDs = 2
  ReplyKinds <- Ok
CHECK_DEADLOCK FALSE
INVARIANT WriteTimesOutOnlyWithoutReply
