SPECIFICATION SessionsSpec
CHECK_DEADLOCK FALSE
INVARIANTS
  OutstandingExact
PROPERTIES
  NeitherEndGivesUp SendReturnsReceived SendCompletes CallsEnd
