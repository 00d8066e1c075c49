SPECIFICATION FairSpec
CONSTANTS
  OutboxCap = 1
  MaxInput = 3
  MaxSessions = 2
  MayStall = TRUE
CHECK_DEADLOCK FALSE
INVARIANTS InputInOrder StopCleansUp
PROPERTIES InputFlushed SessionStopReturns
