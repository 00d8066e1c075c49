SPECIFICATION FairSpec
CONSTANTS
  OutboxCap = 1
  MaxInput = 0
  MaxSessions = 1
  MayStall = FALSE
CHECK_DEADLOCK FALSE
PROPERTY StopReturns
