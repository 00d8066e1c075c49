SPECIFICATION FairSpec
CONSTANTS
  PowerWrites <- MCPowerWrites
  OtherWrites <- MCOtherWrites
  PollEnabled = TRUE
  HealthEnabled = TRUE
  MaxRequests = 2
INVARIANT Fifo
PROPERTIES StopReturns ShownPowerRecovers JobQueueSpec
