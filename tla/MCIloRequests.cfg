SPECIFICATION FairSpec
CONSTANTS
  PauseMs = 3000
  MaxRaw = 5
INVARIANTS ReplyWhole AcquiredWhole NeverStalls
PROPERTIES RequestReturns
