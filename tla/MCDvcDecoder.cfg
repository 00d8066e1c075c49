SPECIFICATION FairSpec
CONSTANTS
  Row = 2
  Columns = 2
  Capacity = 4
  Codes <- MCCodes
  Asks <- MCAsks
  AskLast = 4
  AskRestart = 1
  MaxLastx = 1
CHECK_DEADLOCK FALSE
INVARIANTS TileBoundary LeftByCommand LessThanAByte RowOnScreen
PROPERTY KeepsAsking
