SPECIFICATION FairSpec
CONSTANTS
  Flights <- MCFlights
  MaxData = 2
  MaxSend = 1
  MaxFaults = 1
CHECK_DEADLOCK FALSE
INVARIANTS Agreement NoFalseAlarm
PROPERTIES HandshakeCompletes StreamSpec
