SPECIFICATION FairSpec
CONSTANTS
  MaxText = 5
  MaxVideo = 3
  MaxSent = 1
CHECK_DEADLOCK FALSE
INVARIANTS DecoderSeesVideo OutboundUnbroken
PROPERTY VideoArrives
