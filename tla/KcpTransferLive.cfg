\* One direction under a fair network and a fair application loop.  The window
\* of the receiver (2) closes before the 3 segments are through.
SPECIFICATION FairSpec
CONSTANTS
  A = A
  B = B
  WND_RCV = 2
  SndWnd = 2
  RcvWnd = 2
  Senders = {A}
  MaxSegs = 3
  NetCap = 2
PROPERTIES
  EverythingDelivered
CHECK_DEADLOCK FALSE
