\* One application sends messages of 1 and 2 segments, the other one receives.
\* The 4 segments are more than either window, so both of them close.
SPECIFICATION Spec
CONSTANTS
  A = A
  B = B
  WND_RCV = 3
  SndWnd = 2
  RcvWnd = 3
  Senders = {A}
  MaxSegs = 4
  NetCap = 2
INVARIANTS
  Inv
  NoDataForgotten
  StreamIsPrefix
  WindowsHeld
  FullQueueHasMessage
PROPERTIES
  CountersNeverRetreat
  ImplementsStream
\* The application stops after MaxSegs segments.
CHECK_DEADLOCK FALSE
