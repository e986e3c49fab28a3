\* Both applications send, so that data segments acknowledge and announce a
\* window for the other direction too.
SPECIFICATION Spec
CONSTANTS
  A = A
  B = B
  WND_RCV = 2
  SndWnd = 1
  RcvWnd = 2
  Senders = {A, B}
  MaxSegs = 2
  NetCap = 2
INVARIANTS
  NoDataForgotten
CHECK_DEADLOCK FALSE
