\* One number out at a time over a narrow window: window announcements that are
\* out of date lead the sender past the end of the receiver's window.
SPECIFICATION Spec
CONSTANTS
  A = A
  B = B
  WND_RCV = 2
  SndWnd = 1
  RcvWnd = 2
  Senders = {A}
  MaxSegs = 5
  NetCap = 2
INVARIANTS
  NoDataForgotten
  WindowsHeld
CHECK_DEADLOCK FALSE
