\* B, the server, is started again once while both ends send.
SPECIFICATION ResetSpec
CONSTANTS
  A = A
  B = B
  WND_RCV = 2
  SndWnd = 2
  RcvWnd = 2
  Senders = {A, B}
  MaxSegs = 3
  NetCap = 2
  Restarted = B
  MaxRestarts = 1
  MaxTotal = 3
INVARIANTS
  FromTheBeginning
  NumbersInOrder
  WindowsHeld
  ResetInv
PROPERTIES
  DeafStaysDeaf
CHECK_DEADLOCK FALSE
