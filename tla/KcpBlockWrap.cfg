\* Numbers 0 .. 27 that wrap after the second segment of the run.
SPECIFICATION Spec
CONSTANTS
  A = A
  B = B
  WND_RCV = 2
  SndWnd = 3
  RcvWnd = 3
  Senders = {A}
  Overhead = 24
  Mtu = 576
  Payload = 264
  AckBlock = 1
  Half = 14
  FirstNumber = 26
  Lifetime = 3
  MaxSegs = 3
  Duplicates = FALSE
  MaxAcks = 2
  NetCap = 2
INVARIANTS
  TypeOK
  ListsInOrder
  CongestionInv
  BlockInv
PROPERTIES
  ImplementsTransfer
\* The application stops after MaxSegs segments.
CHECK_DEADLOCK FALSE
