\* One client and the listening socket, both builds.
SPECIFICATION FairSpec
CONSTANTS
  c1 = c1
  Clients = {c1}
  Listener = Listener
  MaxReq = 2
  Buffer = 512
  Overhead = 24
  Sizes = {300, 600}
  MaxMsgs = 2
  MaxFaults = 1
  MaxReceives = 2
  QueueCap = 1
INVARIANTS
  TypeOK
  ReceivesAccounted
  WaitingIsWoken
  LoopInv
PROPERTIES
  StaysUnheard
  EveryMessageRead
CHECK_DEADLOCK FALSE
