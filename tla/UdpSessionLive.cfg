\* Two clients, no restart; UDP delivers, a socket may be refused at times.
SPECIFICATION FairSpec
CONSTANTS
  c1 = c1
  c2 = c2
  Addr = {c1, c2}
  UniqueId <- MCUniqueId
  Faults = {"socket"}
  MaxRestarts = 0
  QueueCap = 1
PROPERTIES
  EveryoneServed
CHECK_DEADLOCK FALSE
