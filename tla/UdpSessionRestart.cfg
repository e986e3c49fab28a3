\* Two clients, a server that starts again once, a network that loses.
SPECIFICATION Spec
CONSTANTS
  c1 = c1
  c2 = c2
  Addr = {c1, c2}
  UniqueId <- MCUniqueId
  Faults = {"drop", "repeat", "socket"}
  MaxRestarts = 1
  QueueCap = 1
INVARIANTS
  SessionInv
  OwnInput
  SameConversation
  HandshakeIntact
CHECK_DEADLOCK FALSE
