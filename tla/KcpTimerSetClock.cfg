SPECIFICATION Spec
CONSTANTS
  Half = 15
  INTERVAL = 2
  SLAP = 6
  RTO_DEF = 3
  RTO_MIN = 3
  RTO_MAX = 4
  PROBE_INIT = 3
  PROBE_LIMIT = 6
  Slots = {}
  ClockJumps = TRUE
  MaxDelay = 3
  RtoCap = 8
INVARIANTS
  FlushIsNear
  CheckMissesNothing
CHECK_DEADLOCK FALSE
