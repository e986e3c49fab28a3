SPECIFICATION Spec
CONSTANTS
  Half = 15
  INTERVAL = 2
  SLAP = 6
  RTO_DEF = 3
  RTO_MIN = 3
  RTO_MAX = 4
  PROBE_INIT = 3
  PROBE_LIMIT = 6
  Slots = {0}
  ClockJumps = FALSE
  MaxDelay = 3
  RtoCap = 8
INVARIANTS
  TimerInv
  RetransmitsOnTime
  ProbesOnTime
PROPERTIES
  SpacedByRto
\* A segment whose timeout would pass RtoCap stops the block.
CHECK_DEADLOCK FALSE
