CONSTANTS
  FREE_BURST = 3
  BURST_DELAY = 2
  STEADY_DELAY = 4
  IDLE_RESET = 6
  BAN_BASE_DELAY = 3
  BUSY_BASE_DELAY = 1
  MAX_BAN_MULTIPLIER = 4
  JITTER_DIVISOR = 2
  ClockZeros <- MCClockZeros
  Horizon = 40
  MaxSends = 8
  t1 = t1
  t2 = t2
  Threads <- OneThread
SPECIFICATION PacingSpec
INVARIANTS
  PacingTypeOK
  
  FloodBound
CHECK_DEADLOCK FALSE
