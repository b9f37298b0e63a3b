CONSTANTS
  FREE_BURST = 2
  BURST_DELAY = 1
  STEADY_DELAY = 2
  IDLE_RESET = 3
  BAN_BASE_DELAY = 3
  BUSY_BASE_DELAY = 1
  MAX_BAN_MULTIPLIER = 4
  JITTER_DIVISOR = 2
  ClockZeros <- MCClockZeros
  Horizon = 9
  MaxSends = 3
SPECIFICATION Spec
INVARIANTS
  TypeOK
  Coherent
  WindowWithinSchedule
  Resumable
PROPERTIES
  EscalationNeverShortens
  BackOffSpec
