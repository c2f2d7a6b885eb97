CONSTANTS
  Principals = {p1}
  Runs = {r1, r2}
  Null = Null
  MaxMicros = 1
  MaxLimit = 1
  Limit = 1
  TTL = 1
  MaxClock = 1
  MaxLag = 0
  PeriodEnd <- MCPeriodEnd
SPECIFICATION RecoverySpec
PROPERTIES
  EveryRequestAnswered
  HoldsEventuallyClose
CHECK_DEADLOCK FALSE
