CONSTANTS
  Principals = {p1}
  Runs = {r1}
  Null = Null
  MaxMicros = 2
  MaxLimit = 3
  Limit = 3
  TTL = 1
  MaxClock = 1
  MaxLag = 0
  PeriodEnd <- MCPeriodEnd
SPECIFICATION Spec
INVARIANT
  UnreliableUsageChargedInFull
CHECK_DEADLOCK FALSE
