CONSTANTS
  Principals = {p1, p2}
  Runs = {r1, r2, r3, r4}
  Sessions = {s1, s2}
  Null = Null
  MaxMicros = 1
  MaxLimit = 2
  Served = {r1}
  Actuals = {2}
  Prefetch = 2
  Limits <- MCLimits
  TTL = 1
  MaxClock = 1
  MaxLag = 1
  PeriodEnd <- MCPeriodEnd
SPECIFICATION Spec
SYMMETRY Symmetry
INVARIANTS
  TypeOK
  OnlySweepsDeadlock
PROPERTY
  ImplementsLedger
CHECK_DEADLOCK FALSE
