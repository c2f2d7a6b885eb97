CONSTANTS
  Principals = {p1}
  Runs = {r1, r2}
  Null = Null
  MaxMicros = 2
  MaxLimit = 3
  Limit = 3
  TTL = 1
  MaxClock = 1
  MaxLag = 0
  PeriodEnd <- MCPeriodEnd
SPECIFICATION Spec
SYMMETRY Symmetry
INVARIANTS
  TypeOK
  BackendAuthorised
  SuccessBacked
  RefusalsRecorded
  StoryInOrder
  ChargedOnlyIfServed
CHECK_DEADLOCK FALSE
