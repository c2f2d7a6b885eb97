CONSTANTS
  Principals = {p1}
  Runs = {r1, r2}
  Null = Null
  MaxMicros = 2
  MaxLimit = 3
  TTL = 1
  MaxClock = 4
  MaxLag = 1
  PeriodEnd <- MCPeriodEnd
SPECIFICATION Spec
SYMMETRY Symmetry
INVARIANTS
  TypeOK
  LimitRespected
  HoldsAccounted
  WindowSpendCovered
  DayWithinMonth
PROPERTY
  FinalStaysFinal
CHECK_DEADLOCK FALSE
