CONSTANTS
  Calls = {c1, c2, c3}
  Kids = {k1, k2}
  Documents = {{k1}, {k1, k2}}
  None = None
  TTL = 1
  FetchTime = 1
  MaxClock = 2
SPECIFICATION FairSpec
INVARIANTS
  TypeOK
  AnswersFresh
  FetchesBounded
PROPERTY
  EveryCallReturns
CHECK_DEADLOCK FALSE
