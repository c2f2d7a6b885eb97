CONSTANTS
  Events = {e1, e2, e3}
  Operators = {o1, o2}
  None = None
  Hash <- MCHash
  ZeroHash <- MCZeroHash
SPECIFICATION FairSpec
INVARIANTS
  TypeOK
  ChainVerifies
  CheckpointsAnchored
PROPERTIES
  ImplementsLog
  EveryAppendReturns
CHECK_DEADLOCK FALSE
