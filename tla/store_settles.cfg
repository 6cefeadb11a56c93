CONSTANTS
  Edits = {e1}
  Instances = {i1}
  Workers = {w1}
  Operator = op
  None = none
  MaxAttempts = 2
  MaxStalls = 1
  InlineMax = 2
  MaxWindow = 2
  MaxFlushes = 2
  Faults = {"redis", "worker_crash", "replica_crash", "stall"}
SPECIFICATION FairSpec
CHECK_DEADLOCK FALSE
PROPERTY HookReturns
PROPERTY JobsSettle
