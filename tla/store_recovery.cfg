CONSTANTS
  Edits = {e1, e2}
  Instances = {i1}
  Workers = {w1}
  Operator = op
  None = none
  MaxAttempts = 1
  MaxStalls = 0
  InlineMax = 1
  MaxWindow = 3
  MaxFlushes = 1
  Faults = {"db", "redis", "dlq_down", "aged", "trash", "purge", "drain_crash"}
SPECIFICATION Spec
CHECK_DEADLOCK FALSE
SYMMETRY Symmetry
INVARIANT NoSilentLoss
 
