CONSTANTS
  Edits = {e1, e2}
  Instances = {i1}
  Workers = {w1, w2}
  Operator = op
  None = none
  MaxAttempts = 2
  MaxStalls = 1
  InlineMax = 2
  MaxWindow = 2
  MaxFlushes = 2
  Faults = {"worker_crash", "stall"}
SPECIFICATION Spec
CHECK_DEADLOCK FALSE
SYMMETRY Symmetry
INVARIANT TypeOK
INVARIANT HistoryGrows
INVARIANT NoSilentLoss
PROPERTY HeadLockHolds
