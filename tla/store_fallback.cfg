CONSTANTS
  Edits = {e1, e2}
  Instances = {i1}
  Workers = {w1}
  Operator = op
  None = none
  MaxAttempts = 2
  MaxStalls = 1
  InlineMax = 2
  MaxWindow = 2
  MaxFlushes = 2
  Faults = {"redis", "key_loss", "evict_job"}
SPECIFICATION Spec
CHECK_DEADLOCK FALSE
SYMMETRY Symmetry
INVARIANT HistoryGrows
PROPERTY ImplementsDurableSaves
