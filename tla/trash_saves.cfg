CONSTANTS
  Edits = {e1}
  Instances = {i1}
  Workers = {w1}
  Operator = op
  None = none
  MaxAttempts = 2
  MaxStalls = 1
  InlineMax = 2
  MaxWindow = 2
  MaxFlushes = 1
  Faults = {"trash"}
SPECIFICATION Spec
CHECK_DEADLOCK FALSE
SYMMETRY Symmetry
PROPERTY TrashRefusesSaves
