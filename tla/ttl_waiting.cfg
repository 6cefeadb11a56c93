CONSTANTS
  Jobs = {j1, j2}
  Ttl = 3
  RefreshEvery = 1
  MaxMisses = 1
  MaxAttempts = 2
  MaxStalls = 1
SPECIFICATION Spec
CHECK_DEADLOCK FALSE
SYMMETRY Symmetry
INVARIANT TypeOK
 
