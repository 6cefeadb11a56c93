CONSTANTS
  Users = {alice}
  Owner = owner
  Requests <- MCRequests
  Ops = {o1,o2}
  Workers = {w1}
  None = none
  MaxEdits = 1
  MaxWindow = 2
  MaxFaults = 1
  Faults = {"redis", "prune", "crash", "open", "db", "mutate", "lock", "job", "delete"}
SPECIFICATION Spec
SYMMETRY Symmetry
CHECK_DEADLOCK FALSE
INVARIANT TypeOK
 
INVARIANT AnswersAreKept
INVARIANT AuthorsAreCredited
INVARIANT ActorsActed
INVARIANT HeadHoldsAll
PROPERTY HeadNeverRewinds
PROPERTY RevertsAreUndoable
