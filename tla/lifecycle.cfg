CONSTANTS
  Users = {alice, bob}
  Requesters = {alice, none}
  Requests = {q1}
  Sweepers = {s1}
  Erasers = {d1}
  Replicas = {r1}
  None = none
  MaxWrites = 2
  MaxJoins = 1
  MaxFaults = 1
  Faults = {"throw", "pubsub", "lease", "db"}
SPECIFICATION FairSpec
CHECK_DEADLOCK FALSE
INVARIANT TypeOK
INVARIANT AdmittedWasOpen
INVARIANT ClosedRoomsEmpty
 
INVARIANT LocksReachSockets
INVARIANT LocksHaveOwner
INVARIANT SurvivorsWhole
PROPERTY ReaperSparesRestored
PROPERTY TrashIsEmptied
PROPERTY ImplementsLifecycleFacts
