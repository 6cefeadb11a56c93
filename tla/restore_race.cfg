CONSTANTS
  Users = {alice}
  Requesters = {alice}
  Requests = {q1}
  Sweepers = {s1}
  Erasers = {d1}
  Replicas = {r1}
  None = none
  MaxWrites = 2
  MaxJoins = 0
  MaxFaults = 0
  Faults = {}
SPECIFICATION Spec
CHECK_DEADLOCK FALSE
PROPERTY RefusesLive
