CONSTANTS
  Requests = {r1, r2}
  NoRequest = NoRequest
  Width = 3
  MaxLines = 3
  MaxTorn = 1
  MaxRestarts = 1
SPECIFICATION FairSpec
INVARIANTS
  PassedMeansHanded
PROPERTIES
  EveryLineReached
CHECK_DEADLOCK FALSE
