CONSTANTS
  r1 = r1
  r2 = r2
  Requests = {r1, r2}
  NoOne = NoOne
  Users <- MCUsers
  Actors <- MCActors
  Names <- MCNames
  TTL = 1
  MaxNow = 0
  MaxCrashes = 2
  MaxInterrupted = 1
  PowerLoss = FALSE
  Sizes <- Small
SPECIFICATION FairSpec
INVARIANTS
  MemoryIsCanon
  NothingBuried
  ExecutingHasHandler
  EvidenceInv
PROPERTIES
  ImplementsLifecycle
  CutOffExecutionEnds
CHECK_DEADLOCK FALSE
