CONSTANTS
  r1 = r1
  Requests = {r1}
  NoOne = NoOne
  Users <- MCUsers
  Actors <- MCActors
  Names <- MCNames
  TTL = 1
  MaxNow = 2
  MaxCrashes = 2
  MaxInterrupted = 2
  PowerLoss = TRUE
  Sizes <- Large
SPECIFICATION Spec
INVARIANTS
  TypeOK
  AtMostOnce
  LaunchAuthorised
  RefusesOnlyDamage
  IInv
CHECK_DEADLOCK FALSE
