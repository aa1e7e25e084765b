CONSTANTS
  r1 = r1
  Requests = {r1}
  NoOne = NoOne
  Users <- MCUsers
  Actors <- MCActors
  Names <- MCNames
  TTL = 1
  MaxNow = 0
  MaxCrashes = 2
  MaxInterrupted = 1
  PowerLoss = TRUE
  Sizes <- Small
SPECIFICATION Spec
PROPERTIES
  DeniedIsFinal
CHECK_DEADLOCK FALSE
