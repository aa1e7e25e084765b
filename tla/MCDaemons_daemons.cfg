CONSTANTS
  r1 = r1
  Requests = {r1}
  NoOne = NoOne
  NoConn = NoConn
  Users <- MCUsers
  Actors <- MCActors
  Names <- MCNames
  MayOpen <- MCMayOpen
  Reviewers <- MCReviewers
  TTL = 1
  MaxNow = 1
  MaxCrashes = 2
  MaxConns = 2
  Results <- MCResults
  MaxInterrupted = 1
  PowerLoss = FALSE
  Sizes <- Small
SPECIFICATION Spec
INVARIANTS
  SecondLaunchShows
  ViewsAgree
VIEW View
CHECK_DEADLOCK FALSE
