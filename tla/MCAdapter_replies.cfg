CONSTANTS
  r1 = r1
  r2 = r2
  p1 = p1
  p2 = p2
  w1 = w1
  w2 = w2
  Requests = {r1, r2}
  Phones = {p1, p2}
  Allowed = {p1}
  Webhooks = {w1, w2}
  Free = Free
  NoRequest = NoRequest
  Recipients <- TwoPhones
  PendingTTL = 2
  MaxNow = 0
  MaxBack = 0
  MaxAhead = 0
  MaxLost = 0
  MaxRows = 0
  SendErrors <- Anytime
  MaxRestarts = 0
SPECIFICATION FairSpec
INVARIANTS
  CodeApprovesOnce
PROPERTIES
  EveryRequestHandled
CHECK_DEADLOCK FALSE
