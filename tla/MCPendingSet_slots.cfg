CONSTANTS
  r1 = r1
  r2 = r2
  p1 = p1
  p2 = p2
  Requests = {r1, r2}
  Phones = {p1, p2}
  Free = Free
  PendingTTL = 2
  MaxNow = 3
  MaxBack = 1
  MaxAhead = 1
  MaxLost = 1
  MaxRows = 4
SPECIFICATION PendingSpec
INVARIANTS
  AuditTellsSlots
PROPERTIES
  NotTakenOver
SYMMETRY Symmetry
CHECK_DEADLOCK FALSE
