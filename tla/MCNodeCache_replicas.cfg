CONSTANTS
  p1 = p1
  p2 = p2
  p3 = p3
  r1 = r1
  r2 = r2
  None = None
  Pod = {p1, p2}
  Req <- OneEach
  Replica = {r1, r2}
  Counts = {2}
  MaxChanges = 0
  MaxRestarts = 0
SPECIFICATION Spec
INVARIANTS
  NoOversubscription
CHECK_DEADLOCK FALSE
