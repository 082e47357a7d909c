CONSTANTS
  p1 = p1
  p2 = p2
  p3 = p3
  k1 = k1
  k2 = k2
  b1 = b1
  b2 = b2
  None = None
  Pod = {p1, p2}
  Key = {p1, p2}
  First = {p1, p2}
  KeyOf <- OwnKey
  GPU = {0}
  Req <- OneEach
  Outcomes <- AnyFree
  Binder = {b1}
  Env = {}
  MaxNotes = 1
  MaxFaults = 0
SYMMETRY Symmetry
SPECIFICATION Spec
INVARIANTS
  DeletedIsForgotten
CHECK_DEADLOCK FALSE
