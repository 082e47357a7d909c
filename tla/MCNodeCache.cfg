CONSTANTS
  p1 = p1
  p2 = p2
  p3 = p3
  r1 = r1
  r2 = r2
  None = None
  Pod = {p1, p2}
  Req <- OneEach
  Replica = {r1}
  Counts = {0, 1, 2}
  MaxChanges = 1
  MaxRestarts = 1
SPECIFICATION FairSpec
INVARIANTS
  TypeOK
  HoldsStored
  ExclusiveUnlessBlind
PROPERTIES
  KnownInTheEnd
CHECK_DEADLOCK FALSE
