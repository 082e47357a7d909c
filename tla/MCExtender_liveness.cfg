CONSTANTS
  p1 = p1
  p2 = p2
  p3 = p3
  k1 = k1
  k2 = k2
  b1 = b1
  b2 = b2
  None = None
  Pod = {p1}
  Key = {p1}
  First = {p1}
  KeyOf <- OwnKey
  GPU = {0, 1, 2}
  Req <- TwoEach
  Outcomes <- FirstPadded
  Binder = {b1}
  Env = {"linger", "bare", "crash", "relist", "apierr", "lost", "retry"}
  MaxNotes = 1
  MaxFaults = 1
SPECIFICATION FairSpec
INVARIANTS
  TypeOK
  KnownHasDevice
PROPERTIES
  BindIsAnswered
  FinishedIsReleased
  RunningBecomesKnown
CHECK_DEADLOCK FALSE
