CONSTANTS
  None = None
  N = 6
  Setups <- AllSetups
  Requests = {0, 1, 2, 3, 4, 5, 6}
  Orders <- Rotations
  MaxChanges = 1
SPECIFICATION Spec
INVARIANTS
  TypeOK
  EnumeratesPartitions
  SharesOutDevices
  BestOfABestPartition
  FailsExactlyUnlinked
  ShortOnlyWhen
  StaticTakesSmallestGroup
  AnswersWhatWasFree
  ScanInv
CHECK_DEADLOCK FALSE
