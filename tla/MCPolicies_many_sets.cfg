CONSTANTS
  None = None
  N = 14
  Setups <- LateLink
  Requests = {2}
  Orders <- InOrder
  MaxChanges = 0
SPECIFICATION SpecFree
INVARIANTS
  AnswersLinked
CHECK_DEADLOCK FALSE
