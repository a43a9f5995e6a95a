SPECIFICATION FairSpec
CONSTANTS
  c = c
  d = d
  p = p
  k = k
  None = None
  Calls <- MCCalls
  Ids <- MCIds
  IdOf <- MCIdOf
  Asks <- MCAsks
  Timed = {d}
CHECK_DEADLOCK FALSE
INVARIANTS UndecidedIsPending ApprovalIsReal NoDeadRequest
PROPERTY CloseSettles
