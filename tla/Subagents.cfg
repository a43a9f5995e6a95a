SPECIFICATION FairSpec
CONSTANTS
  x = x
  y = y
  None = None
  Tasks <- MCTasks
  Worlds <- MCWorlds
  MaxParallel = 1
  Target = 1
CHECK_DEADLOCK FALSE
INVARIANTS RunningNotQueued RetentionBounded OneAnnouncedEnd
PROPERTIES CancelledBackgroundEnds FanoutReturns
