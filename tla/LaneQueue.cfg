SPECIFICATION FairSpec
CONSTANTS
  x = x
  y = y
  None = None
  Tasks <- MCTasks
  Modes <- MCModes
  Slots = 1
  MaxAttempts = 2
  Hosts = {h1}
CHECK_DEADLOCK FALSE
INVARIANTS AnnouncementsPaired NothingRegisteredAfterShutdown WaiterHasSender
PROPERTY CommandsAnswered
