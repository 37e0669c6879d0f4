SPECIFICATION FairSpec
CONSTANTS
  Settings <- MCTab
  Routines = {"ui", "session"}
  QueueSize = 1
PROPERTIES TabReturns
CHECK_DEADLOCK FALSE
