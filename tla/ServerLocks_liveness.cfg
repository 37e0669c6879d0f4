SPECIFICATION FairSpec
CONSTANTS
  Settings <- MCStalling
  Routines = {"ipc", "device", "escape", "timer", "session"}
  QueueSize = 1
PROPERTIES OperationsEnd DeviceReleaseFrees
CHECK_DEADLOCK FALSE
