SPECIFICATION Spec
CONSTANTS
  Settings <- MCSettings
  Routines = {"ui", "key", "ipc", "device", "pump", "escape", "timer", "signal", "session"}
  QueueSize = 1
INVARIANTS TypeOK LockOrder NoInputAfterRelease TargetHasOwner
CHECK_DEADLOCK FALSE
