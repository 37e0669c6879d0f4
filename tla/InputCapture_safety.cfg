SPECIFICATION CaptureSpec
CONSTANTS
  Ids <- MCIds
  Devices = {d1, d2}
  Timers = {t1, t2, t3}
  NoTimer = NoTimer
  Timeout = 2
INVARIANTS CaptureTypeOK TargetHasTimer LocalHoldsOnlyLeftovers TargetHoldsDevices
PROPERTIES IdleGrabEnds
