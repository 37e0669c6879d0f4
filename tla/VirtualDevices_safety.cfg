SPECIFICATION Spec
CONSTANT MaxStarts = 4
INVARIANT DevicesAsHeld
PROPERTIES InjectsIntoOpenDevices StaleStopClosesNothing
CHECK_DEADLOCK FALSE
