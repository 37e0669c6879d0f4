SPECIFICATION Spec
CONSTANT MaxStarts = 2
INVARIANT ReadyClientInjects
CHECK_DEADLOCK FALSE
