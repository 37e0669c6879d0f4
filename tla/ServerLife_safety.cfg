SPECIFICATION FairSpec
CONSTANTS
  c1 = c1
  c2 = c2
  k1 = k1
  k2 = k2
  Commands = {k1, k2}
  Clients = {c1, c2}
  MaxClients = 1
  Users <- MCUsers
INVARIANTS ReportsAreTrue ReadyBeforeUse ToldBeforeClosed StopLeavesNothing
PROPERTIES ShutdownEnds
CHECK_DEADLOCK FALSE
