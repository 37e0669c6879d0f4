SPECIFICATION FairSpec
CONSTANTS
  FirstServerID = 100
  Registries <- MCRegistries
  Capabilities = {3, 6, 7}
  Serials = {4}
  Outputs = {1, 2}
  Plugged = {1}
  MaxGlobals = 2
  MaxIterations = 6
INVARIANTS EventsReachTheirObject InitialHeadsKnown
PROPERTIES HeadsFollow
CHECK_DEADLOCK FALSE
