SPECIFICATION FairSpec
CONSTANTS
  Clients = {a}
  Nobody = nobody
  MaxInFlight = 4
  MaxNotices = 2
INVARIANTS InputFollowsRequest AtMostOneLate ReleaseIsSent
PROPERTIES ReleaseIsHeard
