CONSTANTS
  Requests = {r1, r2, r3}
  NoRequest = NoRequest
  MaxHides = 1
  MaxCrashes = 1
  MaxQueue = 3
SPECIFICATION FairSpec
CHECK_DEADLOCK FALSE
INVARIANT NeverStranded
INVARIANT FollowsThePage
PROPERTY KeepsConnecting
