SPECIFICATION Spec
CONSTANTS
  LLMax = 1
  MaxStringLength = 2
  IntElems = {1, 2}
  LongElems = {3}
  MaxCompact = 2
  Clients = {"c1", "c2"}
  Scenarios <- MCScenarios
  MaxQueue = 1
  MaxLen = 2
  Lag = 1
INVARIANTS FollowersAgree WatchedUnchanged ObjectsWellFormed NoMissedWakeup
