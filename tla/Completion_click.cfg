SPECIFICATION Spec
CONSTANTS
  v1 = v1
  v2 = v2
  Views = {v1, v2}
  Servers = {"server"}
  Others = {"words"}
  Words = {"words"}
  MaxKeys = 4
  MaxEvents = 1
  MaxRequests = 1
  MaxCursor = 1
INVARIANT
  RestoresInItsView
CHECK_DEADLOCK FALSE
