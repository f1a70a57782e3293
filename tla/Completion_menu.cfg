SPECIFICATION Spec
CONSTANTS
  v1 = v1
  v2 = v2
  Views = {v1, v2}
  Servers = {"server"}
  Others = {"words"}
  Words = {"words"}
  MaxKeys = 3
  MaxEvents = 2
  MaxRequests = 3
  MaxCursor = 1
SYMMETRY Symmetric
INVARIANTS
  ItemsHaveContext
  NoOutdatedItems
CHECK_DEADLOCK FALSE
