SPECIFICATION SerialSpec
CONSTANTS
  Clients = {c1, c2}
  SessionIds = {s1, s2}
  MaxCalls = 4
  None = None
  MayDrop = FALSE
  Limits <- NoLimits
  Timeouts <- NoTimeouts
  DefaultLimits <- SmallLimits
CHECK_DEADLOCK FALSE
INVARIANTS RunsPersist
PROPERTIES ImplementsStore
