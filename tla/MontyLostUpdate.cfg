SPECIFICATION Spec
CONSTANTS
  Clients = {c1, c2}
  SessionIds = {s1}
  MaxCalls = 3
  None = None
  MayDrop = FALSE
  Limits <- NoLimits
  Timeouts <- NoTimeouts
  DefaultLimits <- SmallLimits
CHECK_DEADLOCK FALSE
INVARIANTS RunsPersist
