SPECIFICATION FairSpec
CONSTANTS
  Clients = {c1, c2}
  SessionIds = {s1, s2}
  MaxCalls = 3
  None = None
  MayDrop = TRUE
  Limits <- NoLimits
  Timeouts <- AskedTimeouts
  DefaultLimits <- SmallLimits
CHECK_DEADLOCK FALSE
INVARIANTS TypeOK NoTornState MovedNotCopied
PROPERTIES EveryCallReturns
