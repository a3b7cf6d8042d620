SPECIFICATION FairSpec
CONSTANTS
  Clients = {c1, c2}
  SessionIds = {s1, s2}
  MaxCalls = 3
  None = None
  Shutdown = Shutdown
  MayDie = TRUE
CHECK_DEADLOCK FALSE
INVARIANTS PendingIsQueued DrainedAtStop
PROPERTIES AnsweredInOrder ImplementsStore EveryCallReturns ShutdownCompletes
