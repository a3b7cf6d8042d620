SPECIFICATION DaemonSpec
CONSTANTS
  Clients = {c1, c2}
  SessionIds = {s1}
  BadIds = {bad}
  MaxRuntimes = 2
  MaxCalls = 3
  MayDie = TRUE
  None = None
CHECK_DEADLOCK FALSE
SYMMETRY Symmetry
INVARIANTS ListComplete DestroyHonest SnapshotHonest SnapshotsGoHome
PROPERTIES SessionsStay UsesStore
