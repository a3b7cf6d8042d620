SPECIFICATION Spec
CONSTANTS
  HostNames <- Names3
  BadNames <- Bad
  MaxRegistered = 1
  MountTables <- Tables
  HttpHosts = {api, other}
  None = None
  HostCodes = {"QUOTA", "TIMEOUT_TOOL", "CANCELLED"}
  Callers = {c1, c2}
  Paths <- AllPaths
  Texts <- Long
  HostDirs <- Dirs
  HostFiles <- Files
  MaxCalls = 3
CHECK_DEADLOCK FALSE
SYMMETRY Symmetry
INVARIANTS DiscoveryFaithful ListedReachable ErrorsTold
PROPERTIES Confined ReadsLast
