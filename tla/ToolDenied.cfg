SPECIFICATION Spec
CONSTANTS
  HostNames <- Names3
  BadNames <- Bad
  MaxRegistered = 1
  MountTables <- Tables
  HttpHosts = {api}
  None = None
  HostCodes = {"QUOTA", "TIMEOUT_TOOL", "CANCELLED"}
  Callers = {c1}
  Paths <- AllPaths
  Texts <- Long
  HostDirs <- Dirs
  HostFiles <- Files
  MaxCalls = 1
CHECK_DEADLOCK FALSE
INVARIANTS DenialsTold
