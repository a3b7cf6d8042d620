SPECIFICATION FairToolsSpec
CONSTANTS
  Tools = {sync, fast}
  AsyncTools = {fast}
  UnknownTool = unknown
  Orphans <- OneOrphan
  MaxExternalCalls = 3
  MaxStdoutBytes = 1
  MaxSteps = 6
CHECK_DEADLOCK FALSE
INVARIANTS RecordedOnce NeverSleepsOnReady CallsWithinLimit FuturesBacked StdoutBounded
PROPERTIES RunEnds
