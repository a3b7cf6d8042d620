SPECIFICATION FairToolsSpec
CONSTANTS
  MaxExternalCalls = 1
  MaxRuns = 2
  MaxToolCalls = 3
CHECK_DEADLOCK FALSE
INVARIANTS TypeOK NoStaleTermination TerminationReported AuditedOnce BegunWithinLimit
PROPERTIES TimedCodeEnds
