SPECIFICATION Spec
CONSTANTS
  Processes = {p1, p2}
  SessionIds = {s1}
  Languages <- BothLanguages
  MaxRuns = 3
  MaxExported = 1
  MayFail = TRUE
  None = None
  Torn = Torn
CHECK_DEADLOCK FALSE
SYMMETRY Symmetry
INVARIANTS Causal RunsStored
