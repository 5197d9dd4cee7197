SPECIFICATION Spec
CONSTANTS
  Executors = {e1, e2}
  a = a
  b = b
  c = c
  Keys = {a, b}
  Dependencies <- Chains
  maxSteps = 2
  maxReplans = 1
  BlankOutput = FALSE
  LoadMayFail = FALSE
  MaxRuns = 2
  MaxRevisions = 1
SYMMETRY Symmetry
PROPERTIES DonePreserved
CHECK_DEADLOCK FALSE
