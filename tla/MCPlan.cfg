SPECIFICATION Spec
CONSTANTS
  Executors = {e1}
  a = a
  b = b
  c = c
  Keys = {a, b, c}
  Dependencies <- Lists
  maxSteps = 3
  maxReplans = 1
  BlankOutput = TRUE
  LoadMayFail = FALSE
  MaxRuns = 3
  MaxRevisions = 2
INVARIANTS PlanStatusAgrees NeverStuck AnswerComplete
PROPERTIES DonePreserved NoRepeat
CHECK_DEADLOCK FALSE
