CONSTANTS
  Calls = {c1, c2}
  Caller <- MCCaller
  c1 = c1
  c2 = c2
  s1 = s1
  Students = {s1}
  Teacher = t
SPECIFICATION FairSpec
INVARIANTS OneAnswer AllAnswersTold
PROPERTIES DeletedForgotten RemovedLosesPermission LessonFound
CHECK_DEADLOCK FALSE
