CONSTANTS
  a = a
  b = b
  again = again
  l1 = l1
  i1 = i1
  i2 = i2
  w1 = w1
  w2 = w2
  Calls = {a, b, again}
  Lessons = {l1}
  Keys = {1, 2}
  Lesson <- OneLesson
  Key <- RetryKey
  Stamps <- InOrder
  Workers = {w1, w2}
  Instances = {i1, i2}
  Instance <- Spread
  Serves <- AllServe
  MaxFaults = 1
SPECIFICATION FairSpec
INVARIANTS PublishedIsSent NumbersUnique OneMessagePerKey
PROPERTIES ImplementsLog PublishedIsFinal EventuallySent
CHECK_DEADLOCK FALSE
