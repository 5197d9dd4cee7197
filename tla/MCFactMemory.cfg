CONSTANTS
  w1 = w1  w2 = w2  w3 = w3  d1 = d1  d2 = d2  p1 = p1  p2 = p2
  None = None
  Writers = {w1, w2}
  Dispatchers = {d1, d2}
  Partitions = {p1}
  ConflictKeys = {1}
  Inputs <- SomeInputs
  Seed <- ASeed
  Batch = 1
  MaxFaults = 1
SPECIFICATION FairSpec
INVARIANTS SupersededOnce EventsMatchFacts DoneIsFindable
PROPERTIES EventuallyPublished
CHECK_DEADLOCK FALSE
