CONSTANTS
  c1 = c1  c2 = c2
  Clients = {c1}
  Messages = {1, 2, 3}
  Reordered = TRUE
  SendQueueSize = 2
  MessageDedupSize = 3
  batchSize = 1
  maxMessages = 3
  MaxLog = 3
  MaxFaults = 0
SPECIFICATION Spec
INVARIANTS ResumeNotMissed
CHECK_DEADLOCK FALSE
