CONSTANTS
  c1 = c1  c2 = c2
  Clients = {c1, c2}
  Messages = {1, 2, 3}
  Reordered = FALSE
  SendQueueSize = 2
  MessageDedupSize = 3
  batchSize = 1
  maxMessages = 2
  MaxLog = 3
  MaxFaults = 2
SPECIFICATION FairSpec
CONSTRAINTS VisitorFirst OneNotice
INVARIANTS NoDuplicates LiveNotMissed ResumeNotMissed RoomHoldsClients
PROPERTIES RecordsConsumed
CHECK_DEADLOCK FALSE
