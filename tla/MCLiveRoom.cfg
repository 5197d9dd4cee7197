CONSTANTS
  MaxPeers = 3
  MaxBroadcasts = 2
  MaxStarting = 1
  Mixed = FALSE
  Students = {u1, u2}
  None = None
SPECIFICATION FairSpec
INVARIANTS GaugeExact StreamsNotMixed PromisedTracks MicKept
PROPERTIES EndedLeavesRoom
CHECK_DEADLOCK FALSE
