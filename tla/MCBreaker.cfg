SPECIFICATION FairSpec
CONSTANTS
  c1 = c1
  c2 = c2
  Callers = {c1, c2}
  Attempts = 2
  RollingWindow = 1
  OpenDuration = 1
  MinimumRequests = 2
  HalfOpenProbes = 2
  Failures = 1
  OutOf = 2
  MaxOutcomes = 3
  MaxPanics = 2
INVARIANTS ProbesAccounted
PROPERTIES OpensOnFreshEvidence CallsReturn Recovers
