CONSTANTS
  u1 = u1
  r1 = r1
  r2 = r2
  p1 = p1
  Users = {u1}
  Requests = {r1, r2}
  Products = {p1}
  Quantities = {1, 2}
  Amounts = {2}
  InitialStock <- Stock3
  InitialPoints <- Points3
  RetryLimit = 1
  MaxTimeouts = 1
SPECIFICATION FairSpec
INVARIANTS CallsReady BarrierMatchesTables
PROPERTIES SagaEnds ImplementsExchange
CHECK_DEADLOCK FALSE
