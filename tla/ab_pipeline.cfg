\* An entry and an addition of two overlapping cycles, two requests, a restart.
CONSTANTS
  c1 = c1
  c2 = c2
  p1 = p1
  p2 = p2
  NoOrder = NoOrder
  Order = {1, 2}
  Entry = {1}
  Position = {p1, p2}
  PositionOf <- OwnPositions
  PlannedBy <- TwoCycles
  Want <- TwoShares
  Limit = 3
  Providers = {"contract", "operational"}
  Cycle = {c1, c2}
  Operator = {u1, u2}
  Reconciler = {r1}
  MaxCrashes = 1
SPECIFICATION Spec
CHECK_DEADLOCK FALSE
INVARIANTS TypeOK LiveBuysWithinLimit LiveBuyIsReserved ClaimedIsApproved
