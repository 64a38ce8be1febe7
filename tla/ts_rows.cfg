SPECIFICATION FairSpec
CONSTANTS
  Buys = {b1, b2}
  Sells = {s1, s2}
  Approved = {b1, s1}
  Lot = 2
  Held = {0, 2}
  MaxOrders = 1
  Syncers = {w1}
  MaxDay = 1
INVARIANTS
  TypeOK
  GivenUpIsClosed
PROPERTIES
  LockIsReleased
  FillsArrive
