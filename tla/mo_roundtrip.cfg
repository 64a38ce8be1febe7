\* A buy and the sell that closes the position; one reconciler, as when cycles do not overlap.
CONSTANTS
  b1 = b1
  s1 = s1
  NoOrder = NoOrder
  Order = {b1, s1}
  Buy = {b1}
  Requested <- TwoUnits
  Executor = {e1}
  Canceler = {c1}
  Reconciler = {r1}
  MaxAttempts = 1
  MaxCrashes = 1
SPECIFICATION FairSpec
CHECK_DEADLOCK FALSE
INVARIANTS FilledWithinBroker
PROPERTY NumberedOrderSettles
