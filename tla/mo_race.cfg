\* One buy order, a submitter, a canceler and two reconcilers that overlap.
CONSTANTS
  b1 = b1
  s1 = s1
  NoOrder = NoOrder
  Order = {b1}
  Buy = {b1}
  Requested <- TwoUnits
  Executor = {e1}
  Canceler = {c1}
  Reconciler = {r1, r2}
  MaxAttempts = 2
  MaxCrashes = 1
SPECIFICATION Spec
CHECK_DEADLOCK FALSE
INVARIANTS TypeOK FilledIffComplete OneSubmission WorkingHasBrokerId
  ReservationFollowsOrder LedgerAgrees
PROPERTIES LegalTransitions ImplementsContract
