\* Two workers, a position that may grow again, one lost answer.
CONSTANTS
  w1 = w1
  w2 = w2
  Worker = {w1, w2}
  MaxTrades = 2
  MaxStop = 2
  MaxStops = 2
  MaxLost = 1
  MaxCrashes = 0
  Overlapping = TRUE
SPECIFICATION Spec
CHECK_DEADLOCK FALSE
INVARIANTS RequiredIsOpen StopIsOnRecord
