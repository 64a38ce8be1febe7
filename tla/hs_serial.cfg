\* One worker at a time, lost answers, a restart.
CONSTANTS
  w1 = w1
  w2 = w2
  Worker = {w1}
  MaxTrades = 2
  MaxStop = 2
  MaxStops = 4
  MaxLost = 2
  MaxCrashes = 1
  Overlapping = FALSE
SPECIFICATION FairSpec
CHECK_DEADLOCK FALSE
INVARIANTS TypeOK GateOpenIsCovered
PROPERTIES EntryRecovers StopOrderNeverLoosens
