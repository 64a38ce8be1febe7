\* One fixed strategy, two applied to the AI slot, two dispatchers, one edit at a time.
CONSTANTS
  Fixed = {plunge}
  Slot = ai
  Applicable = {a1, a2}
  Priority = {plunge}
  Clerks = {k1}
  Dispatchers = {d1, d2}
  MaxInterval = 2
  MaxFaults = 1
  None = None
SPECIFICATION FairSpec
CHECK_DEADLOCK FALSE
INVARIANTS TypeOK
PROPERTIES RestsItsInterval KeepsRunning
