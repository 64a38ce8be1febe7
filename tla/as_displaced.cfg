\* Two processes that start at the same time.
CONSTANTS
  Processes = {p1, p2}
  Strategies = {s1}
  Clerks = {}
  Verdicts = {"approved"}
  OneStarter = FALSE
  MaxOutages = 0
  MaxFaults = 0
  MaxEdits = 0
  MaxScan = 0
  None = None
SPECIFICATION Spec
CHECK_DEADLOCK FALSE
PROPERTY LeaseIsKept
