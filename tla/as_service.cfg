\* Two processes whose starts do not overlap, one strategy that asks for two entries in a run,
\* one dashboard request that approves, one error or large loss.
CONSTANTS
  Processes = {p1, p2}
  Strategies = {s1}
  Clerks = {c1}
  Verdicts = {"approved"}
  OneStarter = TRUE
  MaxOutages = 1
  MaxFaults = 1
  MaxEdits = 1
  MaxScan = 2
  None = None
SPECIFICATION FairSpec
CHECK_DEADLOCK FALSE
INVARIANTS TypeOK OneService
PROPERTIES MismatchOutlastsItsRun ExitIsSent
