\* One approval, a dashboard thread and a scheduler job, retried broker calls, crashes.
CONSTANTS
  t1 = t1
  t2 = t2
  web = web
  cron = cron
  Approval = {1}
  Buy = {1}
  SymbolOf <- TwoSymbols
  Thread = {t1, t2}
  ProcessOf <- TwoProcesses
  NoThread = NoThread
  NoCache = NoCache
  MaxPositions = 1
  MaxAttempts = 2
  MaxCrashes = 2
SPECIFICATION FairSpec
CHECK_DEADLOCK FALSE
INVARIANTS SubmittedOnce PlacedAsDecided
PROPERTIES ImplementsContract ClaimEnds
