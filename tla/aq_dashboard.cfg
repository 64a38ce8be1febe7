\* Two threads of one process, two buys of one symbol and one of another.
CONSTANTS
  t1 = t1
  t2 = t2
  web = web
  cron = cron
  Approval = {1, 2, 3}
  Buy = {1, 2, 3}
  SymbolOf <- SharedSymbol
  Thread = {t1, t2}
  ProcessOf <- OneProcess
  NoThread = NoThread
  NoCache = NoCache
  MaxPositions = 2
  MaxAttempts = 1
  MaxCrashes = 1
SPECIFICATION Spec
CHECK_DEADLOCK FALSE
INVARIANTS TypeOK WorkingBuysWithinLimit
