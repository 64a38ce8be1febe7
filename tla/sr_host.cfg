SPECIFICATION FairSpec
CONSTANTS
  Claimed = {c1, c2}
  Direct = {d1}
  Pollers = {p1}
  Visitors = {v1}
  MaxRestarts = 1
  None = None
INVARIANTS
  TypeOK
  WorkIsRecorded
PROPERTIES
  RecordEnds
CHECK_DEADLOCK FALSE
