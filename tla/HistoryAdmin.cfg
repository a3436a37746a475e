SPECIFICATION FairSpec
CONSTANTS
  t1 = t1
  t2 = t2
  t3 = t3
  o1 = o1
  o2 = o2
  None = None
  Objects = {o1, o2}
  Txns = {t1, t2, t3}
  Dates = {1}
  MaxForms = 2
  Requests <- LockRequests
INVARIANTS HistoryInv
PROPERTIES EveryRequestEnds
CHECK_DEADLOCK FALSE
