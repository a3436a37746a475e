SPECIFICATION Spec
CONSTANTS
  t1 = t1
  t2 = t2
  t3 = t3
  o1 = o1
  o2 = o2
  None = None
  Objects = {o1}
  Txns = {t1, t2, t3}
  Dates = {1}
  MaxForms = 1
  Requests <- ApiRequests
INVARIANTS MergedIntoLast
CHECK_DEADLOCK FALSE
