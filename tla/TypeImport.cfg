SPECIFICATION Spec
CONSTANTS
  t1 = t1
  t2 = t2
  t3 = t3
  f1 = f1
  f2 = f2
  s1 = s1
  Absent = Absent
  Gone = Gone
  Order <- MCOrder
  Fields = {f1, f2}
  Schemas = {s1}
  MaxVersion = 3
  PageSize = 1
  InitialRemote <- MCRemote
  InitialTypes <- MCTypes
  MaxChanges = 2
  MaxImports = 2
INVARIANTS TypeOK ImportedIsThere
PROPERTY VersionsKept
CHECK_DEADLOCK FALSE
