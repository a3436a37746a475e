SPECIFICATION Spec
CONSTANTS
  u1 = u1
  u2 = u2
  t1 = t1
  t2 = t2
  r1 = r1
  r2 = r2
  Absent = Absent
  Uuids = {u1, u2}
  TypeOf <- MCTypeOf
  Fits <- MCFits
  WithGeometry = {t2}
  Requests = {r1, r2}
  Bodies <- MCBodies
  Wheres <- MCWheres
  Paths <- MCPaths
  Keys = {"a", "b"}
  MaxDepth = 2
  Reads <- MCReads
  Order <- MCOrder
  Holds <- MCHolds
  Values <- MCValues
  Initial <- MCInitial
  MaxDay = 3
  MaxRecords = 3
SYMMETRY MCSymmetry
INVARIANTS TypeOK SavedFits PatchMergesData FoundIsShown OperatorsAgree CurrentIsShown UuidErrorNeedsRace
PROPERTIES FormalPastFixed ImplementsHistory
CHECK_DEADLOCK FALSE
