SPECIFICATION Spec
CONSTANTS
  t1 = t1
  t2 = t2
  t3 = t3
  t4 = t4
  None = None
  Schemas = {a, b}
  Txns = {t1, t2, t3, t4}
  MaxVersion = 2
  Kinds <- AllKinds
SYMMETRY Symmetry
INVARIANTS TypeOK PublishedDated PublishedFits
PROPERTIES PublishedFrozen
CHECK_DEADLOCK FALSE
