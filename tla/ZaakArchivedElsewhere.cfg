SPECIFICATION Spec
CONSTANTS
  z1 = z1
  z2 = z2
  w1 = w1
  w2 = w2
  c1 = c1
  None = None
  Zaken = {z1, z2}
  Workers = {w1, w2}
  Clients = {c1}
  MaxPk = 2
PROPERTIES KeptForOthers
CHECK_DEADLOCK FALSE
