SPECIFICATION FairSpec
CONSTANTS
  r1 = r1
  r2 = r2
  r3 = r3
  r4 = r4
  o1 = o1
  o2 = o2
  Records = {r1, r2, r3, r4}
  ObjectOf <- MCObjectOf
  Containers = {c1, c2}
  Workers = {w1, w2}
  BatchSize = 2
  MaxStops = 3
  Upsets = {}
INVARIANTS StartInv FilledWhenApplied
PROPERTY EveryContainerServes
CHECK_DEADLOCK FALSE
