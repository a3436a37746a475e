SPECIFICATION AccessSpec
CONSTANTS
  i1 = i1
  i2 = i2
  k1 = k1
  k2 = k2
  k3 = k3
  t1 = t1
  t2 = t2
  t3 = t3
  Blank = Blank
  None = None
  Ids = {i1, i2, Blank}
  Keys = {k1, k2, k3}
  Types = {t1, t2, t3}
  Stored <- MCStored
  Written <- MCWritten
  Tokens <- MCTokens
  Given <- MCGiven
  FieldRules <- MCFieldRules
  Queries <- MCQueries
  Terms <- MCTerms
  Configs <- MCConfigs
  MaxChanges = 1
INVARIANTS TypeOK ShownWasGranted WriteWasGranted SortedByShown ErrorNeedsChange Converges
CHECK_DEADLOCK FALSE
