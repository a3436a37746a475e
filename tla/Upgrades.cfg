SPECIFICATION FairSpec
CONSTANTS
  a = a
  b = b
  c = c
  Null = Null
  Default = Default
  Roots <- MCRoots
  Today = 2
  Releases <- MCReleases
  Urls <- MCUrls
  Secrets = {s1, s2}
  Dates = {1, 2}
  MaxWrites = 3
  Upsets = {}
INVARIANTS HistoryKept GrantsKept
PROPERTY UpgradeEnds
CHECK_DEADLOCK FALSE
