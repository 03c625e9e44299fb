SPECIFICATION FairSpec
CONSTANTS
  c1 = c1
  c2 = c2
  a1 = a1
  k1 = k1
  Sync = {c1}
  Async = {}
  Cast = {}
  MaxEvents = 0
  MaxLosses = 1
PROPERTIES
  KeepsTrying
CHECK_DEADLOCK FALSE
