SPECIFICATION FairNotices
CONSTANTS
  None = None
  d1 = d1
  d2 = d2
  b1 = b1
  b2 = b2
  c1 = c1
  r1 = r1
  Db = {d1, d2}
  Home = d1
  Routes <- MCRoutes
  Configs <- MCConfigs
  Batch = 2
  MaxRows = 1
  MaxBook = 1
  MaxOutbox = 6
  MaxNoop = 1
  MaxFails = 1
  MaxStops = 1
  MaxEdits = 1
CHECK_DEADLOCK FALSE
INVARIANT ToldOnce
PROPERTIES  Drained
