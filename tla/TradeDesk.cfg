SPECIFICATION FairSpec
CONSTANTS
  NULL = NULL
  Id = {"a"}
  Req = {"r1", "r2"}
  OnePanel = TRUE
  MaxFail = 1
INVARIANTS RequestsAtomic ExposedOnce
PROPERTY LotReaches
CHECK_DEADLOCK FALSE
