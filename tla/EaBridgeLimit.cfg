SPECIFICATION FairSpec
CONSTANTS
  NULL = NULL
  a1 = a1
  a2 = a2
  t1 = t1
  t2 = t2
  t3 = t3
  Action = {a1}
  Limit = {a1}
  Ticket = {t1, t2}
  Lag = TRUE
  MaxCrash = 0
INVARIANT TrackedOnce
PROPERTY BookFollows
CHECK_DEADLOCK FALSE
