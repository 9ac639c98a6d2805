SPECIFICATION Spec
CONSTANTS
  NULL = NULL
  a1 = a1
  a2 = a2
  t1 = t1
  t2 = t2
  t3 = t3
  Action = {a1, a2}
  Limit = {}
  Ticket = {t1, t2}
  Lag = TRUE
  MaxCrash = 1
CHECK_DEADLOCK FALSE
SYMMETRY Symmetry
INVARIANTS LiveNeverClosed ExecutedRecorded
PROPERTIES BookKept
