SPECIFICATION Spec
CONSTANTS
  Last = 3
  Readings <- MCReadings
  Routes <- MCRoutes
  MaxEdits = 1
INVARIANTS  OpensProtected
PROPERTIES SignalOnce AnswerWhole
CHECK_DEADLOCK FALSE
