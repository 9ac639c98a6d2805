SPECIFICATION FairStack
CONSTANTS
  Breach = {b1, b2}
  NoBreach = none
  Service = {"api", "bot"}
  MaxCrash = 1
INVARIANT Upgraded
PROPERTIES RestartKeeps ComesUp OperatorHaltStays 
CHECK_DEADLOCK FALSE
