SPECIFICATION FairSpec
CONSTANTS
  Last = 3
  History = 1
  Kinds = {"single", "shared"}
  Burst = FALSE
  MaxFaults = 1
  MaxCrash = 1
INVARIANTS ReadOnce 
 
CHECK_DEADLOCK FALSE
