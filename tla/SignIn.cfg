SPECIFICATION DialogSpec
CONSTANTS
  p1 = p1
  p2 = p2
  Phone = {p1, p2}
  Stale = Stale
  None = None
  Account = {"a1", "a2"}
  InitialFiles <- MCInitialFiles
  MaxClicks <- MCMaxClicks
 
PROPERTY WaitEnds
CHECK_DEADLOCK FALSE
