SPECIFICATION FairSpec
CONSTANTS
  a1 = a1
  a2 = a2
  xau = xau
  eur = eur
  NULL = NULL
  Id = {a1, a2}
  Symbol = {xau, eur}
  SymbolOf <- MCSymbolOf
  MaxDelay = 1
  MgmtMaxAge = 0
  ClaimMaxAge = 1
  Kinds <- MCKinds
  PanelRows = {a2}
INVARIANTS ManagementClaimedOnce ManagementExposure ParkedWaits
PROPERTIES TerminalAbsorbing HaltHoldsPending ClaimResolved
CHECK_DEADLOCK FALSE
