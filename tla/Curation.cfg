SPECIFICATION FairSpec
CONSTANTS
  None = None
  Near <- MCNear
  MinClusterSize = 1
  MinSupport = 2
  Incoming <- MCIncoming
  Verdicts <- MCVerdicts
  NewTriggers <- MCNewTriggers
  Generated <- MCGenerated
  Situations <- MCSituations
  Simulated <- MCSimulated
  Symbol = TRUE
  QueueCap = 1
  BatchN = 1
  CorpusMax = 2
  MaxArrivals = 2
  MaxEdits = 2
  MaxMishaps = 1
CHECK_DEADLOCK FALSE
 
PROPERTIES  DecidedOnFile 
