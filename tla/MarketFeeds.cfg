SPECIFICATION FairSpec
CONSTANTS
  MacroRounds <- MCMacroRounds
  Snapshots <- MCSnapshots
  Prices = {4690}
  CotReports <- MCCotReports
  EtfHistories <- MCEtfHistories
  Coverage <- MCCoverage
  Calendars <- MCCalendars
  Seed <- MCSeed
  Answers <- MCAnswers
  Replies <- MCReplies
  BaseSleep = 1
  MaxSleep = 2
  Step = 15
  Horizon = 30
  MaxWrites = 1
INVARIANTS  ReadersAgree
 
CHECK_DEADLOCK FALSE
