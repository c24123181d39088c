SPECIFICATION Spec
CONSTANTS
  ClockMod = 5
  ReportDelay = 2
INVARIANTS ReportsTypeOK QuietAfterJoin NotedIsOffered
PROPERTIES ViewSettles LedSettles JoinsInTheEnd
