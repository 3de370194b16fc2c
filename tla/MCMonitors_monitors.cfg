SPECIFICATION Monitors
CONSTANTS
  Sse = {"s1", "s2"}
  Szse = {"z"}
  Lists <- ListsOfThree
  MaxDay = 2
  MaxJobs = 3
  MaxCorrections = 1
  MaxMissing = 1
  MaxRetries = 1
  None = None
  JisiluItems = {"j"}
  XueqiuItems = {"x"}
  MaxVersion = 2
  Titles = {"t"}
  Modes = {"LIVE"}
  MaxRuns = 2
  Missing = Missing
  Funds = {"f"}
  DayLength = 3
  Window = {1}
  MaxTime = 4
  SessionEvery = 2
  NavEvery = 2
  StateEvery = 1
  Limits = {"low", "high"}
  MaxMoves = 2
  Faults = {"state", "raise", "kill", "tear"}
  NoValue = NoValue
INVARIANTS EventsChain LabelIsTrue NoNodeLost NoUsageLost ArchiveIsCurrent EventsAreReal ComparisonIsOfRelay
PROPERTIES ToldBeforeNoted
CHECK_DEADLOCK FALSE
