SPECIFICATION Spec
CONSTANTS
  MaxDay = 1
  TradeDays = {1}
  Endpoints = {"close"}
  MaxAsked = 2
  Modes = {"AUTO_API"}
  MaxResumes = 0
  Faults = {}
  None = None
INVARIANT OneFormalRunPerDay
CHECK_DEADLOCK FALSE
