SPECIFICATION Spec
CONSTANTS
  MaxDay = 2
  TradeDays = {1, 2}
  Endpoints = {"map", "calc"}
  MaxAsked = 2
  Modes = {"AUTO_API"}
  MaxResumes = 0
  Faults = {}
  None = None
INVARIANT FormalIsOfItsClose
CHECK_DEADLOCK FALSE
