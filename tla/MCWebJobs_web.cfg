SPECIFICATION Web
CONSTANTS
  MaxDay = 2
  TradeDays = {1, 2}
  Endpoints = {"map", "close"}
  MaxAsked = 1
  Modes = {"AUTO_API", "INTERACTIVE_CHAT"}
  Faults = {"stage", "timeout"}
  MaxResumes = 2
  None = None
  Bonds = {"a", "b"}
  MaxAnswers = 2
  SnapshotModes = {"CLOSE", "HISTORICAL_REPLAY"}
  Absent = Absent
  s1 = s1
  s2 = s2
  Sessions = {s1, s2}
  Expires = TRUE
  Crashes = TRUE
  MaxClaims = 3
INVARIANTS FormalIsAsAsked SecondFormalRunRaced NoJobForgotten SettledByEvidence Exclusion
PROPERTIES OwnerLetsGo
CHECK_DEADLOCK FALSE
