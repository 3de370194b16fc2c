SPECIFICATION FairSpec
CONSTANTS
  Docs = {"default", "progress", "trustee", "remark", "put", "rating"}
  KindOf <- KindsOf
  DayOf <- DaysOf
  MaxDay = 2
  Waves = 3
  MaxItems = 2
  Scenes <- AllScenes
INVARIANTS NoDocumentMissed MarksAreCurrent ToldIsAsked NoAuditLeft AuditsCanBeBuilt
PROPERTIES AuditsAreSettled
CHECK_DEADLOCK FALSE
