SPECIFICATION ServedSpec
CONSTANTS
    p1 = p1
    p2 = p2
    Paths = {p1}
    Kind <- PutOnly
    Facts <- PutWindow
    Modes = {"AUTO_API"}
    Outcomes = {"READY", "HOLD"}
    Faults = {}
    Overlap = FALSE
    SnapSteps = {0, 1}
    BatchLimit = 1
    MaxRuns = 3
    MaxEvents = 1
    MaxChats = 0
    MaxPack = 2
INVARIANTS PendingRowsAreQueued QueuedQuestionsAreOpen
PROPERTIES CompletedStays PendingIsAnswered LaneEndsAtLast
