SPECIFICATION Spec
CONSTANTS
    p1 = p1
    p2 = p2
    Paths = {p1}
    Kind <- PutOnly
    Facts <- PutWindow
    Modes = {"AUTO_API"}
    Outcomes = {"READY", "HOLD"}
    Faults = {"timeout", "worker_crash", "reboot"}
    Overlap = TRUE
    SnapSteps = {1}
    BatchLimit = 1
    MaxRuns = 2
    MaxEvents = 1
    MaxChats = 0
    MaxPack = 1
INVARIANTS TypeOK RowAnswersItsTrigger PromotedEventsWereAsked
CHECK_DEADLOCK FALSE
