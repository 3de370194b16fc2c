SPECIFICATION Spec
CONSTANTS
    p1 = p1
    p2 = p2
    Paths = {p1}
    Kind <- PutOnly
    Facts <- PutEntry
    Modes = {"AUTO_API"}
    Outcomes = {"READY", "HOLD"}
    Faults = {"worker_crash"}
    Overlap = FALSE
    SnapSteps = {1}
    BatchLimit = 1
    MaxRuns = 1
    MaxEvents = 0
    MaxChats = 0
    MaxPack = 2
INVARIANTS NoResidualInProgress
CHECK_DEADLOCK FALSE
