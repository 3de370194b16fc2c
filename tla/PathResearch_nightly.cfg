SPECIFICATION Spec
CONSTANTS
    p1 = p1
    p2 = p2
    Paths = {p1, p2}
    Kind <- MaturityAndPut
    Facts <- BothEntries
    Modes = {"AUTO_API"}
    Outcomes = {"READY", "HOLD"}
    Faults = {"timeout", "worker_crash"}
    Overlap = FALSE
    SnapSteps = {1}
    BatchLimit = 2
    MaxRuns = 2
    MaxEvents = 0
    MaxChats = 0
    MaxPack = 2
INVARIANTS ProjectionPasses ResidualHasPassed
PROPERTIES LaneNeverRaises
