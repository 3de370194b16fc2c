SPECIFICATION Spec
CONSTANTS
    p1 = p1
    p2 = p2
    Paths = {p1}
    Kind <- PutOnly
    Facts <- PutOpens
    Modes = {"AUTO_API", "INTERACTIVE_CHAT"}
    Outcomes = {"READY"}
    Faults = {}
    Overlap = TRUE
    SnapSteps = {1}
    BatchLimit = 1
    MaxRuns = 2
    MaxEvents = 0
    MaxChats = 2
    MaxPack = 1
INVARIANTS OneLiveChatPerTrigger
CHECK_DEADLOCK FALSE
