SPECIFICATION Spec
CONSTANTS
    MaxResponses = 1
    MaxCalls = 0
    MaxRound = 2
    Attempts = 1
    MaxTurns = 1
    MaxCrashes = 1
    Modes = {"streaming"}
INVARIANTS
    ResumesInLastRound
CHECK_DEADLOCK FALSE
