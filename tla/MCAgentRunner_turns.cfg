SPECIFICATION Spec
CONSTANTS
    MaxResponses = 2
    MaxCalls = 2
    MaxRound = 2
    Attempts = 2
    MaxTurns = 2
    MaxCrashes = 1
    Modes = {"streaming", "whole"}
INVARIANTS
    LoggedWhole
    LoggedWhenBegun
    ResumeForgetsAtMostTheLast
PROPERTIES
    RetriesForgetNothing
CONSTRAINTS
    OneCallUnlessStreamed
CHECK_DEADLOCK FALSE
