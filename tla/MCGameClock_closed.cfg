SPECIFICATION Spec
CONSTANTS
    a1 = a1
    a2 = a2
    Agents = {a1}
    MaxRounds = 2
    SourceRounds = 0
    Briefings <- EveryRound
    Postmortems <- OnlyOne
    Schedule <- CloseRound2
    WaitingEndsRound = FALSE
    ScenarioEndsRound = FALSE
    FinishesEarly = FALSE
    MinQuiet = 1
    RoundLimit = 2
    PostmortemLimit = 1
    MaxCrashes = 1
PROPERTY ClosedStaysClosed
CHECK_DEADLOCK FALSE
