SPECIFICATION Spec
CONSTANTS
    a1 = a1
    a2 = a2
    Agents = {a1, a2}
    MaxRounds = 3
    SourceRounds = 1
    Briefings <- EveryRound
    Postmortems <- OnlyOne
    Schedule <- EveryKind
    WaitingEndsRound = FALSE
    ScenarioEndsRound = FALSE
    FinishesEarly = FALSE
    MinQuiet = 0
    RoundLimit = 1
    PostmortemLimit = 1
    MaxCrashes = 2
INVARIANTS
    NoBriefingLost
    EventsFireOnce
PROPERTIES
    BriefedOnce
    LifecycleKept
CHECK_DEADLOCK FALSE
