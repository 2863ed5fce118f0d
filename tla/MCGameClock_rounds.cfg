SPECIFICATION FairSpec
CONSTANTS
    a1 = a1
    a2 = a2
    Agents = {a1, a2}
    MaxRounds = 2
    SourceRounds = 0
    Briefings <- EveryRound
    Postmortems <- EveryRound
    Schedule <- SwapRound2
    WaitingEndsRound = TRUE
    ScenarioEndsRound = TRUE
    FinishesEarly = TRUE
    MinQuiet = 1
    RoundLimit = 2
    PostmortemLimit = 2
    MaxCrashes = 0
INVARIANTS
    TypeOK
    PhaseAgreement
PROPERTIES
    IdleEndsBriefed
    NothingAfterEnd
    RunEnds
CHECK_DEADLOCK FALSE
