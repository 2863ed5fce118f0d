SPECIFICATION FairSpec
CONSTANTS
    a1 = a1
    a2 = a2
    c1 = c1
    d1 = d1
    s1 = s1
    s2 = s2
    Agents = {a1, a2}
    Channels = {d1}
    DirectChannels = {d1}
    Sends = {s1, s2}
    MaxMessages = 1
    MaxRound = 2
    MaxSwaps = 1
    World = {"clear"}
    CancelsMidLog = TRUE
INVARIANTS
    WithheldIsNeverTold
PROPERTIES
    SendsFinish
CHECK_DEADLOCK FALSE
