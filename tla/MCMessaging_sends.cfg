SPECIFICATION Spec
CONSTANTS
    a1 = a1
    a2 = a2
    c1 = c1
    d1 = d1
    s1 = s1
    s2 = s2
    Agents = {a1, a2}
    Channels = {c1}
    DirectChannels = {}
    Sends = {s1, s2}
    MaxMessages = 2
    MaxRound = 1
    MaxSwaps = 0
    World = {"members", "clear"}
    CancelsMidLog = FALSE
SYMMETRY Symmetry
INVARIANTS
    TypeOK
    ReadMeansTold
    UnreadIsAnnounced
PROPERTIES
    NoBlindSend
CHECK_DEADLOCK FALSE
