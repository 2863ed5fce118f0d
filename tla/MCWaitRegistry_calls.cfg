SPECIFICATION FairSpec
CONSTANTS
    a1 = a1
    c1 = c1
    Agents = {a1}
    Channels = {c1}
    MaxMessages = 2
    MaxPushes = 3
    MaxReads = 2
    Renderings = {"notice", "bodies"}
    WipesHistory = TRUE
INVARIANTS
    TypeOK
    OpenCalls
    NoLostWakeup
PROPERTIES
    LifecycleNoticesAreDelivered
    DeliveredInOrder
    DeadlineAnswers
    DoneEndsTheCall
    KeepsContract
CHECK_DEADLOCK FALSE
