SPECIFICATION FairSpec
CONSTANTS
    Subscribers = {s1}
    QueueSize = 2
    MaxCalls = 3
    MaxTransient = 2
INVARIANTS
    StreamFollowsTheLog
    TheEndIsLast
PROPERTIES
    LogCallsReturn
CHECK_DEADLOCK FALSE
