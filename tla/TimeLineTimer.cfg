CONSTANTS
    Ms = {0, 1, 2}
    Unit = 2
    Ids = {1, 2}
    NoId = NoId
    ExpiredOps = {"add", "start", "stop", "pause", "unpause"}
    LateOps = {"stop"}
    MaxTime = 6
    MaxTimers = 2
    MaxDepth = 3
SPECIFICATION FairSpec
INVARIANTS ExpiresAsRegistered
PROPERTIES DueIsDispatched Service
CHECK_DEADLOCK FALSE
