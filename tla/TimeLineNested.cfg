CONSTANTS
    Ms = {0, 1, 2}
    Unit = 2
    Ids = {1, 2}
    NoId = NoId
    ExpiredOps = {"add", "start", "stop", "pause", "unpause"}
    LateOps = {"add", "stop"}
    MaxTime = 6
    MaxTimers = 2
    MaxDepth = 3
SPECIFICATION Spec
INVARIANTS ExpiresAsRegistered
CHECK_DEADLOCK FALSE
