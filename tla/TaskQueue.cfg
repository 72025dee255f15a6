CONSTANTS
    Pushers = {p1, p2}
    MaxTicket = 4
SPECIFICATION FairSpec
INVARIANTS FIFO OnlyLateTasksDiscarded
PROPERTIES StopReturns NoLostWakeup
