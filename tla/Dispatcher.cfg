SPECIFICATION Spec
CONSTANTS
    Clients = {c1, c2}
    Timers = {t1, t2}
    MaxTasks = 4
    None = None
INVARIANTS StoppedAreGone
PROPERTIES ImplementsMailbox EveryTaskRuns
CHECK_DEADLOCK FALSE
