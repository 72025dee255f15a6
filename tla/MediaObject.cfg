CONSTANTS
    a = a
    b = b
    c = c
    whole = whole
    Areas <- McAreas
    Whole = whole
    Begin <- McBegin
    AreaEnd <- McEnd
    NoDur = NoDur
    None = None
    ExplicitDur = 3
    MaxTime = 4
    MaxTasks = 2
    MaxTimers = 2
    MaxPauses = 2
    MaxRuns = 2
SPECIFICATION FairSpec
INVARIANTS ParentAgrees EventsFollowMain
PROPERTIES NothingEarly MainEnds
CHECK_DEADLOCK FALSE
