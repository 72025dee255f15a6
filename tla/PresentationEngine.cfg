SPECIFICATION Spec
CONSTANTS
    None = None
    MaxStarts = 4
    MaxKeys = 4
INVARIANTS NothingFails EngineAgrees StopIsForTheWaiter
PROPERTIES StartsReturn
CHECK_DEADLOCK FALSE
