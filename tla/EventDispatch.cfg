CONSTANTS
    Core = {scheduler}
    Links = {link}
    Parents = {parent}
    Nobody = Nobody
    MaxRecords = 4
    MaxDepth = 2
SPECIFICATION Spec
INVARIANTS CoreIsCurrent CalledByPriority RegisteredOnce
PROPERTIES OnlyRegisteredCalled
