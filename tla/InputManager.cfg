SPECIFICATION InputSpec
CONSTANTS
    Ids = {a, b, c}
    Keys = {red}
    Nesting = {a, b}
    MaxDepth = 2
    None = None
INVARIANTS KeysAgree NobodyIsMissed
PROPERTIES OnlyReservingAreCalled DispatchEnds
