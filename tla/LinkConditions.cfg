SPECIFICATION ConditionsSpec
CONSTANTS
    x = x
    y = y
    p = p
    q = q
    Link = Link
    None = None
    EventTransitions <- MCTransitions
    Leaves <- MCLeaves
    Trees <- MCTrees
    Actions <- MCActions
    MaxHeard = 2
INVARIANTS PendingIsCounted RunsNoMoreThanDue NothingHeardIsLost
PROPERTIES EvaluationsEnd
