CONSTANTS
    a = a
    b = b
    Media = {a, b}
    Order <- McOrder
    Ports <- McPorts
    Links = {l1, l2}
    LinkSet <- McLinks
    MaxActs = 2
    MaxDepth = 8
    MaxDelayed = 2
    MaxPending = 3
    MaxPauses = 2
SPECIFICATION McSpec
CHECK_DEADLOCK FALSE
INVARIANTS ChildrenAgree PendingAgrees EndsWithItsObjects
PROPERTIES EndsOnce
SYMMETRY McSymmetry
