SPECIFICATION SwitchSpec
CONSTANTS
    a = a
    b = b
    d = d
    lambda = lambda
    door = door
    back = back
    language = language
    size = size
    pt = pt
    en = en
    Empty = Empty
    None = None
    Default = d
    Components <- MCComponents
    Attributes <- MCAttributes
    Values <- MCValues
    Rules <- MCRules
    Interfaces <- MCInterfaces
    Late <- MCLate
INVARIANTS OnlySelectedPlays MappedIsSelected EventsAgree
