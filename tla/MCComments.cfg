\* Two comments, the owner and a reader, two requests at a time, three in all.
SPECIFICATION Spec
CONSTANTS
    Comments = {c1, c2}
    Addresses = {owner, ann}
    Owner = owner
    Workers = {w1, w2}
    NoComment = none
    MaxRequests = 3
INVARIANTS
    TypeOK
    HeldStaysPrivate
    ThreadToldOnce
    LinksMatch
    OffStaysOff
    SidebarIsHonest
SYMMETRY Symmetry
CHECK_DEADLOCK FALSE
