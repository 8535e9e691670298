\* Two requests and the sweep over one entry, three saves, no faults: every race.
SPECIFICATION Spec
CONSTANTS
    Entries = {e1}
    Requests = {r1, r2}
    Sweeper = sweeper
    Subscribers = {s1}
    Kinds = {"admin", "xmlrpc"}
    NoEntry = none
    MaxTime = 1
    MaxSaves = 3
    MaxFaults = 0
INVARIANTS
    TypeOK
    MarkedMeansTried
    OnlyPublishedIsAnnounced
    OncePerSubscriber
    CacheNeverShowsWithdrawn
PROPERTIES
    MarkLostOnlyByOverlap
SYMMETRY RequestSymmetry
CHECK_DEADLOCK FALSE
