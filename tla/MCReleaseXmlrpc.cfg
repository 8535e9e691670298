\* No faults, one client, no schedules: a draft published later.
SPECIFICATION Spec
CONSTANTS
    Entries = {e1}
    Requests = {r1}
    Sweeper = sweeper
    Subscribers = {s1}
    Kinds = {"xmlrpc"}
    NoEntry = none
    MaxTime = 0
    MaxSaves = 2
    MaxFaults = 0
INVARIANTS
    PublishedIsPinged
CHECK_DEADLOCK FALSE
