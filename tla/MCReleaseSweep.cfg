\* One request at a time beside the sweep, two entries, a failure and a crash.
SPECIFICATION Spec
CONSTANTS
    Entries = {e1, e2}
    Requests = {r1}
    Sweeper = sweeper
    Subscribers = {s1, s2}
    Kinds = {"admin"}
    NoEntry = none
    MaxTime = 1
    MaxSaves = 2
    MaxFaults = 1
PROPERTIES
    DueIsMailed
CHECK_DEADLOCK FALSE
