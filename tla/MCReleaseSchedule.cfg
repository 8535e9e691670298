\* No faults, one editor, no overlap wanted: a schedule that is brought forward.
SPECIFICATION Spec
CONSTANTS
    Entries = {e1}
    Requests = {r1}
    Sweeper = sweeper
    Subscribers = {s1}
    Kinds = {"admin"}
    NoEntry = none
    MaxTime = 1
    MaxSaves = 2
    MaxFaults = 0
INVARIANTS
    MailedIsPinged
CHECK_DEADLOCK FALSE
