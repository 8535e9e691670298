\* No faults: a save and the sweep that meet.
SPECIFICATION Spec
CONSTANTS
    Entries = {e1}
    Requests = {r1}
    Sweeper = sweeper
    Subscribers = {s1}
    Kinds = {"admin"}
    NoEntry = none
    MaxTime = 1
    MaxSaves = 2
    MaxFaults = 0
INVARIANTS
    MailedOnce
CHECK_DEADLOCK FALSE
