\* No faults, one editor: a scheduled entry whose time comes.
SPECIFICATION Spec
CONSTANTS
    Entries = {e1}
    Requests = {r1}
    Sweeper = sweeper
    Subscribers = {s1}
    Kinds = {"admin"}
    NoEntry = none
    MaxTime = 1
    MaxSaves = 1
    MaxFaults = 0
INVARIANTS
    MailedIsOnHomePage
CHECK_DEADLOCK FALSE
