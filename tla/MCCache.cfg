\* Three calls of two keys, and a handler that writes and may flush.
SPECIFICATION Spec
CONSTANTS
    Calls = {c1, c2, c3}
    Keys = {home, feed}
    Writers = {w1}
    NoCall = none
    NoKey = nokey
INVARIANTS
    TypeOK
    NeverFromBeforeFlush
    OneFiller
    FailureNotKept
PROPERTIES
    EveryCallReturns
    ImplementsMemo
CHECK_DEADLOCK FALSE
