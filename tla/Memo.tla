-------------------------------- MODULE Memo --------------------------------
(***************************************************************************)
(* What the page cache promises to the handlers that use it, with no lock, *)
(* no slots and no waiting.  Time is cut into epochs by the flushes.  For  *)
(* each epoch and key the database is read successfully at most once, at   *)
(* some moment after the epoch began, and every call made in that epoch is *)
(* answered with that one reading, or with an error.                       *)
(*                                                                         *)
(* The database is its version: the number of writes so far.               *)
(***************************************************************************)
EXTENDS Naturals

CONSTANTS
    Calls,          \* the calls of Get, each made once
    Keys,
    NoKey           \* the key of a call that is not made yet

VARIABLES
    ver,            \* writes so far
    epoch,          \* flushes so far
    memo,           \* the readings: a version for a key and an epoch
    state,          \* "unasked", "pending", "answered" or "failed"
    asked,          \* the key and the epoch of a call
    value           \* the answer of a call

vars == <<ver, epoch, memo, state, asked, value>>

Init ==
    /\ ver = 0
    /\ epoch = 0
    /\ memo = {}
    /\ state = [c \in Calls |-> "unasked"]
    /\ asked = [c \in Calls |-> [key |-> NoKey, epoch |-> 0]]
    /\ value = [c \in Calls |-> 0]

Write ==
    /\ ver' = ver + 1
    /\ UNCHANGED <<epoch, memo, state, asked, value>>

Flush ==
    /\ epoch' = epoch + 1
    /\ UNCHANGED <<ver, memo, state, asked, value>>

Ask(c, k) ==
    /\ state[c] = "unasked"
    /\ state' = [state EXCEPT ![c] = "pending"]
    /\ asked' = [asked EXCEPT ![c] = [key |-> k, epoch |-> epoch]]
    /\ UNCHANGED <<ver, epoch, memo, value>>

Read(c) ==
    /\ state[c] = "pending"
    /\ \A m \in memo : m.of # asked[c]
    /\ memo' = memo \union {[of |-> asked[c], val |-> ver]}
    /\ UNCHANGED <<ver, epoch, state, asked, value>>

Answer(c) ==
    /\ state[c] = "pending"
    /\ \E m \in memo : m.of = asked[c] /\ value' = [value EXCEPT ![c] = m.val]
    /\ state' = [state EXCEPT ![c] = "answered"]
    /\ UNCHANGED <<ver, epoch, memo, asked>>

Fail(c) ==
    /\ state[c] = "pending"
    /\ state' = [state EXCEPT ![c] = "failed"]
    /\ UNCHANGED <<ver, epoch, memo, asked, value>>

Next ==
    \/ Write
    \/ Flush
    \/ \E c \in Calls : (\E k \in Keys : Ask(c, k)) \/ Read(c) \/ Answer(c) \/ Fail(c)

Spec == Init /\ [][Next]_vars
=============================================================================
