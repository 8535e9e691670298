------------------------------- MODULE Cache -------------------------------
(***************************************************************************)
(* The page cache (internal/cache): one memo shared by every request, that *)
(* keeps the home page's entries, the feeds and the sidebar until anything *)
(* is written.  The first call that misses a key fills it and the others   *)
(* wait for that fill; a flush starts a new generation.                    *)
(*                                                                         *)
(* A call of Get is a member of Calls and is made once.  It creates at     *)
(* most one slot, so the slot goes by the call's name.  The database is    *)
(* its version, the number of writes so far; a filled value is the version *)
(* that the first query of the fill read.  What runs under c.mu is one     *)
(* step.  A handler that writes is a member of Writers: it writes, and     *)
(* flushes when it gets that far (nothing says that it does).              *)
(***************************************************************************)
EXTENDS Naturals

CONSTANTS
    Calls,          \* the calls of Get, from any number of goroutines
    Keys,           \* the cached keys: the home page, a feed, a sidebar
    Writers,        \* handlers that write once and then flush
    NoCall,         \* no slot
    NoKey           \* the key of a call that is not made yet

ASSUME CacheAssumption ==
    /\ NoCall \notin Calls
    /\ NoKey \notin Keys

VARIABLES
    ver,            \* writes so far: the version of the database
    writer,         \* how far each writer is
    gen,            \* Cache.gen
    vals,           \* Cache.vals: the slot of each key
    slot,           \* the slot a call made
    pc,             \* where a call is
    key,            \* the key it asks for
    on,             \* the slot it will answer from
    floor,          \* history: the version the last flush came after
    since           \* history: the floor when the call was made

data == <<ver, writer, floor>>
call == <<key, on, since>>
vars == <<data, gen, vals, slot, pc, call>>

Slot == [gen : Nat, ready : BOOLEAN, val : Nat, err : BOOLEAN]
NoSlot == [gen |-> 0, ready |-> FALSE, val |-> 0, err |-> FALSE]

TypeOK ==
    /\ ver \in Nat
    /\ writer \in [Writers -> {"start", "written", "done"}]
    /\ gen \in Nat \ {0}
    /\ vals \in [Keys -> Calls \union {NoCall}]
    /\ slot \in [Calls -> Slot]
    /\ pc \in [Calls -> {"start", "fill", "close", "forget", "wait", "done", "panicked"}]
    /\ key \in [Calls -> Keys \union {NoKey}]
    /\ on \in [Calls -> Calls \union {NoCall}]
    /\ \A c \in Calls : pc[c] # "start" => key[c] \in Keys /\ on[c] \in Calls
    /\ floor \in Nat
    /\ since \in [Calls -> Nat]

Init ==
    /\ ver = 0
    /\ writer = [w \in Writers |-> "start"]
    /\ gen = 1
    /\ vals = [k \in Keys |-> NoCall]
    /\ slot = [c \in Calls |-> NoSlot]
    /\ pc = [c \in Calls |-> "start"]
    /\ key = [c \in Calls |-> NoKey]
    /\ on = [c \in Calls |-> NoCall]
    /\ floor = 0
    /\ since = [c \in Calls |-> 0]

-----------------------------------------------------------------------------
(* Get. *)

\* This generation's slot for k is there.
Has(k) == vals[k] # NoCall /\ slot[vals[k]].gen = gen

\* The call is made: it will answer from slot s.
Begin(c, k, s, next) ==
    /\ pc[c] = "start"
    /\ pc' = [pc EXCEPT ![c] = next]
    /\ key' = [key EXCEPT ![c] = k]
    /\ on' = [on EXCEPT ![c] = s]
    /\ since' = [since EXCEPT ![c] = floor]

\* Mutant: the slot is used whether or not there is one of this generation.
Mutant_Hit(c, k) ==
    /\ \E x \in Calls : key[x] = k
    /\ Begin(c, k, vals[k], "wait")
    /\ UNCHANGED <<data, gen, vals, slot>>

\* A slot is there, filled or being filled: wait for it.
Hit(c, k) ==
    /\ Has(k)
    /\ Begin(c, k, vals[k], "wait")
    /\ UNCHANGED <<data, gen, vals, slot>>

\* None is: promise one and fill it.
Miss(c, k) ==
    /\ ~Has(k)
    /\ Begin(c, k, c, "fill")
    /\ vals' = [vals EXCEPT ![k] = c]
    /\ slot' = [slot EXCEPT ![c] = [NoSlot EXCEPT !.gen = gen]]
    /\ UNCHANGED <<data, gen>>

\* The fill reads the database.
FillRead(c) ==
    /\ pc[c] = "fill"
    /\ slot' = [slot EXCEPT ![c].val = ver]
    /\ pc' = [pc EXCEPT ![c] = "close"]
    /\ UNCHANGED <<data, gen, vals, call>>

\* The fill returns an error: a query failed, or the request it runs for, the
\* first to ask, was cancelled.
FillError(c) ==
    /\ pc[c] = "fill"
    /\ slot' = [slot EXCEPT ![c].err = TRUE]
    /\ pc' = [pc EXCEPT ![c] = "close"]
    /\ UNCHANGED <<data, gen, vals, call>>

\* The fill panics: recoverPanic answers that one request, and nobody closes
\* the slot.
FillPanic(c) ==
    /\ pc[c] = "fill"
    /\ pc' = [pc EXCEPT ![c] = "panicked"]
    /\ UNCHANGED <<data, gen, vals, slot, call>>

\* Mutant: an error returns before the slot is closed.
Mutant_CloseLate(c) ==
    /\ pc[c] = "close"
    /\ IF slot[c].err
       THEN pc' = [pc EXCEPT ![c] = "forget"] /\ UNCHANGED slot
       ELSE pc' = [pc EXCEPT ![c] = "done"] /\ slot' = [slot EXCEPT ![c].ready = TRUE]
    /\ UNCHANGED <<data, gen, vals, call>>

\* Mutant: an error is kept like a value.
Mutant_CloseKeeps(c) ==
    /\ pc[c] = "close"
    /\ slot' = [slot EXCEPT ![c].ready = TRUE]
    /\ pc' = [pc EXCEPT ![c] = "done"]
    /\ UNCHANGED <<data, gen, vals, call>>

\* close(s.ready) lets the waiters go; the lock is not held here.
Close(c) ==
    /\ pc[c] = "close"
    /\ slot' = [slot EXCEPT ![c].ready = TRUE]
    /\ pc' = [pc EXCEPT ![c] = IF slot[c].err THEN "forget" ELSE "done"]
    /\ UNCHANGED <<data, gen, vals, call>>

\* Mutant: the key is deleted whoever's slot it has now.
Mutant_Forget(c) ==
    /\ pc[c] = "forget"
    /\ vals' = [vals EXCEPT ![key[c]] = NoCall]
    /\ pc' = [pc EXCEPT ![c] = "done"]
    /\ UNCHANGED <<data, gen, slot, call>>

\* A failed slot is taken out, unless another one has its place by now.
Forget(c) ==
    /\ pc[c] = "forget"
    /\ vals' = [vals EXCEPT ![key[c]] = IF @ = c THEN NoCall ELSE @]
    /\ pc' = [pc EXCEPT ![c] = "done"]
    /\ UNCHANGED <<data, gen, slot, call>>

\* <-s.ready.
Wake(c) ==
    /\ pc[c] = "wait"
    /\ slot[on[c]].ready
    /\ pc' = [pc EXCEPT ![c] = "done"]
    /\ UNCHANGED <<data, gen, vals, slot, call>>

-----------------------------------------------------------------------------
(* The handlers that write. *)

Write(w) ==
    /\ writer[w] = "start"
    /\ writer' = [writer EXCEPT ![w] = "written"]
    /\ ver' = ver + 1
    /\ UNCHANGED <<gen, vals, slot, pc, call, floor>>

\* Mutant: a flush drops what is filled and spares what is being filled.
Mutant_Flush(w) ==
    /\ writer[w] = "written"
    /\ writer' = [writer EXCEPT ![w] = "done"]
    /\ vals' = [k \in Keys |->
                   IF vals[k] # NoCall /\ ~slot[vals[k]].ready THEN vals[k] ELSE NoCall]
    /\ floor' = ver
    /\ UNCHANGED <<ver, gen, slot, pc, call>>

Flush(w) ==
    /\ writer[w] = "written"
    /\ writer' = [writer EXCEPT ![w] = "done"]
    /\ gen' = gen + 1
    /\ vals' = [k \in Keys |-> NoCall]
    /\ floor' = ver
    /\ UNCHANGED <<ver, slot, pc, call>>

-----------------------------------------------------------------------------
Get(c) == \E k \in Keys : Hit(c, k) \/ Miss(c, k)
Fill(c) == FillRead(c) \/ FillError(c) \/ FillPanic(c)
Finish(c) == Close(c) \/ Forget(c) \/ Wake(c)

Next ==
    \/ \E c \in Calls : Get(c) \/ Fill(c) \/ Finish(c)
    \/ \E w \in Writers : Write(w) \/ Flush(w)

\* A fill ends one way or another, and a goroutine that can go on does.  No
\* call has to be made, and no writer has to write or to flush.
Spec ==
    /\ Init
    /\ [][Next]_vars
    /\ \A c \in Calls : WF_vars(Fill(c)) /\ WF_vars(Finish(c))
-----------------------------------------------------------------------------
(* Properties. *)

Answered(c) == pc[c] = "done" /\ ~slot[on[c]].err

\* "a value from before the flush is never handed out again even if a filler
\* that was already running stores it": a call made after a flush is never
\* answered with a reading of the database older than that flush.
NeverFromBeforeFlush ==
    \A c \in Calls : Answered(c) => slot[on[c]].val >= since[c]

\* "a cold home page is one query however many readers arrive at once": two
\* calls never fill one key in one generation at the same time, whatever
\* flushes and failed fills come between.
OneFiller ==
    \A c, d \in Calls :
        /\ pc[c] \in {"fill", "close", "panicked"}
        /\ pc[d] \in {"fill", "close", "panicked"}
        /\ key[c] = key[d]
        /\ slot[c].gen = slot[d].gen
        => c = d

\* "A fill that fails is not cached": the map holds a failed slot only until the
\* call that made it has taken it out.
FailureNotKept ==
    \A k \in Keys :
        vals[k] # NoCall /\ slot[vals[k]].err => pc[vals[k]] \in {"close", "forget"}

Stuck(c) == \E p \in Calls : on[c] = p /\ pc[p] = "panicked"

\* Every call comes back, unless the very fill it runs or waits for panicked:
\* neither flushes nor failed fills leave a waiter behind, and after a flush the
\* key of a fill that panicked is free again.
EveryCallReturns ==
    \A c \in Calls : pc[c] # "start" ~> pc[c] = "done" \/ Stuck(c)

\* The calls whose fill read the database.
Readers == {c \in Calls : on[c] = c /\ pc[c] \in {"close", "done"} /\ ~slot[c].err}

\* What a call asked for: a key, in the generation of the slot it answers from.
Asked(c) == [key |-> key[c], epoch |-> IF pc[c] = "start" THEN 0 ELSE slot[on[c]].gen - 1]

State(c) ==
    CASE pc[c] = "start" -> "unasked"
      [] Answered(c) -> "answered"
      [] pc[c] = "panicked" \/ (pc[c] = "done" /\ slot[on[c]].err) -> "failed"
      [] OTHER -> "pending"

Readings == {[of |-> Asked(c), val |-> slot[c].val] : c \in Readers}
Val(c) == IF Answered(c) THEN slot[on[c]].val ELSE 0

\* The cache does what Memo promises: one reading per key and generation, taken
\* after the generation began, for all the calls made in it.
M == INSTANCE Memo WITH
        epoch <- gen - 1,
        memo <- Readings,
        state <- [c \in Calls |-> State(c)],
        asked <- [c \in Calls |-> Asked(c)],
        value <- [c \in Calls |-> Val(c)]

ImplementsMemo == M!Spec
=============================================================================
