-------------------------------- MODULE Views --------------------------------
(***************************************************************************)
(* The view counter (web/routes_entry.go): an entry is counted once for a  *)
(* visitor, whose cookie carries the ids of what they have read.  A        *)
(* request works on the cookie it was sent; the answer replaces it.  The   *)
(* editor's save writes the counter back with the rest of the row          *)
(* (store/entries.go, UpdateEntry).                                        *)
(***************************************************************************)
EXTENDS Naturals, FiniteSets, SequencesExt

CONSTANTS
    Visitors,       \* browsers
    Articles,       \* entries they open
    Tabs,           \* requests in flight, reused when they end
    SeenMax,        \* how many ids a cookie holds
    MaxViews        \* bound: the counters stop here

ASSUME ViewsAssumption == SeenMax \in Nat \ {0} /\ MaxViews \in Nat

VARIABLES
    views,          \* entries.views
    seen,           \* the cookie of each visitor, oldest first
    tab,            \* where a request is, and the cookie it was sent
    draft,          \* the counter as an open save read it
    counted,        \* history: the views of an entry that were counted, whose and as which
    unsteady,       \* history: visitors whose requests met, or whose cookie was lost
    overwritten     \* history: entries counted while a save was open

vieVars == <<views, seen, tab, draft, counted, unsteady, overwritten>>

NoSave == MaxViews + 1
VieFree == [at |-> "idle"]
VieJob ==
    {VieFree}
    \union [at : {"count", "answer"}, by : Visitors, of : Articles,
            sent : BoundedSeq(Articles, SeenMax)]

VieTypeOK ==
    /\ views \in [Articles -> 0..MaxViews]
    /\ seen \in [Visitors -> BoundedSeq(Articles, SeenMax)]
    /\ tab \in [Tabs -> VieJob]
    /\ draft \in [Articles -> 0..NoSave]
    /\ counted \in [Articles -> SUBSET (Visitors \X (1..MaxViews))]
    /\ unsteady \subseteq Visitors
    /\ overwritten \subseteq Articles

VieInit ==
    /\ views = [e \in Articles |-> 0]
    /\ seen = [v \in Visitors |-> <<>>]
    /\ tab = [t \in Tabs |-> VieFree]
    /\ draft = [e \in Articles |-> NoSave]
    /\ counted = [e \in Articles |-> {}]
    /\ unsteady = {}
    /\ overwritten = {}

Counts(e) == Cardinality(counted[e])
ReadBy(v) == {e \in Articles : \E x \in counted[e] : x[1] = v}
Loads(t, job) == tab' = [tab EXCEPT ![t] = job]

-----------------------------------------------------------------------------
\* The browser asks for the entry and sends the cookie it has.
OpenEntry(t, v, e) ==
    /\ tab[t] = VieFree
    /\ Loads(t, [at |-> "count", by |-> v, of |-> e, sent |-> seen[v]])
    /\ unsteady' = IF \E u \in Tabs : tab[u] # VieFree /\ tab[u].by = v
                   THEN unsteady \union {v} ELSE unsteady
    /\ UNCHANGED <<views, seen, draft, counted, overwritten>>

AlreadyCounted(e, sent) == Contains(sent, e)

\* Mutant: the counter goes up before the cookie is looked at.
Mutant_SkipCount(t) ==
    /\ tab[t].at = "count"
    /\ AlreadyCounted(tab[t].of, tab[t].sent)
    /\ views[tab[t].of] < MaxViews
    /\ views' = [views EXCEPT ![tab[t].of] = @ + 1]
    /\ Loads(t, VieFree)
    /\ UNCHANGED <<seen, draft, counted, unsteady, overwritten>>

SkipCount(t) ==
    /\ tab[t].at = "count"
    /\ AlreadyCounted(tab[t].of, tab[t].sent)
    /\ Loads(t, VieFree)
    /\ UNCHANGED <<views, seen, draft, counted, unsteady, overwritten>>

\* IncrementViews
Count(t) ==
    LET e == tab[t].of  v == tab[t].by IN
    /\ tab[t].at = "count"
    /\ ~AlreadyCounted(e, tab[t].sent)
    /\ views[e] < MaxViews
    /\ Counts(e) < MaxViews
    /\ views' = [views EXCEPT ![e] = @ + 1]
    /\ counted' = [counted EXCEPT ![e] = @ \union {<<v, Counts(e) + 1>>}]
    /\ overwritten' = IF draft[e] = NoSave THEN overwritten ELSE overwritten \union {e}
    /\ Loads(t, [tab[t] EXCEPT !.at = "answer"])
    /\ UNCHANGED <<seen, draft, unsteady>>

\* Mutant: the cookie is cut one id too early.
Mutant_Pushed(sent, e) ==
    LET all == Append(sent, e) IN
    IF Len(all) >= SeenMax THEN Tail(all) ELSE all

\* The newest SeenMax ids.
Pushed(sent, e) ==
    LET all == Append(sent, e) IN
    IF Len(all) > SeenMax THEN Tail(all) ELSE all

\* writeSeen
Answer(t) ==
    /\ tab[t].at = "answer"
    /\ seen' = [seen EXCEPT ![tab[t].by] = Pushed(tab[t].sent, tab[t].of)]
    /\ Loads(t, VieFree)
    /\ UNCHANGED <<views, draft, counted, unsteady, overwritten>>

\* The answer does not arrive.
LoseAnswer(t) ==
    /\ tab[t].at = "answer"
    /\ unsteady' = unsteady \union {tab[t].by}
    /\ Loads(t, VieFree)
    /\ UNCHANGED <<views, seen, draft, counted, overwritten>>

\* The cookie expires, is cleared, or does not check out any more.
LoseCookie(v) ==
    /\ seen[v] # <<>>
    /\ seen' = [seen EXCEPT ![v] = <<>>]
    /\ unsteady' = unsteady \union {v}
    /\ UNCHANGED <<views, tab, draft, counted, overwritten>>

\* A save reads the row, and writes its copy of every column.
OpenSave(e) ==
    /\ draft[e] = NoSave
    /\ draft' = [draft EXCEPT ![e] = views[e]]
    /\ UNCHANGED <<views, seen, tab, counted, unsteady, overwritten>>

EndSave(e) ==
    /\ draft[e] # NoSave
    /\ views' = [views EXCEPT ![e] = draft[e]]
    /\ draft' = [draft EXCEPT ![e] = NoSave]
    /\ UNCHANGED <<seen, tab, counted, unsteady, overwritten>>

VieNext ==
    \/ \E t \in Tabs :
          \/ \E v \in Visitors, e \in Articles : OpenEntry(t, v, e)
          \/ SkipCount(t) \/ Count(t) \/ Answer(t) \/ LoseAnswer(t)
    \/ \E v \in Visitors : LoseCookie(v)
    \/ \E e \in Articles : OpenSave(e) \/ EndSave(e)

VieSpec == VieInit /\ [][VieNext]_vieVars

-----------------------------------------------------------------------------
\* A visitor who opens one page at a time, keeps the cookie, and has read no
\* more entries than it holds is counted once on each of them (countView,
\* "once per visitor"): only a cookie that is full, lost or sent twice at once
\* counts a view again.
CountedOnce ==
    \A v \in Visitors \ unsteady :
        Cardinality(ReadBy(v)) <= SeenMax
        => \A e \in Articles : \A x, y \in counted[e] : x[1] = v /\ y[1] = v => x = y

\* The counter is the number of views that were counted, unless one was counted
\* while a save of the entry was under way: the save then writes the older
\* number back (IncrementViews, UpdateEntry).
ViewsAddUp == \A e \in Articles \ overwritten : views[e] = Counts(e)
=============================================================================
