------------------------------ MODULE Release ------------------------------
(***************************************************************************)
(* The life of a blog entry and what its going live does to the world:     *)
(* the editor's save and delete handlers, the same saves over XML-RPC, the *)
(* mail to the verified subscribers, the pings, the one-minute sweep that  *)
(* mails scheduled entries, and the flush of the page cache.               *)
(*                                                                         *)
(* Every HTTP request runs in a goroutine of its own and the sweep in one  *)
(* more.  They share nothing but the database: a handler reads a row,      *)
(* works on that copy, and writes every column of the copy back.  Each     *)
(* statement against the database, and each message sent, is one action,   *)
(* so the model interleaves handlers wherever the program can.             *)
(*                                                                         *)
(* Abstracted: titles, bodies, aliases and the validation that refuses a   *)
(* save (Refuse stands for every refusal), who may publish (an author      *)
(* without the role makes one of the choices a publisher has), the         *)
(* recipients' order, and whether the SMTP server took a message: a send   *)
(* that fails is logged and the loop goes on, so a message is counted when *)
(* it is attempted.                                                        *)
(***************************************************************************)
EXTENDS Naturals, FiniteSets

CONSTANTS
    Entries,        \* ids an entry may get; an id is a fresh random value
    Requests,       \* HTTP requests that may be running at once
    Sweeper,        \* the goroutine started by releaser.Run
    Subscribers,    \* the verified subscribers
    Kinds,          \* the ways in: a subset of {"admin", "xmlrpc"}
    NoEntry,        \* what a worker with nothing to do works on
    MaxTime,        \* bound: the clock stops here
    MaxSaves,       \* bound: requests begun in one behaviour
    MaxFaults       \* bound: database errors and crashes in one behaviour

ASSUME ReleaseAssumption ==
    /\ Sweeper \notin Requests
    /\ NoEntry \notin Entries
    /\ Kinds \subseteq {"admin", "xmlrpc"}
    /\ MaxTime \in Nat
    /\ MaxSaves \in Nat
    /\ MaxFaults \in Nat

VARIABLES
    life,           \* whether an id's row does not exist yet, exists, or is gone
    row,            \* the row of `entries` behind an id, as last written
    job,            \* what each worker is doing, and its copy of the row
    due,            \* the rest of the sweep's snapshot of the rows to mail
    clock,          \* now, in the unit `posted` is compared in
    cached,         \* whether the cache holds the home page
    home,           \* the entries on the cached home page, when it does
    tries,          \* messages attempted, for each entry and subscriber
    pinged,         \* entries some ping target was told of
    published,      \* <<id, posted>> of every version stored with released set
    overlapped,     \* ids two workers held at once at some time
    saves,          \* requests begun
    faults          \* database errors and crashes so far

page == <<cached, home>>
vars == <<life, row, job, due, clock, page, tries, pinged, published,
          overlapped, saves, faults>>

Workers == Requests \union {Sweeper}
Time == 0 .. MaxTime
Row == [released : BOOLEAN, posted : Time, sendemail : BOOLEAN, mailed : BOOLEAN]
Draft == [released |-> FALSE, posted |-> 0, sendemail |-> FALSE, mailed |-> FALSE]

Phases == {"read", "attach", "hook", "mail", "ping", "flush", "delete"}
BusyJob == [pc : Phases, ent : Entries, copy : Row, before : BOOLEAN,
            kind : {"admin", "xmlrpc", "delete", "sweep"}, todo : SUBSET Subscribers]
Idle == [pc |-> "idle", ent |-> NoEntry, copy |-> Draft,
         before |-> FALSE, kind |-> "none", todo |-> {}]
Job == BusyJob \union {Idle}

TypeOK ==
    /\ life \in [Entries -> {"unborn", "stored", "deleted"}]
    /\ row \in [Entries -> Row]
    /\ job \in [Workers -> Job]
    /\ due \subseteq [id : Entries, row : Row]
    /\ clock \in Time
    /\ cached \in BOOLEAN
    /\ home \subseteq Entries
    /\ tries \in [Entries -> [Subscribers -> Nat]]
    /\ pinged \subseteq Entries
    /\ published \subseteq Entries \X Time
    /\ overlapped \subseteq Entries
    /\ saves \in 0 .. MaxSaves
    /\ faults \in 0 .. MaxFaults

Init ==
    /\ life = [e \in Entries |-> "unborn"]
    /\ row = [e \in Entries |-> Draft]
    /\ job = [w \in Workers |-> Idle]
    /\ due = {}
    /\ clock = 0
    /\ cached = FALSE
    /\ home = {}
    /\ tries = [e \in Entries |-> [s \in Subscribers |-> 0]]
    /\ pinged = {}
    /\ published = {}
    /\ overlapped = {}
    /\ saves = 0
    /\ faults = 0

-----------------------------------------------------------------------------
(* Operators the actions share. *)

\* store.Entry.Live: what the public pages show.
IsLive(v) == v.released /\ v.posted <= clock

\* Mutant: the query also picks up entries whose date is yet to come.
Mutant_IsDue(v) == v.released /\ v.sendemail /\ ~v.mailed

\* The WHERE clause of the sweep's query.
IsDue(v) == IsLive(v) /\ v.sendemail /\ ~v.mailed

Stored(e) == life[e] = "stored"

\* The workers that hold a copy of entry e, or have it in their snapshot.
Holding(e) ==
    {w \in Workers : job[w].ent = e}
        \union (IF \E d \in due : d.id = e THEN {Sweeper} ELSE {})

\* A version becomes the row of e; remember it if it is released.
Store(e, v) ==
    /\ row' = [row EXCEPT ![e] = v]
    /\ published' = IF v.released THEN published \union {<<e, v.posted>>} ELSE published

\* Cache.Flush: every cached page is dropped.
DropCache == cached' = FALSE /\ home' = {}

Fault == faults < MaxFaults /\ faults' = faults + 1
NoFault == UNCHANGED faults

BeginRequest(r, j) ==
    /\ job[r] = Idle
    /\ saves < MaxSaves
    /\ saves' = saves + 1
    /\ job' = [job EXCEPT ![r] = j]

\* Entry e is now in worker w's hands: note whether anyone else holds it.
Take(e, w) ==
    overlapped' = IF Holding(e) \ {w} # {} THEN overlapped \union {e} ELSE overlapped

Goto(w, pc) == job' = [job EXCEPT ![w].pc = pc]

\* Where worker w goes on once the copy has been used.
Onward(w, pc) == [job[w] EXCEPT !.pc = pc, !.copy = Draft, !.todo = {}]

\* The end of OnEntrySaved: the editor flushes after it, XML-RPC has flushed.
AfterHook(w) == IF job[w].kind = "admin" THEN [Onward(w, "flush") EXCEPT !.before = FALSE] ELSE Idle

-----------------------------------------------------------------------------
(* The save and delete handlers. *)

\* The rows CreateEntry can insert: XML-RPC never asks for the mail.
NewVersions(k) == {v \in Row : ~v.mailed /\ (k = "xmlrpc" => ~v.sendemail)}

\* Mutant: a save builds the row from the form alone and forgets the mark.
Mutant_Edits(v, k) ==
    {n \in Row : /\ ~n.mailed
                 /\ k = "xmlrpc" => n.sendemail = v.sendemail
                 /\ ~v.released /\ n.released => n.posted >= clock}

\* The rows UpdateEntry can write over a copy: XML-RPC keeps the copy's
\* sendemail, and a draft being released is posted no earlier than now.
Edits(v, k) ==
    {n \in Row : /\ n.mailed = v.mailed
                 /\ k = "xmlrpc" => n.sendemail = v.sendemail
                 /\ ~v.released /\ n.released => n.posted >= clock}

\* POST /admin/entries/new and newPost, up to the INSERT.
Create(r, e, k) ==
    /\ life[e] = "unborn"
    /\ \E v \in NewVersions(k) :
          /\ BeginRequest(r, [Idle EXCEPT !.pc = "attach", !.ent = e, !.copy = v,
                                          !.before = FALSE, !.kind = k])
          /\ Store(e, v)
    /\ life' = [life EXCEPT ![e] = "stored"]
    /\ NoFault
    /\ UNCHANGED <<due, clock, page, tries, pinged, overlapped>>

\* The read an edit begins with.
OpenEdit(r, e, k) ==
    /\ Stored(e)
    /\ BeginRequest(r, [Idle EXCEPT !.pc = "read", !.ent = e, !.copy = row[e], !.kind = k])
    /\ Take(e, r)
    /\ NoFault
    /\ UNCHANGED <<life, row, due, clock, page, tries, pinged, published>>

\* Mutant: a refused request leaves its copy behind.
Mutant_Refuse(r) ==
    /\ job[r].pc \in {"read", "delete"}
    /\ Goto(r, "idle")
    /\ NoFault
    /\ UNCHANGED <<life, row, due, clock, page, tries, pinged, published, overlapped, saves>>

\* The request ends with nothing written: a refused field, an alias in use,
\* a preview, a row that is gone, a failed statement.
Refuse(r) ==
    /\ job[r].pc \in {"read", "delete"}
    /\ job' = [job EXCEPT ![r] = Idle]
    /\ NoFault
    /\ UNCHANGED <<life, row, due, clock, page, tries, pinged, published, overlapped, saves>>

\* The editor notes the stored flag before it overwrites the copy.  savePost
\* reads it from the copy after overwriting it: e and existing are one pointer.
ReleasedBefore(r, v) == IF job[r].kind = "admin" THEN job[r].copy.released ELSE v.released

\* UpdateEntry: every column is written from the copy, `mailed` included.
Write(r) ==
    /\ job[r].pc = "read"
    /\ Stored(job[r].ent)
    /\ \E v \in Edits(job[r].copy, job[r].kind) :
          /\ Store(job[r].ent, v)
          /\ job' = [job EXCEPT ![r].pc = "attach", ![r].copy = v,
                                ![r].before = ReleasedBefore(r, v)]
    /\ NoFault
    /\ UNCHANGED <<life, due, clock, page, tries, pinged, overlapped, saves>>

\* SetEntryCategories and SetRelatedEntries.
Attach(r) ==
    /\ job[r].pc = "attach"
    /\ Goto(r, IF job[r].kind = "admin" THEN "hook" ELSE "flush")
    /\ NoFault
    /\ UNCHANGED <<life, row, due, clock, page, tries, pinged, published, overlapped, saves>>

\* ... and when one of them fails: the handler answers 500 and returns, with
\* the row written, no release hook and no flush.
AttachFail(r) ==
    /\ job[r].pc = "attach"
    /\ job' = [job EXCEPT ![r] = Idle]
    /\ Fault
    /\ UNCHANGED <<life, row, due, clock, page, tries, pinged, published, overlapped, saves>>

\* The read a delete begins with, and DeleteEntries.
OpenDelete(r, e) ==
    /\ Stored(e)
    /\ BeginRequest(r, [Idle EXCEPT !.pc = "delete", !.ent = e, !.kind = "delete"])
    /\ Take(e, r)
    /\ NoFault
    /\ UNCHANGED <<life, row, due, clock, page, tries, pinged, published>>

\* Mutant: entriesDelete returns without its flush.
Mutant_Delete(r) ==
    /\ job[r].pc = "delete"
    /\ life' = [life EXCEPT ![job[r].ent] = "deleted"]
    /\ job' = [job EXCEPT ![r] = Idle]
    /\ NoFault
    /\ UNCHANGED <<row, due, clock, page, tries, pinged, published, overlapped, saves>>

Delete(r) ==
    /\ job[r].pc = "delete"
    /\ life' = [life EXCEPT ![job[r].ent] = "deleted"]
    /\ Goto(r, "flush")
    /\ NoFault
    /\ UNCHANGED <<row, due, clock, page, tries, pinged, published, overlapped, saves>>

\* The flush that ends a handler; savePost runs the release hook after it.
Flush(r) ==
    /\ job[r].pc = "flush"
    /\ DropCache
    /\ IF job[r].kind = "xmlrpc" THEN Goto(r, "hook") ELSE job' = [job EXCEPT ![r] = Idle]
    /\ NoFault
    /\ UNCHANGED <<life, row, due, clock, tries, pinged, published, overlapped, saves>>

-----------------------------------------------------------------------------
(* The release hook: OnEntrySaved, MailNow and Ping. *)

\* Mutant: the mark on the copy is not looked at.
Mutant_Hook(r) ==
    /\ job[r].pc = "hook"
    /\ LET v == job[r].copy IN
       job' = [job EXCEPT ![r] =
          IF ~IsLive(v) THEN AfterHook(r)
          ELSE IF v.sendemail
               THEN [Onward(r, "mail") EXCEPT !.todo = Subscribers]
               ELSE Onward(r, "ping")]
    /\ NoFault
    /\ UNCHANGED <<life, row, due, clock, page, tries, pinged, published, overlapped, saves>>

\* OnEntrySaved decides on the copy the handler holds, not on the row.
Hook(r) ==
    /\ job[r].pc = "hook"
    /\ LET v == job[r].copy IN
       job' = [job EXCEPT ![r] =
          IF ~IsLive(v) THEN AfterHook(r)
          ELSE IF v.sendemail /\ ~v.mailed
               THEN [Onward(r, "mail") EXCEPT !.todo = Subscribers]
               ELSE Onward(r, "ping")]
    /\ NoFault
    /\ UNCHANGED <<life, row, due, clock, page, tries, pinged, published, overlapped, saves>>

\* The list of subscribers cannot be read: nothing is mailed, the ping still runs.
HookFail(r) ==
    /\ job[r].pc = "hook"
    /\ IsDue(job[r].copy)
    /\ job' = [job EXCEPT ![r] = Onward(r, "ping")]
    /\ Fault
    /\ UNCHANGED <<life, row, due, clock, page, tries, pinged, published, overlapped, saves>>

\* One turn of MailNow's loop.
Send(w, s) ==
    /\ job[w].pc = "mail"
    /\ s \in job[w].todo
    /\ tries' = [tries EXCEPT ![job[w].ent][s] = @ + 1]
    /\ job' = [job EXCEPT ![w].todo = @ \ {s}]
    /\ NoFault
    /\ UNCHANGED <<life, row, due, clock, page, pinged, published, overlapped, saves>>

\* Mutant: the mark is written before the messages are out.
Mutant_Mark(w) ==
    /\ job[w].pc = "mail"
    /\ Stored(job[w].ent)
    /\ row' = [row EXCEPT ![job[w].ent].mailed = TRUE]
    /\ job' = [job EXCEPT ![w] = Onward(w, "ping")]
    /\ NoFault
    /\ UNCHANGED <<life, due, clock, page, tries, pinged, published, overlapped, saves>>

\* MarkMailed, once the loop is over.
Mark(w) ==
    /\ job[w].pc = "mail"
    /\ job[w].todo = {}
    /\ Stored(job[w].ent)
    /\ row' = [row EXCEPT ![job[w].ent].mailed = TRUE]
    /\ job' = [job EXCEPT ![w] = Onward(w, "ping")]
    /\ NoFault
    /\ UNCHANGED <<life, due, clock, page, tries, pinged, published, overlapped, saves>>

\* MailNow returns an error: a save pings all the same, the sweep goes on to
\* its next entry without a ping.
AfterMailError(w) == IF w = Sweeper THEN Idle ELSE Onward(w, "ping")

\* MarkMailed finds no row.
MarkGone(w) ==
    /\ job[w].pc = "mail"
    /\ job[w].todo = {}
    /\ ~Stored(job[w].ent)
    /\ job' = [job EXCEPT ![w] = AfterMailError(w)]
    /\ NoFault
    /\ UNCHANGED <<life, row, due, clock, page, tries, pinged, published, overlapped, saves>>

\* MarkMailed fails: the messages are out and the row does not say so.
MarkFail(w) ==
    /\ job[w].pc = "mail"
    /\ job[w].todo = {}
    /\ job' = [job EXCEPT ![w] = AfterMailError(w)]
    /\ Fault
    /\ UNCHANGED <<life, row, due, clock, page, tries, pinged, published, overlapped, saves>>

\* A save pings on a first release only, the sweep always.
Ping(w) ==
    /\ job[w].pc = "ping"
    /\ pinged' = IF job[w].before THEN pinged ELSE pinged \union {job[w].ent}
    /\ job' = [job EXCEPT ![w] = AfterHook(w)]
    /\ NoFault
    /\ UNCHANGED <<life, row, due, clock, page, tries, published, overlapped, saves>>

-----------------------------------------------------------------------------
(* The sweep, crashes and the clock. *)

\* Mutant: the sweep asks for what became due since it last ran.
Mutant_SweepStart ==
    LET found == {e \in Entries : Stored(e) /\ IsDue(row[e]) /\ row[e].posted = clock} IN
    /\ job[Sweeper] = Idle
    /\ due = {}
    /\ found # {}
    /\ due' = {[id |-> e, row |-> row[e]] : e \in found}
    /\ overlapped' = overlapped \union {e \in found : Holding(e) # {}}
    /\ NoFault
    /\ UNCHANGED <<life, row, job, clock, page, tries, pinged, published, saves>>

\* UnmailedReleased: the rows to mail, read once for the whole sweep.
SweepStart ==
    LET found == {e \in Entries : Stored(e) /\ IsDue(row[e])} IN
    /\ job[Sweeper] = Idle
    /\ due = {}
    /\ found # {}
    /\ due' = {[id |-> e, row |-> row[e]] : e \in found}
    /\ overlapped' = overlapped \union {e \in found : Holding(e) # {}}
    /\ NoFault
    /\ UNCHANGED <<life, row, job, clock, page, tries, pinged, published, saves>>

\* The rows come ordered by `posted`.
IsFirst(d) == d \in due /\ \A o \in due : d.row.posted <= o.row.posted

\* MailNow for the next row of the snapshot.
SweepNext ==
    /\ job[Sweeper] = Idle
    /\ \E d \in due :
          /\ IsFirst(d)
          /\ due' = due \ {d}
          /\ job' = [job EXCEPT ![Sweeper] =
                        [Idle EXCEPT !.pc = "mail", !.ent = d.id, !.kind = "sweep",
                                     !.todo = Subscribers]]
    /\ NoFault
    /\ UNCHANGED <<life, row, clock, page, tries, pinged, published, overlapped, saves>>

\* ... and when the subscribers cannot be read, on to the row after it.
SweepSkip ==
    /\ job[Sweeper] = Idle
    /\ \E d \in due : IsFirst(d) /\ due' = due \ {d}
    /\ Fault
    /\ UNCHANGED <<life, row, job, clock, page, tries, pinged, published, overlapped, saves>>

\* The process dies and is started again: only the database remains, and the
\* cache is empty.
Crash ==
    /\ Fault
    /\ job' = [w \in Workers |-> Idle]
    /\ due' = {}
    /\ DropCache
    /\ UNCHANGED <<life, row, clock, tries, pinged, published, overlapped, saves>>

\* A visitor asks for the home page and none is cached: the entries that are
\* live now are read and kept.  Module Cache shows that the fill can be taken as
\* one step.
Visit ==
    /\ ~cached
    /\ cached' = TRUE
    /\ home' = {e \in Entries : Stored(e) /\ IsLive(row[e])}
    /\ NoFault
    /\ UNCHANGED <<life, row, job, due, clock, tries, pinged, published, overlapped, saves>>

Tick ==
    /\ clock < MaxTime
    /\ clock' = clock + 1
    /\ NoFault
    /\ UNCHANGED <<life, row, job, due, page, tries, pinged, published, overlapped, saves>>

-----------------------------------------------------------------------------
RequestStep(r) ==
    \/ \E e \in Entries, k \in Kinds : Create(r, e, k) \/ OpenEdit(r, e, k)
    \/ \E e \in Entries : OpenDelete(r, e)
    \/ Refuse(r) \/ Write(r) \/ Attach(r) \/ AttachFail(r) \/ Delete(r) \/ Flush(r)
    \/ Hook(r) \/ HookFail(r)

MailStep(w) ==
    \/ \E s \in Subscribers : Send(w, s)
    \/ Mark(w) \/ MarkGone(w) \/ MarkFail(w) \/ Ping(w)

Next ==
    \/ \E r \in Requests : RequestStep(r)
    \/ \E w \in Workers : MailStep(w)
    \/ SweepStart \/ SweepNext \/ SweepSkip
    \/ Visit
    \/ Crash
    \/ Tick

\* The sweeping goroutine is woken every minute, each message and each
\* statement is bounded by a time-out, and faults are finite: it goes on.
\* Nothing is assumed of the requests: a client may stop at any point.
SweepProgress ==
    \/ SweepStart
    \/ SweepNext
    \/ \E s \in Subscribers : Send(Sweeper, s)
    \/ Mark(Sweeper) \/ MarkGone(Sweeper) \/ Ping(Sweeper)

Spec == Init /\ [][Next]_vars /\ WF_vars(SweepProgress)
-----------------------------------------------------------------------------
(* Properties that hold. *)

\* An entry carries the `mailed` mark only after a whole round of messages to
\* the subscribers was attempted (MailNow marks last), whoever wrote the mark
\* into the row: MarkMailed, or a save writing back a copy that had it.
MarkedMeansTried ==
    \A e \in Entries : row[e].mailed => \A s \in Subscribers : tries[e][s] > 0

\* Nobody is told of an entry, by mail or by ping, unless a version of it was
\* stored that is released and whose date has come: a draft or a scheduled
\* entry stays quiet however the saves, the sweep and the clock interleave.
OnlyPublishedIsAnnounced ==
    \A e \in Entries :
        e \in pinged \/ (\E s \in Subscribers : tries[e][s] > 0)
            => \E t \in Time : <<e, t>> \in published /\ t <= clock

\* A subscriber is sent an entry at most once, as long as no two workers ever
\* held the entry at the same time and no statement failed: the check of the
\* copy's mark in MailNow is enough for saves and sweeps that take turns.
OncePerSubscriber ==
    \A e \in Entries, s \in Subscribers :
        tries[e][s] > 1 => e \in overlapped \/ faults > 0

\* A row that is marked loses its mark only to a save that held a copy while
\* somebody else had the entry too (UpdateEntry writes `mailed` back): crashes
\* and failed statements alone never undo a mark.
MarkLostOnlyByOverlap ==
    [][\A e \in Entries : row[e].mailed /\ ~row'[e].mailed => e \in overlapped]_vars

\* Requests that wrote the row of e and have their flush still before them:
\* savePost flushes before the release hook, the editor after it.
Unflushed(e) ==
    {r \in Requests :
        /\ job[r].ent = e
        /\ \/ job[r].pc \in {"attach", "flush"}
           \/ job[r].pc \in {"hook", "mail", "ping"} /\ job[r].kind = "admin"}

\* Without a fault, the cached home page shows an entry that was deleted,
\* withdrawn or postponed only while a request that wrote it is still on its way
\* to the flush: a page filled in the middle of a save does not outlive it.
CacheNeverShowsWithdrawn ==
    \A e \in home :
        Unflushed(e) = {} /\ faults = 0 => Stored(e) /\ IsLive(row[e])

\* What a scheduled entry relies on: an entry that is released, asked to be
\* mailed, due and unmarked does not stay so.  The sweep finds it whatever
\* became of the request that saved it, across crashes and failed sweeps.
DueIsMailed ==
    \A e \in Entries : Stored(e) /\ IsDue(row[e]) ~> ~(Stored(e) /\ IsDue(row[e]))

-----------------------------------------------------------------------------
(* What the documentation says and the program does not do. *)

Quiet(e) == Holding(e) = {}

\* "the mark is what makes the mail happen once, whether the sweep or a save
\* gets there first" (release.go, MailNow).
MailedOnce ==
    \A e \in Entries, s \in Subscribers : tries[e][s] <= 1

\* "Pings fire once, on an entry's first release; a scheduled entry pings when
\* the sweep mails it" (NOTES.md): so an entry that was mailed was pinged.
MailedIsPinged ==
    \A e \in Entries : Quiet(e) /\ row[e].mailed => e \in pinged

\* "so a first publish pings" (methods.go, savePost): an entry that is live is
\* one some request published.
PublishedIsPinged ==
    \A e \in Entries : Quiet(e) /\ Stored(e) /\ IsLive(row[e]) => e \in pinged

\* "Any write flushes" the cache (NOTES.md): an entry the subscribers have been
\* mailed a link to is not missing from the cached home page.
MailedIsOnHomePage ==
    \A e \in Entries : Quiet(e) /\ Stored(e) /\ IsLive(row[e]) /\ row[e].mailed /\ cached => e \in home
=============================================================================
