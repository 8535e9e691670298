------------------------------ MODULE Comments ------------------------------
(***************************************************************************)
(* The comment thread of one entry: posting, holding and approving a       *)
(* comment, telling the thread's subscribers and the blog's owner, the     *)
(* links those mails carry, and the sidebar that shows recent comments.    *)
(*                                                                         *)
(* Threads of different entries share nothing but the sidebar and the      *)
(* `moderate` setting.  Every request runs in a goroutine of its own, each *)
(* statement and each message is one step, and a request may stop short    *)
(* at any of them: its client is gone, or a statement failed (Abandon).    *)
(*                                                                         *)
(* Abstracted: names and texts, the antispam checks and the validation (a  *)
(* refused request never begins), and which of an address's rows its       *)
(* unsubscribe link names.  A message counts when it is attempted.  The    *)
(* `moderate` setting is read in the step of the INSERT or of the          *)
(* subscribers' SELECT it goes with.  The sidebar is filled in one step,   *)
(* as module Cache allows.                                                 *)
(***************************************************************************)
EXTENDS Naturals, FiniteSets

CONSTANTS
    Comments,       \* ids a comment may get; an id is a fresh random value
    Addresses,      \* mail addresses, the owner's among them
    Owner,          \* the `owneremail` setting
    Workers,        \* requests that may be running at once
    NoComment,      \* what an idle worker works on
    MaxRequests     \* bound: requests begun in one behaviour

ASSUME CommentsAssumption ==
    /\ Owner \in Addresses
    /\ NoComment \notin Comments
    /\ MaxRequests \in Nat

VARIABLES
    entry,          \* the entry: shown to visitors, hidden from them, or deleted
    moderate,       \* the `moderate` setting
    life,           \* whether a comment's row does not exist yet, exists, or is gone
    row,            \* the row of `comments` behind an id, as last written
    job,            \* what each worker is doing
    cached,         \* whether the cache holds the sidebar
    shown,          \* the comments on the cached sidebar, when it does
    told,           \* messages attempted, for each comment and address
    links,          \* <<address, comment>>: unsubscribe links mailed out
    requests,       \* requests begun
    approved,       \* history: comments that were stored as moderated
    again,          \* history: comments approved when they were already
    edited,         \* history: comments the editor saved
    off,            \* history: addresses that turned their mail off and not on again
    killed,         \* history: comments deleted through the mailed link
    missed          \* history: a save of the entry failed half way, and no flush since

sidebar == <<cached, shown>>
mails == <<told, links>>
history == <<approved, again, edited, off, killed, missed>>
vars == <<entry, moderate, life, row, job, sidebar, mails, requests, history>>

Row == [email : Addresses, subscribe : BOOLEAN, moderated : BOOLEAN, only : BOOLEAN]
Blank == [email |-> Owner, subscribe |-> FALSE, moderated |-> FALSE, only |-> FALSE]
Links == [Addresses -> Comments \union {NoComment}]

Phases == {"idle", "insert", "clear", "notify", "mail", "approve", "lookup",
           "save", "unsub", "attach", "flush"}
Kinds == {"none", "post", "author", "sub", "approve", "edit", "unsub"}
Job == [pc : Phases, kind : Kinds, id : Comments \union {NoComment}, copy : Row,
        todo : SUBSET Addresses, link : Links]
NoLinks == [a \in Addresses |-> NoComment]
Idle == [pc |-> "idle", kind |-> "none", id |-> NoComment, copy |-> Blank,
         todo |-> {}, link |-> NoLinks]

TypeOK ==
    /\ entry \in {"live", "hidden", "gone"}
    /\ moderate \in BOOLEAN
    /\ life \in [Comments -> {"unborn", "stored", "deleted"}]
    /\ row \in [Comments -> Row]
    /\ job \in [Workers -> Job]
    /\ \A w \in Workers : job[w].pc \notin {"idle", "attach", "flush"} => job[w].id \in Comments
    /\ cached \in BOOLEAN
    /\ shown \subseteq Comments
    /\ told \in [Comments -> [Addresses -> Nat]]
    /\ links \subseteq Addresses \X Comments
    /\ requests \in 0 .. MaxRequests
    /\ approved \subseteq Comments /\ again \subseteq Comments
    /\ edited \subseteq Comments /\ killed \subseteq Comments
    /\ off \subseteq Addresses
    /\ missed \in BOOLEAN

Init ==
    /\ entry = "live"
    /\ moderate \in BOOLEAN
    /\ life = [c \in Comments |-> "unborn"]
    /\ row = [c \in Comments |-> Blank]
    /\ job = [w \in Workers |-> Idle]
    /\ cached = FALSE
    /\ shown = {}
    /\ told = [c \in Comments |-> [a \in Addresses |-> 0]]
    /\ links = {}
    /\ requests = 0
    /\ approved = {} /\ again = {} /\ edited = {} /\ off = {} /\ killed = {}
    /\ missed = FALSE

-----------------------------------------------------------------------------
(* Operators the actions share. *)

Stored(c) == life[c] = "stored"

\* The rows of this thread that ask for mail to address a.
Subscribed(a) == {c \in Comments : Stored(c) /\ row[c].subscribe /\ row[c].email = a}

\* ThreadSubscribers.
Thread == {a \in Addresses : Subscribed(a) # {}}

\* Mutant: the pod's query forgets that comments may be held.
Mutant_Visible(c) == Stored(c) /\ ~row[c].only /\ entry = "live"

\* A comment that may be shown where its entry is.
Public(c) == Stored(c) /\ row[c].moderated /\ ~row[c].only

\* What RecentComments selects.
Visible(c) == Public(c) /\ entry = "live"

Begin(w, j) ==
    /\ job[w] = Idle
    /\ requests < MaxRequests
    /\ requests' = requests + 1
    /\ job' = [job EXCEPT ![w] = j]

Goto(w, pc) == job' = [job EXCEPT ![w].pc = pc]
Done(w) == job' = [job EXCEPT ![w] = Idle]

\* A version becomes the row of c.
Store(c, v) ==
    /\ row' = [row EXCEPT ![c] = v]
    /\ approved' = IF v.moderated THEN approved \union {c} ELSE approved
    /\ off' = IF v.subscribe THEN off \ {v.email} ELSE off

\* ClearSubscriptions.
TurnOff(a) ==
    /\ row' = [c \in Comments |->
                  IF Stored(c) /\ row[c].email = a THEN [row[c] EXCEPT !.subscribe = FALSE] ELSE row[c]]
    /\ off' = off \union {a}

-----------------------------------------------------------------------------
(* Posting: handleAddComment and handleSubscribeComment. *)

\* The entry is read and shows, or its author is looking at it hidden, and it
\* takes comments; the form passes.  The id is the one CreateComment will draw.
Post(w, c, a, s, kind) ==
    /\ life[c] = "unborn"
    /\ \A x \in Workers : job[x].id # c
    /\ entry = "live" \/ (entry = "hidden" /\ kind \in {"author", "sub"})
    /\ kind = "sub" => s
    /\ Begin(w, [Idle EXCEPT !.pc = "insert", !.kind = kind, !.id = c,
                             !.copy = [Blank EXCEPT !.email = a, !.subscribe = s]])
    /\ UNCHANGED <<entry, moderate, life, row, sidebar, mails, history>>

\* CreateComment: held when the blog moderates, unless it is its author's or
\* only a subscription.  Nothing says that the entry is still there.
Insert(w) ==
    LET v == [job[w].copy EXCEPT !.moderated = ~moderate \/ job[w].kind \in {"author", "sub"},
                                 !.only = job[w].kind = "sub"]
        next == IF v.subscribe THEN "notify" ELSE "clear" IN
    /\ job[w].pc = "insert"
    /\ life' = [life EXCEPT ![job[w].id] = "stored"]
    /\ Store(job[w].id, v)
    /\ IF v.only THEN Done(w) ELSE job' = [job EXCEPT ![w].pc = next, ![w].copy = v]
    /\ UNCHANGED <<entry, moderate, sidebar, mails, requests, again, edited, killed, missed>>

\* Mutant: only the new row is cleared.
Mutant_Clear(w) ==
    /\ job[w].pc = "clear"
    /\ row' = [row EXCEPT ![job[w].id].subscribe = FALSE]
    /\ off' = off \union {job[w].copy.email}
    /\ Goto(w, "notify")
    /\ UNCHANGED <<entry, moderate, life, sidebar, mails, requests, approved, again, edited, killed, missed>>

\* Posting with the box unticked turns the address's mail off.
Clear(w) ==
    /\ job[w].pc = "clear"
    /\ TurnOff(job[w].copy.email)
    /\ Goto(w, "notify")
    /\ UNCHANGED <<entry, moderate, life, sidebar, mails, requests, approved, again, edited, killed, missed>>

\* ... and when the statement fails, that is logged and the mail goes out.
ClearFail(w) ==
    /\ job[w].pc = "clear"
    /\ Goto(w, "notify")
    /\ UNCHANGED <<entry, moderate, life, row, sidebar, mails, requests, history>>

-----------------------------------------------------------------------------
(* Notifier.send. *)

\* Mutant: the thread hears of a comment that is held.
Mutant_Recipients(w) ==
    (IF job[w].kind = "approve" THEN Thread ELSE Thread \union {Owner}) \ {job[w].copy.email}

\* The thread, unless the comment is held, and the owner, unless it was the
\* owner who approved it; but not who wrote it.
Recipients(w) ==
    LET approval == job[w].kind = "approve"
        thread == IF approval \/ job[w].copy.moderated THEN Thread ELSE {}
        owner == IF approval THEN {} ELSE {Owner}
    IN (thread \union owner) \ {job[w].copy.email}

\* Mutant: the mails carry no comment id.
Mutant_Unnamed(link) == link = NoLinks

\* Mutant: one row of the thread is named to everybody.
Mutant_Named(link) ==
    \A a \in Addresses :
        IF Subscribed(a) = {} THEN link[a] = NoComment
        ELSE link[a] \in UNION {Subscribed(b) : b \in Addresses}

\* Each recipient's unsubscribe link names one of the rows that subscribe them.
Named(link) ==
    \A a \in Addresses :
        IF Subscribed(a) = {} THEN link[a] = NoComment ELSE link[a] \in Subscribed(a)

\* The recipients are read once, before the first message.
Notify(w) ==
    /\ job[w].pc = "notify"
    /\ IF Recipients(w) = {} THEN Done(w)
       ELSE \E link \in Links :
               /\ Named(link)
               /\ job' = [job EXCEPT ![w].pc = "mail", ![w].todo = Recipients(w), ![w].link = link]
    /\ UNCHANGED <<entry, moderate, life, row, sidebar, mails, requests, history>>

\* One message: the owner's carries the Delete link, anyone else's their
\* unsubscribe link.
Send(w, a) ==
    LET c == job[w].id IN
    /\ job[w].pc = "mail"
    /\ a \in job[w].todo
    /\ told' = [told EXCEPT ![c][a] = @ + 1]
    /\ links' = IF a = Owner THEN links ELSE links \union {<<a, job[w].link[a]>>}
    /\ IF job[w].todo = {a} THEN Done(w) ELSE job' = [job EXCEPT ![w].todo = @ \ {a}]
    /\ UNCHANGED <<entry, moderate, life, row, sidebar, requests, history>>

-----------------------------------------------------------------------------
(* The links in the mails. *)

\* /?killcomment: whoever holds the owner's mail deletes the comment.
Kill(c) ==
    /\ told[c][Owner] > 0
    /\ Stored(c)
    /\ life' = [life EXCEPT ![c] = "deleted"]
    /\ killed' = killed \union {c}
    /\ UNCHANGED <<entry, moderate, row, job, sidebar, mails, requests, approved, again, edited, off, missed>>

\* ApproveComment's UPDATE.
MarkModerated(c) ==
    /\ Stored(c)
    /\ row' = [row EXCEPT ![c].moderated = TRUE]
    /\ approved' = approved \union {c}
    /\ again' = IF row[c].moderated THEN again \union {c} ELSE again

\* /?approvecomment: the comment shows from now on, and nobody is told.  The id
\* is all it asks for, the one the owner is mailed on a blog that moderates and
\* the poster's own page ends its link with: any comment, at any time.
ApproveByLink(c) ==
    /\ MarkModerated(c)
    /\ UNCHANGED <<entry, moderate, life, job, sidebar, mails, requests, edited, off, killed, missed>>

\* /unsubscribe with a comment and an address: the pair must match.
OpenUnsubscribe(w, a, c) ==
    /\ <<a, c>> \in links
    /\ Stored(c) /\ row[c].email = a
    /\ Begin(w, [Idle EXCEPT !.pc = "unsub", !.kind = "unsub", !.id = c, !.copy = row[c]])
    /\ UNCHANGED <<entry, moderate, life, row, sidebar, mails, history>>

\* ... and all the address's rows are turned off.
Unsubscribe(w) ==
    /\ job[w].pc = "unsub"
    /\ TurnOff(job[w].copy.email)
    /\ Done(w)
    /\ UNCHANGED <<entry, moderate, life, sidebar, mails, requests, approved, again, edited, killed, missed>>

-----------------------------------------------------------------------------
(* The admin's screens. *)

\* Approve, in the queue or in the comment editor, begins with a read.
OpenApprove(w, c) ==
    /\ Stored(c) /\ ~row[c].only
    /\ Begin(w, [Idle EXCEPT !.pc = "approve", !.kind = "approve", !.id = c, !.copy = row[c]])
    /\ UNCHANGED <<entry, moderate, life, row, sidebar, mails, history>>

Approve(w) ==
    /\ job[w].pc = "approve"
    /\ MarkModerated(job[w].id)
    /\ Goto(w, "flush")
    /\ UNCHANGED <<entry, moderate, life, sidebar, mails, requests, edited, off, killed, missed>>

\* approveAndNotify looks the entry up before it tells the thread.
Lookup(w) ==
    /\ job[w].pc = "lookup"
    /\ IF entry = "gone" THEN Done(w) ELSE Goto(w, "notify")
    /\ UNCHANGED <<entry, moderate, life, row, sidebar, mails, requests, history>>

\* Save in the comment editor begins with a read ...
OpenSave(w, c) ==
    /\ Stored(c) /\ ~row[c].only
    /\ Begin(w, [Idle EXCEPT !.pc = "save", !.kind = "edit", !.id = c, !.copy = row[c]])
    /\ UNCHANGED <<entry, moderate, life, row, sidebar, mails, history>>

\* ... and writes what the form, filled some time before, says.
Save(w) ==
    LET c == job[w].id IN
    /\ job[w].pc = "save"
    /\ Stored(c)
    /\ \E v \in Row : v.only = job[w].copy.only /\ Store(c, v)
    /\ edited' = edited \union {c}
    /\ Goto(w, "flush")
    /\ UNCHANGED <<entry, moderate, life, sidebar, mails, requests, again, killed, missed>>

\* Mutant: the marked rows go and the cache stays.
Mutant_DeleteMarked(w, c) ==
    /\ Stored(c)
    /\ requests < MaxRequests /\ requests' = requests + 1
    /\ job[w] = Idle
    /\ life' = [life EXCEPT ![c] = "deleted"]
    /\ UNCHANGED <<entry, moderate, row, job, sidebar, mails, history>>

\* The marked rows of either comment list are deleted.
DeleteMarked(w, c) ==
    /\ Stored(c)
    /\ Begin(w, [Idle EXCEPT !.pc = "flush", !.kind = "edit"])
    /\ life' = [life EXCEPT ![c] = "deleted"]
    /\ UNCHANGED <<entry, moderate, row, sidebar, mails, history>>

\* The entry is withdrawn or shown again by a save of the editor or of an
\* XML-RPC client, or deleted with all its comments in one transaction.
ChangeEntry(w, e) ==
    /\ entry # "gone" /\ e # entry
    /\ Begin(w, [Idle EXCEPT !.pc = IF e = "gone" THEN "flush" ELSE "attach", !.kind = "edit"])
    /\ entry' = e
    /\ life' = IF e = "gone"
               THEN [c \in Comments |-> IF Stored(c) THEN "deleted" ELSE life[c]]
               ELSE life
    /\ UNCHANGED <<moderate, row, sidebar, mails, history>>

\* The save goes on to the entry's categories and related entries, in statements
\* of their own: one that fails ends the request without a flush (Abandon).
Attach(w) ==
    /\ job[w].pc = "attach"
    /\ Goto(w, "flush")
    /\ UNCHANGED <<entry, moderate, life, row, sidebar, mails, requests, history>>

\* The `moderate` setting is saved.
ChangeSetting(w) ==
    /\ Begin(w, [Idle EXCEPT !.pc = "flush", !.kind = "edit"])
    /\ moderate' = ~moderate
    /\ UNCHANGED <<entry, life, row, sidebar, mails, history>>

\* The flush that follows an admin's write.
Flush(w) ==
    /\ job[w].pc = "flush"
    /\ cached' = FALSE /\ shown' = {}
    /\ IF job[w].kind = "approve" THEN Goto(w, "lookup") ELSE Done(w)
    /\ missed' = FALSE
    /\ UNCHANGED <<entry, moderate, life, row, mails, requests, approved, again, edited, off, killed>>

-----------------------------------------------------------------------------
(* Everything else. *)

\* A request stops at a statement or a message.  A flush cannot fail.
Abandon(w) ==
    /\ job[w].pc \notin {"idle", "flush"}
    /\ Done(w)
    /\ missed' = (missed \/ job[w].pc = "attach")
    /\ UNCHANGED <<entry, moderate, life, row, sidebar, mails, requests,
                   approved, again, edited, off, killed>>

\* A visitor asks for a page and no sidebar is cached.
FillSidebar ==
    /\ ~cached
    /\ cached' = TRUE
    /\ shown' = {c \in Comments : Visible(c)}
    /\ UNCHANGED <<entry, moderate, life, row, job, mails, requests, history>>

\* The process dies and is started again.
Crash ==
    /\ job' = [w \in Workers |-> Idle]
    /\ cached' = FALSE /\ shown' = {}
    /\ missed' = FALSE
    /\ UNCHANGED <<entry, moderate, life, row, mails, requests, approved, again, edited, off, killed>>

VisitorStep(w) ==
    \/ \E c \in Comments, a \in Addresses, s \in BOOLEAN, k \in {"post", "author", "sub"} :
          Post(w, c, a, s, k)
    \/ \E a \in Addresses, c \in Comments : OpenUnsubscribe(w, a, c)
    \/ Insert(w) \/ Clear(w) \/ ClearFail(w) \/ Unsubscribe(w)

AdminStep(w) ==
    \/ \E c \in Comments : OpenApprove(w, c) \/ OpenSave(w, c) \/ DeleteMarked(w, c)
    \/ \E e \in {"live", "hidden", "gone"} : ChangeEntry(w, e)
    \/ ChangeSetting(w)
    \/ Approve(w) \/ Lookup(w) \/ Save(w) \/ Attach(w) \/ Flush(w)

MailStep(w) == Notify(w) \/ \E a \in Addresses : Send(w, a)

Next ==
    \/ \E w \in Workers : VisitorStep(w) \/ AdminStep(w) \/ MailStep(w) \/ Abandon(w)
    \/ \E c \in Comments : Kill(c) \/ ApproveByLink(c)
    \/ FillSidebar
    \/ Crash

Spec == Init /\ [][Next]_vars
-----------------------------------------------------------------------------
(* Properties that hold. *)

\* A comment that was never stored as moderated is the owner's business alone:
\* nobody else is mailed it and no sidebar shows it, however approvals, saves,
\* deletions and changes of the setting interleave with its post.
HeldStaysPrivate ==
    \A c \in Comments \ approved :
        c \notin shown /\ \A a \in Addresses \ {Owner} : told[c][a] = 0

\* A subscriber of the thread hears of a comment once, unless it was approved
\* when it already was, or the editor saved it in between.
ThreadToldOnce ==
    \A c \in Comments \ (again \union edited), a \in Addresses \ {Owner} : told[c][a] <= 1

\* An unsubscribe link in somebody's mail names a comment of that very address,
\* unless the editor has changed it since: following it is not refused while the
\* comment is there.
LinksMatch ==
    \A l \in links : l[2] \in edited \/ row[l[2]].email = l[1]

\* After an address turned its mail off, by a link or by posting with the box
\* unticked, no row of the thread asks for mail to it until the address
\* subscribes again or the editor says so.
OffStaysOff == \A a \in off : Subscribed(a) = {}

Flushing == \E w \in Workers : job[w].pc = "flush"

\* A save of the entry is between the entry's row and what is attached to it,
\* or stopped there.
HalfSaved == missed \/ \E w \in Workers : job[w].pc = "attach"

\* The cached sidebar shows a comment that is deleted or held only while the
\* request that made it so is on its way to the flush, or when the comment was
\* deleted through the mailed link, which flushes nothing; and one of a hidden
\* entry, besides, only when the save that hid it is half way or failed there,
\* and then nothing worse than the hidden entry's public comments.
SidebarIsHonest ==
    \A c \in shown :
        \/ Visible(c) \/ Flushing \/ c \in killed
        \/ entry = "hidden" /\ HalfSaved /\ Public(c)

-----------------------------------------------------------------------------
(* What the documentation says and the program does not do. *)

Held(c) == Stored(c) /\ ~row[c].only /\ ~row[c].moderated

\* "Approving tells the thread" (NOTES.md): when a held comment comes to be
\* moderated, some request is on its way to telling the subscribers.
ApprovingTellsThread ==
    [][\A c \in Comments :
          Held(c) /\ row'[c].moderated =>
             \E w \in Workers : job'[w].id = c /\ job'[w].kind = "approve" /\ job'[w].pc # "idle"]_vars
=============================================================================
