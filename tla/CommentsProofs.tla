--------------------------- MODULE CommentsProofs ---------------------------
(***************************************************************************)
(* Theorems about Comments, for any number of comments, addresses and      *)
(* requests.                                                               *)
(***************************************************************************)
EXTENDS Comments, TLAPS

(***************************************************************************)
(* Types.                                                                  *)
(***************************************************************************)

\* An approval always knows its comment, at its flush too.
ApproveIds == \A w \in Workers : job[w].kind = "approve" => job[w].id \in Comments

\* Whoever is still to be mailed an unsubscribe link has one.
TodoLinks ==
    \A w \in Workers : job[w].pc = "mail" =>
        \A a \in job[w].todo \ {Owner} : job[w].link[a] \in Comments

TypeInv == TypeOK /\ ApproveIds /\ TodoLinks

LEMMA InitTypeInv == Init => TypeInv
<1> SUFFICES ASSUME Init PROVE TypeInv
  OBVIOUS
<1>1. Blank \in Row /\ Idle \in Job
  BY CommentsAssumption DEF Blank, Row, Idle, Job, Phases, Kinds, NoLinks, Links
<1>2. Idle.pc = "idle" /\ Idle.kind = "none"
  BY DEF Idle
<1>3. /\ job \in [Workers -> Job]
      /\ \A w \in Workers : job[w].pc \notin {"idle", "attach", "flush"} => job[w].id \in Comments
  BY <1>1, <1>2 DEF Init
<1>4. told \in [Comments -> [Addresses -> Nat]]
  BY DEF Init
<1>5. row \in [Comments -> Row] /\ life \in [Comments -> {"unborn", "stored", "deleted"}]
  BY <1>1 DEF Init
<1>6. /\ entry = "live" /\ moderate \in BOOLEAN /\ cached = FALSE /\ shown = {} /\ links = {}
      /\ requests = 0 /\ approved = {} /\ again = {} /\ edited = {} /\ off = {}
      /\ killed = {} /\ missed = FALSE
  BY DEF Init
<1>7. requests \in 0 .. MaxRequests
  BY <1>6, CommentsAssumption
<1>8. links \subseteq Addresses \X Comments
  BY <1>6
<1>9. TypeOK
  BY <1>3, <1>4, <1>5, <1>6, <1>7, <1>8 DEF TypeOK
<1> QED
  BY <1>2, <1>9 DEF Init, TypeInv, ApproveIds, TodoLinks

LEMMA IdleIsJob == Idle \in Job /\ Idle.pc = "idle" /\ Idle.kind = "none" /\ Idle.todo = {}
  BY CommentsAssumption DEF Blank, Row, Idle, Job, Phases, Kinds, NoLinks, Links

\* What an action must show of the job it leaves behind.
GoodJob(j) ==
    /\ j \in Job
    /\ j.pc \notin {"idle", "attach", "flush"} => j.id \in Comments
    /\ j.kind = "approve" => j.id \in Comments
    /\ j.pc = "mail" => \A a \in j.todo \ {Owner} : j.link[a] \in Comments

LEMMA JobsGood ==
    TypeInv => job \in [Workers -> Job] /\ \A w \in Workers : GoodJob(job[w])
  BY DEF TypeInv, TypeOK, ApproveIds, TodoLinks, GoodJob

LEMMA JobStep ==
    ASSUME TypeInv, NEW w \in Workers, NEW j, GoodJob(j), job' = [job EXCEPT ![w] = j]
    PROVE  /\ job' \in [Workers -> Job]
           /\ \A x \in Workers : job'[x].pc \notin {"idle", "attach", "flush"} => job'[x].id \in Comments
           /\ ApproveIds' /\ TodoLinks'
  BY JobsGood DEF GoodJob, ApproveIds, TodoLinks

LEMMA DoneStep ==
    ASSUME TypeInv, NEW w \in Workers, Done(w)
    PROVE  /\ job' \in [Workers -> Job]
           /\ \A x \in Workers : job'[x].pc \notin {"idle", "attach", "flush"} => job'[x].id \in Comments
           /\ ApproveIds' /\ TodoLinks'
  BY IdleIsJob, JobStep DEF Done, GoodJob

LEMMA GotoStep ==
    ASSUME TypeInv, NEW w \in Workers, NEW pc \in Phases \ {"mail"}, Goto(w, pc),
           pc = "flush" \/ job[w].id \in Comments
    PROVE  /\ job' \in [Workers -> Job]
           /\ \A x \in Workers : job'[x].pc \notin {"idle", "attach", "flush"} => job'[x].id \in Comments
           /\ ApproveIds' /\ TodoLinks'
<1>1. GoodJob([job[w] EXCEPT !.pc = pc])
  BY JobsGood DEF GoodJob, Job
<1>2. job' = [job EXCEPT ![w] = [job[w] EXCEPT !.pc = pc]]
  BY DEF Goto
<1> QED
  BY <1>1, <1>2, JobStep

LEMMA BeginStep ==
    ASSUME TypeInv, NEW w \in Workers, NEW j, GoodJob(j), Begin(w, j)
    PROVE  /\ job' \in [Workers -> Job]
           /\ \A x \in Workers : job'[x].pc \notin {"idle", "attach", "flush"} => job'[x].id \in Comments
           /\ ApproveIds' /\ TodoLinks'
           /\ requests' \in 0 .. MaxRequests
<1>1. job' = [job EXCEPT ![w] = j] /\ requests < MaxRequests /\ requests' = requests + 1
  BY DEF Begin
<1>2. requests' \in 0 .. MaxRequests
  BY <1>1, CommentsAssumption DEF TypeInv, TypeOK
<1> QED
  BY <1>1, <1>2, JobStep

LEMMA StepTypeInv == TypeInv /\ [Next]_vars => TypeInv'
<1> SUFFICES ASSUME TypeInv, [Next]_vars PROVE TypeInv'
  OBVIOUS
<1> USE DEF sidebar, mails, history
<1>0. TypeOK
  BY DEF TypeInv
<1>1. ASSUME NEW w \in Workers, NEW c \in Comments, NEW a \in Addresses, NEW s \in BOOLEAN,
             NEW k \in {"post", "author", "sub"}, Post(w, c, a, s, k)
      PROVE TypeInv'
  <2>1. GoodJob([Idle EXCEPT !.pc = "insert", !.kind = k, !.id = c,
                             !.copy = [Blank EXCEPT !.email = a, !.subscribe = s]])
    BY CommentsAssumption DEF GoodJob, Blank, Row, Idle, Job, Phases, Kinds, NoLinks, Links
  <2> QED
    BY <1>0, <1>1, <2>1, BeginStep DEF Post, TypeInv, TypeOK
<1>2. ASSUME NEW w \in Workers, Insert(w) PROVE TypeInv'
  <2> DEFINE v == [job[w].copy EXCEPT !.moderated = ~moderate \/ job[w].kind \in {"author", "sub"},
                                      !.only = job[w].kind = "sub"]
  <2> DEFINE next == IF v.subscribe THEN "notify" ELSE "clear"
  <2>0. job[w].copy \in Row /\ job[w].id \in Comments /\ GoodJob(job[w]) /\ job[w].pc = "insert"
    BY <1>0, <1>2, JobsGood DEF Insert, TypeOK, Job
  <2>1. v \in Row /\ job[w].id \in Comments /\ GoodJob(job[w]) /\ job[w].pc = "insert"
    BY <2>0 DEF Row
  <2>2. GoodJob([job[w] EXCEPT !.pc = next, !.copy = v])
    BY <2>1 DEF GoodJob, Job, Phases
  <2>3. \/ Done(w)
        \/ job' = [job EXCEPT ![w] = [job[w] EXCEPT !.pc = next, !.copy = v]]
    BY <1>2 DEF Insert
  <2>4. /\ job' \in [Workers -> Job]
        /\ \A x \in Workers : job'[x].pc \notin {"idle", "attach", "flush"} => job'[x].id \in Comments
        /\ ApproveIds' /\ TodoLinks'
    BY <2>2, <2>3, DoneStep, JobStep
  <2>5. Store(job[w].id, v) /\ life' = [life EXCEPT ![job[w].id] = "stored"]
    BY <1>2 DEF Insert
  <2> HIDE DEF v, next
  <2> QED
    BY <1>0, <1>2, <2>1, <2>4, <2>5 DEF Insert, Store, TypeInv, TypeOK
<1>3. ASSUME NEW a \in Addresses, TurnOff(a)
      PROVE row' \in [Comments -> Row] /\ off' \subseteq Addresses
  BY <1>0, <1>3 DEF TurnOff, TypeOK, Row
<1>4. ASSUME NEW w \in Workers, Clear(w) PROVE TypeInv'
  <2>1. job[w].id \in Comments /\ job[w].copy.email \in Addresses
    BY <1>0, <1>4 DEF Clear, TypeOK, Job, Row
  <2> QED
    BY <1>0, <1>4, <2>1, <1>3, GotoStep DEF Clear, TypeInv, TypeOK, Phases
<1>5. ASSUME NEW w \in Workers, ClearFail(w) PROVE TypeInv'
  BY <1>0, <1>5, GotoStep DEF ClearFail, TypeInv, TypeOK, Phases
<1>6. ASSUME NEW w \in Workers, Notify(w) PROVE TypeInv'
  <2>1. CASE Recipients(w) = {}
    BY <1>0, <1>6, <2>1, DoneStep DEF Notify, TypeInv, TypeOK
  <2>2. CASE Recipients(w) # {}
    <3>1. PICK link \in Links :
             /\ Named(link)
             /\ job' = [job EXCEPT ![w].pc = "mail", ![w].todo = Recipients(w),
                                   ![w].link = link]
      BY <1>6, <2>2 DEF Notify
    <3> DEFINE j == [job[w] EXCEPT !.pc = "mail", !.todo = Recipients(w), !.link = link]
    <3>2. job' = [job EXCEPT ![w] = j]
      BY <3>1
    <3>3. Recipients(w) \subseteq Addresses
      BY CommentsAssumption DEF Recipients, Thread
    <3>4. \A a \in Recipients(w) \ {Owner} : link[a] \in Comments
      BY <3>1 DEF Recipients, Thread, Named, Subscribed
    <3>5. GoodJob(j)
      <4>1. job[w] \in Job /\ job[w].id \in Comments
        BY <1>0, <1>6 DEF Notify, TypeOK
      <4>2. j \in Job
        BY <4>1, <3>1, <3>3 DEF Job, Phases
      <4>3. j.id \in Comments /\ j.todo = Recipients(w) /\ j.link = link
        BY <4>1 DEF Job
      <4> HIDE DEF j
      <4> QED
        BY <4>2, <4>3, <3>4 DEF GoodJob
    <3> HIDE DEF j
    <3> QED
      BY <1>0, <1>6, <3>2, <3>5, JobStep DEF Notify, TypeInv, TypeOK
  <2> QED
    BY <2>1, <2>2
<1>7. ASSUME NEW w \in Workers, NEW a \in Addresses, Send(w, a) PROVE TypeInv'
  <2>1. GoodJob(job[w]) /\ job[w].pc = "mail" /\ a \in job[w].todo /\ job[w].id \in Comments
    BY <1>0, <1>7, JobsGood DEF Send, TypeOK
  <2>2. GoodJob([job[w] EXCEPT !.todo = @ \ {a}])
    BY <2>1 DEF GoodJob, Job
  <2>3. Done(w) \/ job' = [job EXCEPT ![w] = [job[w] EXCEPT !.todo = @ \ {a}]]
    BY <1>7 DEF Send
  <2>4. /\ job' \in [Workers -> Job]
        /\ \A x \in Workers : job'[x].pc \notin {"idle", "attach", "flush"} => job'[x].id \in Comments
        /\ ApproveIds' /\ TodoLinks'
    BY <2>2, <2>3, DoneStep, JobStep
  <2>5. told' \in [Comments -> [Addresses -> Nat]]
    BY <1>0, <1>7, <2>1 DEF Send, TypeOK
  <2>6. links' \subseteq Addresses \X Comments
    BY <1>0, <1>7, <2>1 DEF Send, TypeOK, GoodJob
  <2> QED
    BY <1>0, <1>7, <2>4, <2>5, <2>6 DEF Send, TypeInv, TypeOK
<1>8. ASSUME NEW c \in Comments, Kill(c) PROVE TypeInv'
  BY <1>0, <1>8 DEF Kill, TypeInv, TypeOK, ApproveIds, TodoLinks
<1>9. ASSUME NEW c \in Comments, MarkModerated(c)
      PROVE row' \in [Comments -> Row] /\ approved' \subseteq Comments /\ again' \subseteq Comments
  BY <1>0, <1>9 DEF MarkModerated, TypeOK, Row
<1>10. ASSUME NEW c \in Comments, ApproveByLink(c) PROVE TypeInv'
  BY <1>0, <1>9, <1>10 DEF ApproveByLink, TypeInv, TypeOK, ApproveIds, TodoLinks
<1>11. ASSUME NEW c \in Comments, NEW p \in {"unsub", "approve", "save"},
              NEW k \in {"unsub", "approve", "edit"}
       PROVE GoodJob([Idle EXCEPT !.pc = p, !.kind = k, !.id = c, !.copy = row[c]])
  BY <1>0, CommentsAssumption DEF GoodJob, Idle, Job, Phases, Kinds, NoLinks, Links, TypeOK
<1>12. ASSUME NEW w \in Workers, NEW a \in Addresses, NEW c \in Comments, OpenUnsubscribe(w, a, c)
       PROVE TypeInv'
  BY <1>0, <1>11, <1>12, BeginStep DEF OpenUnsubscribe, TypeInv, TypeOK
<1>13. ASSUME NEW w \in Workers, Unsubscribe(w) PROVE TypeInv'
  <2>1. job[w].copy.email \in Addresses
    BY <1>0 DEF TypeOK, Job, Row
  <2> QED
    BY <1>0, <1>3, <1>13, <2>1, DoneStep DEF Unsubscribe, TypeInv, TypeOK
<1>14. ASSUME NEW w \in Workers, NEW c \in Comments, OpenApprove(w, c) PROVE TypeInv'
  BY <1>0, <1>11, <1>14, BeginStep DEF OpenApprove, TypeInv, TypeOK
<1>15. ASSUME NEW w \in Workers, Approve(w) PROVE TypeInv'
  <2>1. job[w].id \in Comments
    BY <1>0, <1>15 DEF Approve, TypeOK
  <2> QED
    BY <1>0, <1>9, <1>15, <2>1, GotoStep DEF Approve, TypeInv, TypeOK, Phases
<1>16. ASSUME NEW w \in Workers, Lookup(w) PROVE TypeInv'
  BY <1>0, <1>16, DoneStep, GotoStep DEF Lookup, TypeInv, TypeOK, Phases
<1>17. ASSUME NEW w \in Workers, NEW c \in Comments, OpenSave(w, c) PROVE TypeInv'
  BY <1>0, <1>11, <1>17, BeginStep DEF OpenSave, TypeInv, TypeOK
<1>18. ASSUME NEW w \in Workers, Save(w) PROVE TypeInv'
  <2>1. job[w].id \in Comments
    BY <1>0, <1>18 DEF Save, TypeOK
  <2> QED
    BY <1>0, <1>18, <2>1, GotoStep DEF Save, Store, TypeInv, TypeOK, Phases, Row
<1>19. \A pc \in {"attach", "flush"} : GoodJob([Idle EXCEPT !.pc = pc, !.kind = "edit"])
  BY IdleIsJob DEF GoodJob, Job, Phases, Kinds
<1>20. ASSUME NEW w \in Workers, NEW c \in Comments, DeleteMarked(w, c) PROVE TypeInv'
  BY <1>0, <1>19, <1>20, BeginStep DEF DeleteMarked, TypeInv, TypeOK
<1>21. ASSUME NEW w \in Workers, NEW e \in {"live", "hidden", "gone"}, ChangeEntry(w, e)
       PROVE TypeInv'
  BY <1>0, <1>19, <1>21, BeginStep DEF ChangeEntry, TypeInv, TypeOK
<1>22. ASSUME NEW w \in Workers, ChangeSetting(w) PROVE TypeInv'
  BY <1>0, <1>19, <1>22, BeginStep DEF ChangeSetting, TypeInv, TypeOK
<1>28. ASSUME NEW w \in Workers, Attach(w) PROVE TypeInv'
  BY <1>0, <1>28, GotoStep DEF Attach, TypeInv, TypeOK, ApproveIds, Phases
<1>23. ASSUME NEW w \in Workers, Flush(w) PROVE TypeInv'
  BY <1>0, <1>23, DoneStep, GotoStep DEF Flush, TypeInv, TypeOK, ApproveIds, Phases
<1>24. ASSUME NEW w \in Workers, Abandon(w) PROVE TypeInv'
  BY <1>0, <1>24, DoneStep DEF Abandon, TypeInv, TypeOK
<1>25. CASE FillSidebar
  BY <1>0, <1>25 DEF FillSidebar, TypeInv, TypeOK, ApproveIds, TodoLinks
<1>26. CASE Crash
  BY <1>0, <1>26, IdleIsJob DEF Crash, TypeInv, TypeOK, ApproveIds, TodoLinks
<1>27. CASE UNCHANGED vars
  BY <1>0, <1>27 DEF vars, TypeInv, TypeOK, ApproveIds, TodoLinks
<1> QED
  BY <1>1, <1>2, <1>4, <1>5, <1>6, <1>7, <1>8, <1>10, <1>12, <1>13, <1>14, <1>15, <1>16,
     <1>17, <1>18, <1>20, <1>21, <1>22, <1>23, <1>24, <1>25, <1>26, <1>27, <1>28
  DEF Next, VisitorStep, AdminStep, MailStep

\* Every reachable state of a comment thread is well typed.
THEOREM TypeCorrect == Spec => []TypeOK
<1>1. TypeInv => TypeOK
  BY DEF TypeInv
<1> QED
  BY <1>1, InitTypeInv, StepTypeInv, PTL DEF Spec

(***************************************************************************)
(* What a step does to the jobs.                                           *)
(***************************************************************************)

LEMMA DoneAt ==
    ASSUME TypeInv, NEW w \in Workers, Done(w)
    PROVE  /\ job'[w] = Idle
           /\ job'[w].pc = "idle" /\ job'[w].kind = "none" /\ job'[w].id = NoComment
           /\ \A x \in Workers \ {w} : job'[x] = job[x]
  BY DEF Done, Idle, TypeInv, TypeOK

\* An insert is followed by the end of the request, or by the rest of the post.
LEMMA InsertAt ==
    ASSUME TypeInv, NEW w \in Workers, Insert(w)
    PROVE  /\ job[w].id \in Comments /\ job[w].copy.email \in Addresses
           /\ \A x \in Workers \ {w} : job'[x] = job[x]
           /\ \E v \in Row :
                 /\ v.email = job[w].copy.email /\ Store(job[w].id, v)
                 /\ \/ Done(w)
                    \/ /\ job'[w].pc \in {"notify", "clear"} /\ job'[w].kind = job[w].kind
                       /\ job'[w].id = job[w].id /\ job'[w].copy = v
<1> DEFINE v == [job[w].copy EXCEPT !.moderated = ~moderate \/ job[w].kind \in {"author", "sub"},
                                    !.only = job[w].kind = "sub"]
<1> DEFINE next == IF v.subscribe THEN "notify" ELSE "clear"
<1>1. job[w].copy \in Row /\ job[w].id \in Comments /\ job[w] \in Job
  BY DEF Insert, TypeInv, TypeOK, Job
<1>2. v \in Row /\ v.email = job[w].copy.email /\ job[w].copy.email \in Addresses
  BY <1>1 DEF Row
<1>3. Store(job[w].id, v)
  BY DEF Insert
<1>4. Done(w) \/ job' = [job EXCEPT ![w] = [job[w] EXCEPT !.pc = next, !.copy = v]]
  BY DEF Insert
<1>5. next \in {"notify", "clear"}
  OBVIOUS
<1> HIDE DEF v, next
<1>6. CASE job' = [job EXCEPT ![w] = [job[w] EXCEPT !.pc = next, !.copy = v]]
  <2>1. \A x \in Workers \ {w} : job'[x] = job[x]
    BY <1>6 DEF TypeInv, TypeOK
  <2>2. /\ job'[w].pc \in {"notify", "clear"} /\ job'[w].kind = job[w].kind
        /\ job'[w].id = job[w].id /\ job'[w].copy = v
    BY <1>1, <1>5, <1>6 DEF TypeInv, TypeOK, Job
  <2> QED
    BY <1>1, <1>2, <1>3, <2>1, <2>2
<1> QED
  BY <1>1, <1>2, <1>3, <1>4, <1>6, DoneAt

\* A notifier that has nobody to tell is done, and else goes on to its mails.
LEMMA NotifyAt ==
    ASSUME TypeInv, NEW w \in Workers, Notify(w)
    PROVE  /\ job[w].id \in Comments
           /\ \A x \in Workers \ {w} : job'[x] = job[x]
           /\ \/ Done(w)
              \/ /\ job'[w].pc = "mail" /\ job'[w].kind = job[w].kind /\ job'[w].id = job[w].id
                 /\ job'[w].todo = Recipients(w) /\ Named(job'[w].link)
<1>1. job[w].id \in Comments /\ job[w] \in Job
  BY DEF Notify, TypeInv, TypeOK
<1>2. CASE Recipients(w) = {}
  BY <1>1, <1>2, DoneAt DEF Notify
<1>3. CASE Recipients(w) # {}
  <2>1. PICK link \in Links :
           /\ Named(link)
           /\ job' = [job EXCEPT ![w].pc = "mail", ![w].todo = Recipients(w), ![w].link = link]
    BY <1>3 DEF Notify
  <2>2. /\ job'[w].pc = "mail" /\ job'[w].kind = job[w].kind /\ job'[w].id = job[w].id
        /\ job'[w].todo = Recipients(w) /\ job'[w].link = link
        /\ \A x \in Workers \ {w} : job'[x] = job[x]
    BY <1>1, <2>1 DEF TypeInv, TypeOK, Job
  <2> QED
    BY <1>1, <2>1, <2>2
<1> QED
  BY <1>2, <1>3

\* A message leaves one recipient fewer.
LEMMA SendAt ==
    ASSUME TypeInv, NEW w \in Workers, NEW a \in Addresses, Send(w, a)
    PROVE  /\ job[w].id \in Comments /\ job[w].pc = "mail" /\ a \in job[w].todo
           /\ \A x \in Workers \ {w} : job'[x] = job[x]
           /\ \/ Done(w)
              \/ /\ job'[w].pc = "mail" /\ job'[w].kind = job[w].kind /\ job'[w].id = job[w].id
                 /\ job'[w].todo = job[w].todo \ {a} /\ job'[w].link = job[w].link
<1>1. job[w].id \in Comments /\ job[w] \in Job /\ job[w].pc = "mail" /\ a \in job[w].todo
  BY DEF Send, TypeInv, TypeOK
<1>2. Done(w) \/ job' = [job EXCEPT ![w].todo = @ \ {a}]
  BY DEF Send
<1>3. CASE job' = [job EXCEPT ![w].todo = @ \ {a}]
  BY <1>1, <1>3 DEF TypeInv, TypeOK, Job
<1> QED
  BY <1>1, <1>2, <1>3, DoneAt

\* A request moves to a phase and is otherwise what it was.
LEMMA GotoAt ==
    ASSUME TypeInv, NEW w \in Workers, NEW p \in Phases, Goto(w, p)
    PROVE  /\ job'[w].pc = p /\ job'[w].kind = job[w].kind /\ job'[w].id = job[w].id
           /\ job'[w].copy = job[w].copy
           /\ \A x \in Workers \ {w} : job'[x] = job[x]
  BY DEF Goto, TypeInv, TypeOK, Job

(***************************************************************************)
(* Comments that are not born yet.                                         *)
(***************************************************************************)

\* An insert has its comment to itself.
InsertUnborn ==
    \A w \in Workers : job[w].pc = "insert" =>
        life[job[w].id] = "unborn" /\ \A x \in Workers \ {w} : job[x].id # job[w].id

\* An id that has no row is moderated nowhere and shown nowhere.
UnbornUnseen == \A c \in Comments : life[c] = "unborn" => ~row[c].moderated /\ c \notin shown

BornInv == InsertUnborn /\ UnbornUnseen

LEMMA InitBornInv == Init => BornInv
  BY DEF Init, BornInv, InsertUnborn, UnbornUnseen, Blank, Idle

LEMMA StepBornInv ==
    TypeInv /\ BornInv /\ [Next]_vars => BornInv'
<1> SUFFICES ASSUME TypeInv, BornInv, [Next]_vars PROVE BornInv'
  OBVIOUS
<1> USE DEF sidebar, mails, history
<1>0. TypeOK
  BY DEF TypeInv
<1>1. ASSUME NEW w \in Workers, NEW c \in Comments, NEW a \in Addresses, NEW s \in BOOLEAN,
             NEW k \in {"post", "author", "sub"}, Post(w, c, a, s, k) PROVE BornInv'
  BY <1>0, <1>1 DEF Post, Begin, Idle, BornInv, InsertUnborn, UnbornUnseen, TypeOK
<1>2. ASSUME NEW w \in Workers, Insert(w) PROVE BornInv'
  <2>1. PICK v \in Row :
           /\ v.email = job[w].copy.email /\ Store(job[w].id, v)
           /\ \/ Done(w)
              \/ job'[w].pc \in {"notify", "clear"} /\ job'[w].id = job[w].id
    BY <1>2, InsertAt
  <2>2. /\ job'[w].pc # "insert" /\ job'[w].id \in {NoComment, job[w].id}
        /\ \A x \in Workers \ {w} : job'[x] = job[x]
        /\ job[w].id \in Comments /\ job[w].pc = "insert"
    BY <1>2, <2>1, DoneAt, InsertAt DEF Insert
  <2>3. /\ life' = [life EXCEPT ![job[w].id] = "stored"] /\ row' = [row EXCEPT ![job[w].id] = v]
        /\ shown' = shown
    BY <1>2, <2>1 DEF Insert, Store
  <2>4. UnbornUnseen'
    BY <1>0, <2>2, <2>3 DEF BornInv, UnbornUnseen, TypeOK
  <2>5. InsertUnborn'
    <3> SUFFICES ASSUME NEW x \in Workers, job'[x].pc = "insert"
                 PROVE  /\ life'[job'[x].id] = "unborn"
                        /\ \A y \in Workers \ {x} : job'[y].id # job'[x].id
      BY DEF InsertUnborn
    <3>1. x # w /\ job'[x] = job[x] /\ job[x].id \in Comments
      BY <1>0, <2>2 DEF TypeOK
    <3>2. life[job[x].id] = "unborn" /\ \A y \in Workers \ {x} : job[y].id # job[x].id
      BY <3>1 DEF BornInv, InsertUnborn
    <3>3. life'[job[x].id] = "unborn"
      BY <1>0, <2>2, <2>3, <3>1, <3>2 DEF TypeOK
    <3>4. job'[w].id # job[x].id
      BY <2>2, <3>1, <3>2, CommentsAssumption
    <3> QED
      BY <2>2, <3>1, <3>2, <3>3, <3>4
  <2> QED
    BY <2>4, <2>5 DEF BornInv
<1>3. ASSUME NEW w \in Workers, Clear(w) PROVE BornInv'
  BY <1>0, <1>3
  DEF Clear, Goto, TurnOff, Stored, BornInv, InsertUnborn, UnbornUnseen, TypeOK
<1>4. ASSUME NEW w \in Workers, ClearFail(w) PROVE BornInv'
  BY <1>0, <1>4 DEF ClearFail, Goto, BornInv, InsertUnborn, UnbornUnseen, TypeOK
<1>5. ASSUME NEW w \in Workers, Notify(w) PROVE BornInv'
  <2>1. /\ job'[w].pc # "insert" /\ job'[w].id \in {NoComment, job[w].id}
        /\ \A x \in Workers \ {w} : job'[x] = job[x]
    BY <1>5, NotifyAt, DoneAt
  <2>2. UNCHANGED <<life, row, shown>>
    BY <1>5 DEF Notify
  <2> QED
    BY <1>0, <2>1, <2>2, CommentsAssumption DEF BornInv, InsertUnborn, UnbornUnseen, TypeOK
<1>6. ASSUME NEW w \in Workers, NEW a \in Addresses, Send(w, a) PROVE BornInv'
  <2>1. /\ job'[w].pc # "insert" /\ job'[w].id \in {NoComment, job[w].id}
        /\ \A x \in Workers \ {w} : job'[x] = job[x]
    BY <1>6, SendAt, DoneAt
  <2> QED
    <3>1. UNCHANGED <<life, row, shown>>
      BY <1>6 DEF Send
    <3>2. ASSUME NEW v \in Workers, job'[v].pc = "insert"
          PROVE  life[job'[v].id] = "unborn" /\ \A x \in Workers \ {v} : job'[x].id # job'[v].id
      <4>1. v # w /\ job'[v] = job[v]
        BY <2>1, <3>2
      <4>2. job[v].id \in Comments /\ job[v].id # NoComment
        BY <1>0, <3>2, <4>1, CommentsAssumption DEF TypeOK
      <4>3. life[job[v].id] = "unborn" /\ \A x \in Workers \ {v} : job[x].id # job[v].id
        BY <3>2, <4>1 DEF BornInv, InsertUnborn
      <4> QED
        BY <2>1, <4>1, <4>2, <4>3
    <3> QED
      BY <3>1, <3>2 DEF BornInv, InsertUnborn, UnbornUnseen
<1>7. ASSUME NEW c \in Comments, Kill(c) PROVE BornInv'
  BY <1>0, <1>7 DEF Kill, Stored, BornInv, InsertUnborn, UnbornUnseen, TypeOK
<1>8. ASSUME NEW c \in Comments, ApproveByLink(c) PROVE BornInv'
  BY <1>0, <1>8
  DEF ApproveByLink, MarkModerated, Stored, BornInv, InsertUnborn, UnbornUnseen, TypeOK
<1>9. ASSUME NEW w \in Workers, NEW a \in Addresses, NEW c \in Comments, OpenUnsubscribe(w, a, c)
      PROVE BornInv'
  BY <1>0, <1>9
  DEF OpenUnsubscribe, Begin, Idle, Stored, BornInv, InsertUnborn, UnbornUnseen, TypeOK
<1>10. ASSUME NEW w \in Workers, Unsubscribe(w) PROVE BornInv'
  BY <1>0, <1>10, CommentsAssumption
  DEF Unsubscribe, Done, Idle, TurnOff, Stored, BornInv, InsertUnborn, UnbornUnseen, TypeOK
<1>11. ASSUME NEW w \in Workers, NEW c \in Comments, OpenApprove(w, c) PROVE BornInv'
  BY <1>0, <1>11
  DEF OpenApprove, Begin, Idle, Stored, BornInv, InsertUnborn, UnbornUnseen, TypeOK
<1>12. ASSUME NEW w \in Workers, Approve(w) PROVE BornInv'
  BY <1>0, <1>12
  DEF Approve, Goto, MarkModerated, Stored, BornInv, InsertUnborn, UnbornUnseen, TypeOK
<1>13. ASSUME NEW w \in Workers, Lookup(w) PROVE BornInv'
  <2>1. /\ job'[w].pc # "insert" /\ job'[w].id \in {NoComment, job[w].id}
        /\ \A x \in Workers \ {w} : job'[x] = job[x]
    BY <1>13, DoneAt, GotoAt DEF Lookup, Phases
  <2> QED
    BY <1>0, <1>13, <2>1, CommentsAssumption
    DEF Lookup, BornInv, InsertUnborn, UnbornUnseen, TypeOK
<1>14. ASSUME NEW w \in Workers, NEW c \in Comments, OpenSave(w, c) PROVE BornInv'
  BY <1>0, <1>14
  DEF OpenSave, Begin, Idle, Stored, BornInv, InsertUnborn, UnbornUnseen, TypeOK
<1>15. ASSUME NEW w \in Workers, Save(w) PROVE BornInv'
  BY <1>0, <1>15 DEF Save, Goto, Store, Stored, BornInv, InsertUnborn, UnbornUnseen, TypeOK
<1>16. ASSUME NEW w \in Workers, NEW c \in Comments, DeleteMarked(w, c) PROVE BornInv'
  BY <1>0, <1>16
  DEF DeleteMarked, Begin, Idle, Stored, BornInv, InsertUnborn, UnbornUnseen, TypeOK
<1>17. ASSUME NEW w \in Workers, NEW e \in {"live", "hidden", "gone"}, ChangeEntry(w, e)
       PROVE BornInv'
  BY <1>0, <1>17
  DEF ChangeEntry, Begin, Idle, Stored, BornInv, InsertUnborn, UnbornUnseen, TypeOK
<1>18. ASSUME NEW w \in Workers, ChangeSetting(w) PROVE BornInv'
  BY <1>0, <1>18 DEF ChangeSetting, Begin, Idle, BornInv, InsertUnborn, UnbornUnseen, TypeOK
<1>24. ASSUME NEW w \in Workers, Attach(w) PROVE BornInv'
  BY <1>0, <1>24 DEF Attach, Goto, BornInv, InsertUnborn, UnbornUnseen, TypeOK
<1>19. ASSUME NEW w \in Workers, Flush(w) PROVE BornInv'
  <2>1. /\ job'[w].pc # "insert" /\ job'[w].id \in {NoComment, job[w].id}
        /\ \A x \in Workers \ {w} : job'[x] = job[x]
    BY <1>19, DoneAt, GotoAt DEF Flush, Phases
  <2> QED
    BY <1>0, <1>19, <2>1, CommentsAssumption
    DEF Flush, BornInv, InsertUnborn, UnbornUnseen, TypeOK
<1>20. ASSUME NEW w \in Workers, Abandon(w) PROVE BornInv'
  BY <1>0, <1>20, CommentsAssumption
  DEF Abandon, Done, Idle, BornInv, InsertUnborn, UnbornUnseen, TypeOK
<1>21. CASE FillSidebar
  BY <1>0, <1>21
  DEF FillSidebar, Visible, Public, Stored, BornInv, InsertUnborn, UnbornUnseen, TypeOK
<1>22. CASE Crash
  BY <1>0, <1>22, CommentsAssumption
  DEF Crash, Idle, BornInv, InsertUnborn, UnbornUnseen, TypeOK
<1>23. CASE UNCHANGED vars
  BY <1>0, <1>23 DEF vars, BornInv, InsertUnborn, UnbornUnseen, TypeOK
<1> QED
  BY <1>1, <1>2, <1>3, <1>4, <1>5, <1>6, <1>7, <1>8, <1>9, <1>10, <1>11,
     <1>12, <1>13, <1>14, <1>15, <1>16, <1>17, <1>18, <1>19, <1>20, <1>21, <1>22, <1>23, <1>24
  DEF Next, VisitorStep, AdminStep, MailStep

(***************************************************************************)
(* Mail that is off.                                                       *)
(***************************************************************************)

LEMMA StepOff ==
    TypeInv /\ OffStaysOff /\ [Next]_vars => OffStaysOff'
<1> SUFFICES ASSUME TypeInv, OffStaysOff, [Next]_vars PROVE OffStaysOff'
  OBVIOUS
<1> USE DEF sidebar, mails, history
<1>0. TypeOK
  BY DEF TypeInv
<1>1. ASSUME NEW w \in Workers, NEW c \in Comments, NEW a \in Addresses, NEW s \in BOOLEAN,
             NEW k \in {"post", "author", "sub"}, Post(w, c, a, s, k) PROVE OffStaysOff'
  BY <1>0, <1>1 DEF Post, Begin, Idle, OffStaysOff, Subscribed, Stored, TypeOK
<1>2. ASSUME NEW w \in Workers, Insert(w) PROVE OffStaysOff'
  <2>1. PICK v \in Row : Store(job[w].id, v)
    BY <1>2, InsertAt
  <2>2. life' = [life EXCEPT ![job[w].id] = "stored"] /\ job[w].id \in Comments
    BY <1>2, InsertAt DEF Insert
  <2> QED
    BY <1>0, <2>1, <2>2 DEF Store, OffStaysOff, Subscribed, Stored, TypeOK, Row
<1>3. ASSUME NEW w \in Workers, Clear(w) PROVE OffStaysOff'
  BY <1>0, <1>3 DEF Clear, Goto, TurnOff, OffStaysOff, Subscribed, Stored, TypeOK
<1>4. ASSUME NEW w \in Workers, ClearFail(w) PROVE OffStaysOff'
  BY <1>0, <1>4 DEF ClearFail, Goto, OffStaysOff, Subscribed, Stored, TypeOK
<1>5. ASSUME NEW w \in Workers, Notify(w) PROVE OffStaysOff'
  BY <1>0, <1>5, CommentsAssumption
  DEF Notify, Done, Idle, OffStaysOff, Subscribed, Stored, TypeOK
<1>6. ASSUME NEW w \in Workers, NEW a \in Addresses, Send(w, a) PROVE OffStaysOff'
  BY <1>0, <1>6, CommentsAssumption
  DEF Send, Done, Idle, OffStaysOff, Subscribed, Stored, TypeOK
<1>7. ASSUME NEW c \in Comments, Kill(c) PROVE OffStaysOff'
  BY <1>0, <1>7 DEF Kill, OffStaysOff, Subscribed, Stored, TypeOK
<1>8. ASSUME NEW c \in Comments, ApproveByLink(c) PROVE OffStaysOff'
  BY <1>0, <1>8 DEF ApproveByLink, MarkModerated, OffStaysOff, Subscribed, Stored, TypeOK
<1>9. ASSUME NEW w \in Workers, NEW a \in Addresses, NEW c \in Comments, OpenUnsubscribe(w, a, c)
      PROVE OffStaysOff'
  BY <1>0, <1>9 DEF OpenUnsubscribe, Begin, Idle, OffStaysOff, Subscribed, Stored, TypeOK
<1>10. ASSUME NEW w \in Workers, Unsubscribe(w) PROVE OffStaysOff'
  BY <1>0, <1>10, CommentsAssumption
  DEF Unsubscribe, Done, Idle, TurnOff, OffStaysOff, Subscribed, Stored, TypeOK
<1>11. ASSUME NEW w \in Workers, NEW c \in Comments, OpenApprove(w, c) PROVE OffStaysOff'
  BY <1>0, <1>11 DEF OpenApprove, Begin, Idle, OffStaysOff, Subscribed, Stored, TypeOK
<1>12. ASSUME NEW w \in Workers, Approve(w) PROVE OffStaysOff'
  BY <1>0, <1>12 DEF Approve, Goto, MarkModerated, OffStaysOff, Subscribed, Stored, TypeOK
<1>13. ASSUME NEW w \in Workers, Lookup(w) PROVE OffStaysOff'
  BY <1>0, <1>13, CommentsAssumption
  DEF Lookup, Done, Goto, Idle, OffStaysOff, Subscribed, Stored, TypeOK
<1>14. ASSUME NEW w \in Workers, NEW c \in Comments, OpenSave(w, c) PROVE OffStaysOff'
  BY <1>0, <1>14 DEF OpenSave, Begin, Idle, OffStaysOff, Subscribed, Stored, TypeOK
<1>15. ASSUME NEW w \in Workers, Save(w) PROVE OffStaysOff'
  BY <1>0, <1>15 DEF Save, Goto, Store, OffStaysOff, Subscribed, Stored, TypeOK
<1>16. ASSUME NEW w \in Workers, NEW c \in Comments, DeleteMarked(w, c) PROVE OffStaysOff'
  BY <1>0, <1>16 DEF DeleteMarked, Begin, Idle, OffStaysOff, Subscribed, Stored, TypeOK
<1>17. ASSUME NEW w \in Workers, NEW e \in {"live", "hidden", "gone"}, ChangeEntry(w, e)
       PROVE OffStaysOff'
  BY <1>0, <1>17 DEF ChangeEntry, Begin, Idle, OffStaysOff, Subscribed, Stored, TypeOK
<1>18. ASSUME NEW w \in Workers, ChangeSetting(w) PROVE OffStaysOff'
  BY <1>0, <1>18 DEF ChangeSetting, Begin, Idle, OffStaysOff, Subscribed, Stored, TypeOK
<1>24. ASSUME NEW w \in Workers, Attach(w) PROVE OffStaysOff'
  BY <1>0, <1>24 DEF Attach, Goto, OffStaysOff, Subscribed, Stored, TypeOK
<1>19. ASSUME NEW w \in Workers, Flush(w) PROVE OffStaysOff'
  BY <1>0, <1>19, CommentsAssumption
  DEF Flush, Done, Goto, Idle, OffStaysOff, Subscribed, Stored, TypeOK
<1>20. ASSUME NEW w \in Workers, Abandon(w) PROVE OffStaysOff'
  BY <1>0, <1>20, CommentsAssumption
  DEF Abandon, Done, Idle, OffStaysOff, Subscribed, Stored, TypeOK
<1>21. CASE FillSidebar
  BY <1>0, <1>21 DEF FillSidebar, Visible, Public, OffStaysOff, Subscribed, Stored, TypeOK
<1>22. CASE Crash
  BY <1>0, <1>22, CommentsAssumption
  DEF Crash, Idle, OffStaysOff, Subscribed, Stored, TypeOK
<1>23. CASE UNCHANGED vars
  BY <1>0, <1>23 DEF vars, OffStaysOff, Subscribed, Stored, TypeOK
<1> QED
  BY <1>1, <1>2, <1>3, <1>4, <1>5, <1>6, <1>7, <1>8, <1>9, <1>10, <1>11,
     <1>12, <1>13, <1>14, <1>15, <1>16, <1>17, <1>18, <1>19, <1>20, <1>21, <1>22, <1>23, <1>24
  DEF Next, VisitorStep, AdminStep, MailStep

\* No row asks for mail to an address that turned it off, as long as the address
\* does not subscribe again and no editor says so.
THEOREM OffIsOff == Spec => []OffStaysOff
<1>1. Init => OffStaysOff
  BY DEF Init, history, OffStaysOff
<1> QED
  BY <1>1, InitTypeInv, StepTypeInv, StepOff, PTL DEF Spec

(***************************************************************************)
(* The sidebar.                                                            *)
(***************************************************************************)

LEMMA StepSidebar ==
    TypeInv /\ BornInv /\ SidebarIsHonest /\ [Next]_vars => SidebarIsHonest'
<1> SUFFICES ASSUME TypeInv /\ BornInv, SidebarIsHonest, [Next]_vars PROVE SidebarIsHonest'
  OBVIOUS
<1> USE DEF sidebar, mails, history
<1>0. TypeOK
  BY DEF TypeInv
<1>1. ASSUME NEW w \in Workers, NEW c \in Comments, NEW a \in Addresses, NEW s \in BOOLEAN,
             NEW k \in {"post", "author", "sub"}, Post(w, c, a, s, k) PROVE SidebarIsHonest'
  BY <1>0, <1>1
  DEF Post, Begin, Idle, SidebarIsHonest, Visible, Public, Stored, Flushing, HalfSaved, TypeOK
<1>2. ASSUME NEW w \in Workers, Insert(w) PROVE SidebarIsHonest'
  <2>1. PICK v \in Row : Store(job[w].id, v)
    BY <1>2, InsertAt
  <2>2. /\ life' = [life EXCEPT ![job[w].id] = "stored"] /\ job[w].id \in Comments
        /\ job[w].pc = "insert" /\ \A x \in Workers \ {w} : job'[x] = job[x]
        /\ UNCHANGED <<entry, shown, killed, missed>>
    BY <1>2, InsertAt DEF Insert
  <2>3. job[w].id \notin shown
    BY <2>2 DEF BornInv, InsertUnborn, UnbornUnseen
  <2>4. \A d \in shown : life'[d] = life[d] /\ row'[d] = row[d]
    BY <1>0, <2>1, <2>2, <2>3 DEF Store, TypeOK
  <2>5. \A x \in Workers : job[x].pc \in {"attach", "flush"} => job'[x] = job[x]
    BY <2>2
  <2> QED
    BY <1>0, <2>2, <2>4, <2>5
    DEF SidebarIsHonest, Visible, Public, Stored, Flushing, HalfSaved, TypeOK
<1>3. ASSUME NEW w \in Workers, Clear(w) PROVE SidebarIsHonest'
  BY <1>0, <1>3
  DEF Clear, Goto, TurnOff, SidebarIsHonest, Visible, Public, Stored, Flushing, HalfSaved, TypeOK
<1>4. ASSUME NEW w \in Workers, ClearFail(w) PROVE SidebarIsHonest'
  BY <1>0, <1>4
  DEF ClearFail, Goto, SidebarIsHonest, Visible, Public, Stored, Flushing, HalfSaved, TypeOK
<1>5. ASSUME NEW w \in Workers, Notify(w) PROVE SidebarIsHonest'
  BY <1>0, <1>5, CommentsAssumption
  DEF Notify, Done, Idle, SidebarIsHonest, Visible, Public, Stored, Flushing, HalfSaved, TypeOK
<1>6. ASSUME NEW w \in Workers, NEW a \in Addresses, Send(w, a) PROVE SidebarIsHonest'
  BY <1>0, <1>6, CommentsAssumption
  DEF Send, Done, Idle, SidebarIsHonest, Visible, Public, Stored, Flushing, HalfSaved, TypeOK
<1>7. ASSUME NEW c \in Comments, Kill(c) PROVE SidebarIsHonest'
  BY <1>0, <1>7 DEF Kill, SidebarIsHonest, Visible, Public, Stored, Flushing, HalfSaved, TypeOK
<1>8. ASSUME NEW c \in Comments, ApproveByLink(c) PROVE SidebarIsHonest'
  BY <1>0, <1>8
  DEF ApproveByLink, MarkModerated, SidebarIsHonest, Visible, Public, Stored, Flushing, HalfSaved, TypeOK
<1>9. ASSUME NEW w \in Workers, NEW a \in Addresses, NEW c \in Comments, OpenUnsubscribe(w, a, c)
      PROVE SidebarIsHonest'
  BY <1>0, <1>9
  DEF OpenUnsubscribe, Begin, Idle, SidebarIsHonest, Visible, Public, Stored, Flushing, HalfSaved, TypeOK
<1>10. ASSUME NEW w \in Workers, Unsubscribe(w) PROVE SidebarIsHonest'
  BY <1>0, <1>10, CommentsAssumption
  DEF Unsubscribe, Done, Idle, TurnOff, SidebarIsHonest, Visible, Public, Stored, Flushing, HalfSaved, TypeOK
<1>11. ASSUME NEW w \in Workers, NEW c \in Comments, OpenApprove(w, c)
       PROVE SidebarIsHonest'
  BY <1>0, <1>11
  DEF OpenApprove, Begin, Idle, SidebarIsHonest, Visible, Public, Stored, Flushing, HalfSaved, TypeOK
<1>12. ASSUME NEW w \in Workers, Approve(w) PROVE SidebarIsHonest'
  BY <1>0, <1>12
  DEF Approve, Goto, MarkModerated, SidebarIsHonest, Visible, Public, Stored, Flushing, HalfSaved, TypeOK
<1>13. ASSUME NEW w \in Workers, Lookup(w) PROVE SidebarIsHonest'
  BY <1>0, <1>13, CommentsAssumption
  DEF Lookup, Done, Goto, Idle, SidebarIsHonest, Visible, Public, Stored, Flushing, HalfSaved, TypeOK
<1>14. ASSUME NEW w \in Workers, NEW c \in Comments, OpenSave(w, c) PROVE SidebarIsHonest'
  BY <1>0, <1>14
  DEF OpenSave, Begin, Idle, SidebarIsHonest, Visible, Public, Stored, Flushing, HalfSaved, TypeOK
<1>15. ASSUME NEW w \in Workers, Save(w) PROVE SidebarIsHonest'
  BY <1>0, <1>15
  DEF Save, Goto, Store, SidebarIsHonest, Visible, Public, Stored, Flushing, HalfSaved, TypeOK
<1>16. ASSUME NEW w \in Workers, NEW c \in Comments, DeleteMarked(w, c)
       PROVE SidebarIsHonest'
  BY <1>0, <1>16
  DEF DeleteMarked, Begin, Idle, SidebarIsHonest, Visible, Public, Stored, Flushing, HalfSaved, TypeOK
<1>17. ASSUME NEW w \in Workers, NEW e \in {"live", "hidden", "gone"}, ChangeEntry(w, e)
       PROVE SidebarIsHonest'
  BY <1>0, <1>17
  DEF ChangeEntry, Begin, Idle, SidebarIsHonest, Visible, Public, Stored, Flushing, HalfSaved, TypeOK
<1>18. ASSUME NEW w \in Workers, ChangeSetting(w) PROVE SidebarIsHonest'
  BY <1>0, <1>18
  DEF ChangeSetting, Begin, Idle, SidebarIsHonest, Visible, Public, Stored, Flushing, HalfSaved, TypeOK
<1>24. ASSUME NEW w \in Workers, Attach(w) PROVE SidebarIsHonest'
  BY <1>0, <1>24
  DEF Attach, Goto, SidebarIsHonest, Visible, Public, Stored, Flushing, HalfSaved, TypeOK
<1>19. ASSUME NEW w \in Workers, Flush(w) PROVE SidebarIsHonest'
  BY <1>0, <1>19, CommentsAssumption
  DEF Flush, Done, Goto, Idle, SidebarIsHonest, Visible, Public, Stored, Flushing, HalfSaved, TypeOK
<1>20. ASSUME NEW w \in Workers, Abandon(w) PROVE SidebarIsHonest'
  BY <1>0, <1>20, CommentsAssumption
  DEF Abandon, Done, Idle, SidebarIsHonest, Visible, Public, Stored, Flushing, HalfSaved, TypeOK
<1>21. CASE FillSidebar
  BY <1>0, <1>21
  DEF FillSidebar, SidebarIsHonest, Visible, Public, Stored, Flushing, HalfSaved, TypeOK
<1>22. CASE Crash
  BY <1>0, <1>22, CommentsAssumption
  DEF Crash, Idle, SidebarIsHonest, Visible, Public, Stored, Flushing, HalfSaved, TypeOK
<1>23. CASE UNCHANGED vars
  BY <1>0, <1>23 DEF vars, SidebarIsHonest, Visible, Public, Stored, Flushing, HalfSaved, TypeOK
<1> QED
  BY <1>1, <1>2, <1>3, <1>4, <1>5, <1>6, <1>7, <1>8, <1>9, <1>10, <1>11,
     <1>12, <1>13, <1>14, <1>15, <1>16, <1>17, <1>18, <1>19, <1>20, <1>21, <1>22, <1>23, <1>24
  DEF Next, VisitorStep, AdminStep, MailStep

\* The cached sidebar shows nothing that is deleted, held or of a hidden entry
\* beyond the request that made it so, the mailed Delete link excepted.
THEOREM SidebarTellsTheTruth == Spec => []SidebarIsHonest
<1>1. Init => SidebarIsHonest
  BY DEF Init, SidebarIsHonest
<1> QED
  BY <1>1, InitTypeInv, StepTypeInv, InitBornInv, StepBornInv, StepSidebar, PTL DEF Spec

(***************************************************************************)
(* Comments that are held.                                                 *)
(***************************************************************************)

\* A row that is moderated has been stored as such.
ApprovedRows == \A c \in Comments : row[c].moderated => c \in approved

\* Whoever is about to tell the thread works on a comment that was approved.
ApprovedJobs ==
    \A w \in Workers :
        /\ job[w].kind = "approve" /\ job[w].pc # "approve" => job[w].id \in approved
        /\ job[w].kind # "approve" /\ job[w].pc \in {"clear", "notify"} /\ job[w].copy.moderated
              => job[w].id \in approved
        /\ job[w].pc = "mail" /\ job[w].todo \ {Owner} # {} => job[w].id \in approved
        /\ job[w].pc = "lookup" => job[w].kind = "approve"

HeldInv == ApprovedRows /\ ApprovedJobs /\ HeldStaysPrivate

LEMMA StepHeld ==
    TypeInv /\ HeldInv /\ [Next]_vars => HeldInv'
<1> SUFFICES ASSUME TypeInv, HeldInv, [Next]_vars PROVE HeldInv'
  OBVIOUS
<1> USE DEF sidebar, mails, history
<1>0. TypeOK
  BY DEF TypeInv
<1>1. ASSUME NEW w \in Workers, NEW c \in Comments, NEW a \in Addresses, NEW s \in BOOLEAN,
             NEW k \in {"post", "author", "sub"}, Post(w, c, a, s, k) PROVE HeldInv'
  BY <1>0, <1>1
  DEF Post, Begin, Idle, HeldInv, ApprovedRows, ApprovedJobs, HeldStaysPrivate, TypeOK
<1>2. ASSUME NEW w \in Workers, Insert(w) PROVE HeldInv'
  <2>1. PICK v \in Row :
           /\ Store(job[w].id, v)
           /\ \/ Done(w)
              \/ /\ job'[w].pc \in {"notify", "clear"} /\ job'[w].kind = job[w].kind
                 /\ job'[w].id = job[w].id /\ job'[w].copy = v
    BY <1>2, InsertAt
  <2>2. /\ job[w].id \in Comments /\ job[w].pc = "insert"
        /\ \A x \in Workers \ {w} : job'[x] = job[x]
        /\ UNCHANGED <<shown, told>>
    BY <1>2, InsertAt DEF Insert
  <2>3. row' = [row EXCEPT ![job[w].id] = v]
        /\ approved' = IF v.moderated THEN approved \union {job[w].id} ELSE approved
    BY <2>1 DEF Store
  <2>4. ApprovedRows' /\ HeldStaysPrivate'
    BY <1>0, <2>2, <2>3 DEF HeldInv, ApprovedRows, HeldStaysPrivate, TypeOK
  <2>5. ApprovedJobs'
    BY <2>1, <2>2, <2>3, DoneAt DEF HeldInv, ApprovedJobs
  <2> QED
    BY <2>4, <2>5 DEF HeldInv
<1>3. ASSUME NEW w \in Workers, Clear(w) PROVE HeldInv'
  BY <1>0, <1>3
  DEF Clear, Goto, TurnOff, Stored, HeldInv, ApprovedRows, ApprovedJobs, HeldStaysPrivate, TypeOK
<1>4. ASSUME NEW w \in Workers, ClearFail(w) PROVE HeldInv'
  BY <1>0, <1>4
  DEF ClearFail, Goto, HeldInv, ApprovedRows, ApprovedJobs, HeldStaysPrivate, TypeOK
<1>5. ASSUME NEW w \in Workers, Notify(w) PROVE HeldInv'
  <2>1. /\ \A x \in Workers \ {w} : job'[x] = job[x]
        /\ \/ Done(w)
           \/ /\ job'[w].pc = "mail" /\ job'[w].kind = job[w].kind /\ job'[w].id = job[w].id
              /\ job'[w].todo = Recipients(w)
    BY <1>5, NotifyAt
  <2>2. Recipients(w) \ {Owner} # {} => job[w].kind = "approve" \/ job[w].copy.moderated
    BY DEF Recipients
  <2>3. job[w].pc = "notify" /\ UNCHANGED <<row, shown, told, approved>>
    BY <1>5 DEF Notify
  <2>4. ApprovedJobs'
    BY <2>1, <2>2, <2>3, DoneAt DEF HeldInv, ApprovedJobs
  <2> QED
    BY <2>3, <2>4 DEF HeldInv, ApprovedRows, HeldStaysPrivate
<1>6. ASSUME NEW w \in Workers, NEW a \in Addresses, Send(w, a) PROVE HeldInv'
  <2>1. /\ job[w].id \in Comments /\ job[w].pc = "mail" /\ a \in job[w].todo
        /\ \A x \in Workers \ {w} : job'[x] = job[x]
        /\ \/ Done(w)
           \/ /\ job'[w].pc = "mail" /\ job'[w].kind = job[w].kind /\ job'[w].id = job[w].id
              /\ job'[w].todo = job[w].todo \ {a}
    BY <1>6, SendAt
  <2>2. UNCHANGED <<row, shown, approved>> /\ told' = [told EXCEPT ![job[w].id][a] = @ + 1]
    BY <1>6 DEF Send
  <2>3. ApprovedJobs'
    BY <2>1, <2>2, DoneAt DEF HeldInv, ApprovedJobs
  <2>4. a # Owner => job[w].id \in approved
    BY <2>1 DEF HeldInv, ApprovedJobs
  <2>5. HeldStaysPrivate'
    BY <1>0, <2>1, <2>2, <2>4 DEF HeldInv, HeldStaysPrivate, TypeOK
  <2> QED
    BY <2>2, <2>3, <2>5 DEF HeldInv, ApprovedRows
<1>7. ASSUME NEW c \in Comments, Kill(c) PROVE HeldInv'
  BY <1>0, <1>7
  DEF Kill, Stored, HeldInv, ApprovedRows, ApprovedJobs, HeldStaysPrivate, TypeOK
<1>8. ASSUME NEW c \in Comments, ApproveByLink(c) PROVE HeldInv'
  BY <1>0, <1>8
  DEF ApproveByLink, MarkModerated, Stored, HeldInv, ApprovedRows, ApprovedJobs, HeldStaysPrivate, TypeOK
<1>9. ASSUME NEW w \in Workers, NEW a \in Addresses, NEW c \in Comments, OpenUnsubscribe(w, a, c)
      PROVE HeldInv'
  BY <1>0, <1>9
  DEF OpenUnsubscribe, Begin, Idle, Stored, HeldInv, ApprovedRows, ApprovedJobs, HeldStaysPrivate, TypeOK
<1>10. ASSUME NEW w \in Workers, Unsubscribe(w) PROVE HeldInv'
  BY <1>0, <1>10, CommentsAssumption
  DEF Unsubscribe, Done, Idle, TurnOff, Stored, HeldInv, ApprovedRows, ApprovedJobs, HeldStaysPrivate, TypeOK
<1>11. ASSUME NEW w \in Workers, NEW c \in Comments, OpenApprove(w, c) PROVE HeldInv'
  BY <1>0, <1>11
  DEF OpenApprove, Begin, Idle, Stored, HeldInv, ApprovedRows, ApprovedJobs, HeldStaysPrivate, TypeOK
<1>12. ASSUME NEW w \in Workers, Approve(w) PROVE HeldInv'
  BY <1>0, <1>12
  DEF Approve, Goto, MarkModerated, Stored, HeldInv, ApprovedRows, ApprovedJobs, HeldStaysPrivate, TypeOK
<1>13. ASSUME NEW w \in Workers, Lookup(w) PROVE HeldInv'
  <2>1. job[w].pc = "lookup" /\ UNCHANGED <<row, shown, told, approved>>
    BY <1>13 DEF Lookup
  <2>2. CASE Done(w)
    BY <2>1, <2>2, DoneAt DEF HeldInv, ApprovedRows, ApprovedJobs, HeldStaysPrivate
  <2>3. CASE Goto(w, "notify")
    BY <2>1, <2>3, GotoAt DEF Phases, HeldInv, ApprovedRows, ApprovedJobs, HeldStaysPrivate
  <2> QED
    BY <1>13, <2>2, <2>3 DEF Lookup
<1>14. ASSUME NEW w \in Workers, NEW c \in Comments, OpenSave(w, c) PROVE HeldInv'
  BY <1>0, <1>14
  DEF OpenSave, Begin, Idle, Stored, HeldInv, ApprovedRows, ApprovedJobs, HeldStaysPrivate, TypeOK
<1>15. ASSUME NEW w \in Workers, Save(w) PROVE HeldInv'
  BY <1>0, <1>15
  DEF Save, Goto, Store, Stored, HeldInv, ApprovedRows, ApprovedJobs, HeldStaysPrivate, TypeOK
<1>16. ASSUME NEW w \in Workers, NEW c \in Comments, DeleteMarked(w, c) PROVE HeldInv'
  BY <1>0, <1>16
  DEF DeleteMarked, Begin, Idle, Stored, HeldInv, ApprovedRows, ApprovedJobs, HeldStaysPrivate, TypeOK
<1>17. ASSUME NEW w \in Workers, NEW e \in {"live", "hidden", "gone"}, ChangeEntry(w, e)
       PROVE HeldInv'
  BY <1>0, <1>17
  DEF ChangeEntry, Begin, Idle, Stored, HeldInv, ApprovedRows, ApprovedJobs, HeldStaysPrivate, TypeOK
<1>18. ASSUME NEW w \in Workers, ChangeSetting(w) PROVE HeldInv'
  BY <1>0, <1>18
  DEF ChangeSetting, Begin, Idle, HeldInv, ApprovedRows, ApprovedJobs, HeldStaysPrivate, TypeOK
<1>24. ASSUME NEW w \in Workers, Attach(w) PROVE HeldInv'
  BY <1>0, <1>24 DEF Attach, Goto, HeldInv, ApprovedRows, ApprovedJobs, HeldStaysPrivate, TypeOK
<1>19. ASSUME NEW w \in Workers, Flush(w) PROVE HeldInv'
  <2>1. job[w].pc = "flush" /\ shown' = {} /\ UNCHANGED <<row, told, approved>>
    BY <1>19 DEF Flush
  <2>2. CASE Done(w)
    BY <2>1, <2>2, DoneAt DEF HeldInv, ApprovedRows, ApprovedJobs, HeldStaysPrivate
  <2>3. CASE job[w].kind = "approve" /\ Goto(w, "lookup")
    BY <2>1, <2>3, GotoAt DEF Phases, HeldInv, ApprovedRows, ApprovedJobs, HeldStaysPrivate
  <2> QED
    BY <1>19, <2>2, <2>3 DEF Flush
<1>20. ASSUME NEW w \in Workers, Abandon(w) PROVE HeldInv'
  BY <1>0, <1>20, CommentsAssumption
  DEF Abandon, Done, Idle, HeldInv, ApprovedRows, ApprovedJobs, HeldStaysPrivate, TypeOK
<1>21. CASE FillSidebar
  BY <1>0, <1>21
  DEF FillSidebar, Visible, Public, Stored, HeldInv, ApprovedRows, ApprovedJobs, HeldStaysPrivate, TypeOK
<1>22. CASE Crash
  BY <1>0, <1>22, CommentsAssumption
  DEF Crash, Idle, HeldInv, ApprovedRows, ApprovedJobs, HeldStaysPrivate, TypeOK
<1>23. CASE UNCHANGED vars
  BY <1>0, <1>23 DEF vars, HeldInv, ApprovedRows, ApprovedJobs, HeldStaysPrivate, TypeOK
<1> QED
  BY <1>1, <1>2, <1>3, <1>4, <1>5, <1>6, <1>7, <1>8, <1>9, <1>10, <1>11,
     <1>12, <1>13, <1>14, <1>15, <1>16, <1>17, <1>18, <1>19, <1>20, <1>21, <1>22, <1>23, <1>24
  DEF Next, VisitorStep, AdminStep, MailStep

\* A comment that was never stored as moderated is mailed to nobody but the
\* owner and is on no sidebar.
THEOREM HeldIsPrivate == Spec => []HeldStaysPrivate
<1>1. Init => HeldInv
  BY DEF Init, HeldInv, ApprovedRows, ApprovedJobs, HeldStaysPrivate, Blank, Idle
<1>2. HeldInv => HeldStaysPrivate
  BY DEF HeldInv
<1> QED
  BY <1>1, <1>2, InitTypeInv, StepTypeInv, StepHeld, PTL DEF Spec

(***************************************************************************)
(* Unsubscribe links.                                                      *)
(***************************************************************************)

\* A link for address a may name comment c.
GoodLink(a, c) == life[c] # "unborn" /\ (c \in edited \/ row[c].email = a)

MailedLinks == \A a \in Addresses, c \in Comments : <<a, c>> \in links => GoodLink(a, c)

LinksToMail ==
    \A w \in Workers : job[w].pc = "mail" =>
        \A a \in job[w].todo \ {Owner} : GoodLink(a, job[w].link[a])

LinksInv == MailedLinks /\ LinksToMail

LEMMA StepLinks ==
    TypeInv /\ BornInv /\ LinksInv /\ [Next]_vars => LinksInv'
<1> SUFFICES ASSUME TypeInv /\ BornInv, LinksInv, [Next]_vars PROVE LinksInv'
  OBVIOUS
<1> USE DEF sidebar, mails, history
<1>0. TypeOK
  BY DEF TypeInv
<1>1. ASSUME NEW w \in Workers, NEW c \in Comments, NEW a \in Addresses, NEW s \in BOOLEAN,
             NEW k \in {"post", "author", "sub"}, Post(w, c, a, s, k) PROVE LinksInv'
  BY <1>0, <1>1 DEF Post, Begin, Idle, LinksInv, MailedLinks, LinksToMail, GoodLink, TypeOK
<1>2. ASSUME NEW w \in Workers, Insert(w) PROVE LinksInv'
  <2>1. PICK v \in Row : Store(job[w].id, v)
    BY <1>2, InsertAt
  <2>2. /\ job'[w].pc # "mail" /\ \A x \in Workers \ {w} : job'[x] = job[x]
        /\ job[w].id \in Comments /\ life[job[w].id] = "unborn"
        /\ life' = [life EXCEPT ![job[w].id] = "stored"] /\ UNCHANGED <<links, edited>>
    BY <1>2, InsertAt, DoneAt DEF Insert, BornInv, InsertUnborn
  <2>3. \A a \in Addresses, c \in Comments : GoodLink(a, c) => GoodLink(a, c)'
    BY <1>0, <2>1, <2>2 DEF Store, GoodLink, TypeOK
  <2>4. MailedLinks'
    BY <2>2, <2>3 DEF LinksInv, MailedLinks
  <2>5. LinksToMail'
    BY <2>2, <2>3, JobsGood DEF LinksInv, LinksToMail, GoodJob, Job
  <2> QED
    BY <2>4, <2>5 DEF LinksInv
<1>3. ASSUME NEW w \in Workers, Clear(w) PROVE LinksInv'
  <2>1. /\ job'[w].pc # "mail" /\ \A x \in Workers \ {w} : job'[x] = job[x]
        /\ UNCHANGED <<life, links, edited>>
    BY <1>0, <1>3 DEF Clear, Goto, TypeOK
  <2>2. \A a \in Addresses, c \in Comments : GoodLink(a, c) => GoodLink(a, c)'
    BY <1>0, <1>3, <2>1 DEF Clear, TurnOff, GoodLink, TypeOK, Row
  <2>3. MailedLinks'
    BY <2>1, <2>2 DEF LinksInv, MailedLinks
  <2>4. LinksToMail'
    BY <2>1, <2>2, JobsGood DEF LinksInv, LinksToMail, GoodJob, Job
  <2> QED
    BY <2>3, <2>4 DEF LinksInv
<1>4. ASSUME NEW w \in Workers, ClearFail(w) PROVE LinksInv'
  BY <1>0, <1>4 DEF ClearFail, Goto, LinksInv, MailedLinks, LinksToMail, GoodLink, TypeOK
<1>5. ASSUME NEW w \in Workers, Notify(w) PROVE LinksInv'
  <2>1. /\ \A x \in Workers \ {w} : job'[x] = job[x]
        /\ \/ Done(w)
           \/ job'[w].pc = "mail" /\ job'[w].todo = Recipients(w) /\ Named(job'[w].link)
    BY <1>5, NotifyAt
  <2>2. UNCHANGED <<life, row, links, edited>>
    BY <1>5 DEF Notify
  <2>3. Named(job'[w].link) => \A a \in Recipients(w) \ {Owner} : GoodLink(a, job'[w].link[a])
    BY DEF Named, Recipients, Thread, Subscribed, Stored, GoodLink
  <2>4. LinksToMail'
    BY <2>1, <2>2, <2>3, DoneAt DEF LinksInv, LinksToMail, GoodLink
  <2> QED
    BY <2>2, <2>4 DEF LinksInv, MailedLinks, GoodLink
<1>6. ASSUME NEW w \in Workers, NEW a \in Addresses, Send(w, a) PROVE LinksInv'
  <2>1. /\ job[w].pc = "mail" /\ a \in job[w].todo
        /\ \A x \in Workers \ {w} : job'[x] = job[x]
        /\ \/ Done(w)
           \/ /\ job'[w].pc = "mail" /\ job'[w].todo = job[w].todo \ {a}
              /\ job'[w].link = job[w].link
    BY <1>6, SendAt
  <2>2. /\ UNCHANGED <<life, row, edited>>
        /\ links' = IF a = Owner THEN links ELSE links \union {<<a, job[w].link[a]>>}
    BY <1>6 DEF Send
  <2>3. LinksToMail'
    BY <2>1, <2>2, DoneAt DEF LinksInv, LinksToMail, GoodLink
  <2>4. a # Owner => GoodLink(a, job[w].link[a])
    BY <2>1 DEF LinksInv, LinksToMail
  <2>5. MailedLinks'
    BY <2>2, <2>4 DEF LinksInv, MailedLinks, GoodLink
  <2> QED
    BY <2>3, <2>5 DEF LinksInv
<1>7. ASSUME NEW c \in Comments, Kill(c) PROVE LinksInv'
  BY <1>0, <1>7 DEF Kill, Stored, LinksInv, MailedLinks, LinksToMail, GoodLink, TypeOK
<1>8. ASSUME NEW c \in Comments, ApproveByLink(c) PROVE LinksInv'
  BY <1>0, <1>8
  DEF ApproveByLink, MarkModerated, Stored, LinksInv, MailedLinks, LinksToMail, GoodLink, TypeOK
<1>9. ASSUME NEW w \in Workers, NEW a \in Addresses, NEW c \in Comments, OpenUnsubscribe(w, a, c)
      PROVE LinksInv'
  BY <1>0, <1>9
  DEF OpenUnsubscribe, Begin, Idle, Stored, LinksInv, MailedLinks, LinksToMail, GoodLink, TypeOK
<1>10. ASSUME NEW w \in Workers, Unsubscribe(w) PROVE LinksInv'
  <2>1. /\ job'[w].pc # "mail" /\ \A x \in Workers \ {w} : job'[x] = job[x]
        /\ UNCHANGED <<life, links, edited>>
    BY <1>0, <1>10 DEF Unsubscribe, Done, Idle, TypeOK
  <2>2. \A a \in Addresses, c \in Comments : GoodLink(a, c) => GoodLink(a, c)'
    BY <1>0, <1>10, <2>1 DEF Unsubscribe, TurnOff, GoodLink, TypeOK, Row
  <2>3. MailedLinks'
    BY <2>1, <2>2 DEF LinksInv, MailedLinks
  <2>4. LinksToMail'
    BY <2>1, <2>2, JobsGood DEF LinksInv, LinksToMail, GoodJob, Job
  <2> QED
    BY <2>3, <2>4 DEF LinksInv
<1>11. ASSUME NEW w \in Workers, NEW c \in Comments, OpenApprove(w, c) PROVE LinksInv'
  BY <1>0, <1>11
  DEF OpenApprove, Begin, Idle, Stored, LinksInv, MailedLinks, LinksToMail, GoodLink, TypeOK
<1>12. ASSUME NEW w \in Workers, Approve(w) PROVE LinksInv'
  BY <1>0, <1>12
  DEF Approve, Goto, MarkModerated, Stored, LinksInv, MailedLinks, LinksToMail, GoodLink, TypeOK
<1>13. ASSUME NEW w \in Workers, Lookup(w) PROVE LinksInv'
  <2>1. /\ job'[w].pc # "mail" /\ \A x \in Workers \ {w} : job'[x] = job[x]
        /\ UNCHANGED <<life, row, links, edited>>
    BY <1>13, DoneAt, GotoAt DEF Lookup, Phases
  <2> QED
    BY <2>1 DEF LinksInv, MailedLinks, LinksToMail, GoodLink
<1>14. ASSUME NEW w \in Workers, NEW c \in Comments, OpenSave(w, c) PROVE LinksInv'
  BY <1>0, <1>14
  DEF OpenSave, Begin, Idle, Stored, LinksInv, MailedLinks, LinksToMail, GoodLink, TypeOK
<1>15. ASSUME NEW w \in Workers, Save(w) PROVE LinksInv'
  BY <1>0, <1>15
  DEF Save, Goto, Store, Stored, LinksInv, MailedLinks, LinksToMail, GoodLink, TypeOK
<1>16. ASSUME NEW w \in Workers, NEW c \in Comments, DeleteMarked(w, c) PROVE LinksInv'
  BY <1>0, <1>16
  DEF DeleteMarked, Begin, Idle, Stored, LinksInv, MailedLinks, LinksToMail, GoodLink, TypeOK
<1>17. ASSUME NEW w \in Workers, NEW e \in {"live", "hidden", "gone"}, ChangeEntry(w, e)
       PROVE LinksInv'
  <2>1. /\ job'[w].pc # "mail" /\ \A x \in Workers \ {w} : job'[x] = job[x]
        /\ UNCHANGED <<row, links, edited>>
    BY <1>0, <1>17 DEF ChangeEntry, Begin, Idle, TypeOK
  <2>2. \A c \in Comments : life[c] # "unborn" => life'[c] # "unborn"
    BY <1>0, <1>17 DEF ChangeEntry, TypeOK
  <2>3. MailedLinks'
    BY <2>1, <2>2 DEF LinksInv, MailedLinks, GoodLink
  <2>4. LinksToMail'
    BY <2>1, <2>2, JobsGood DEF LinksInv, LinksToMail, GoodLink, GoodJob, Job
  <2> QED
    BY <2>3, <2>4 DEF LinksInv
<1>18. ASSUME NEW w \in Workers, ChangeSetting(w) PROVE LinksInv'
  BY <1>0, <1>18
  DEF ChangeSetting, Begin, Idle, LinksInv, MailedLinks, LinksToMail, GoodLink, TypeOK
<1>24. ASSUME NEW w \in Workers, Attach(w) PROVE LinksInv'
  BY <1>0, <1>24 DEF Attach, Goto, LinksInv, MailedLinks, LinksToMail, GoodLink, TypeOK
<1>19. ASSUME NEW w \in Workers, Flush(w) PROVE LinksInv'
  <2>1. /\ job'[w].pc # "mail" /\ \A x \in Workers \ {w} : job'[x] = job[x]
        /\ UNCHANGED <<life, row, links, edited>>
    BY <1>19, DoneAt, GotoAt DEF Flush, Phases
  <2> QED
    BY <2>1 DEF LinksInv, MailedLinks, LinksToMail, GoodLink
<1>20. ASSUME NEW w \in Workers, Abandon(w) PROVE LinksInv'
  BY <1>0, <1>20, CommentsAssumption
  DEF Abandon, Done, Idle, LinksInv, MailedLinks, LinksToMail, GoodLink, TypeOK
<1>21. CASE FillSidebar
  BY <1>0, <1>21
  DEF FillSidebar, Visible, Public, Stored, LinksInv, MailedLinks, LinksToMail, GoodLink, TypeOK
<1>22. CASE Crash
  BY <1>0, <1>22, CommentsAssumption
  DEF Crash, Idle, LinksInv, MailedLinks, LinksToMail, GoodLink, TypeOK
<1>23. CASE UNCHANGED vars
  BY <1>0, <1>23 DEF vars, LinksInv, MailedLinks, LinksToMail, GoodLink, TypeOK
<1> QED
  BY <1>1, <1>2, <1>3, <1>4, <1>5, <1>6, <1>7, <1>8, <1>9, <1>10, <1>11,
     <1>12, <1>13, <1>14, <1>15, <1>16, <1>17, <1>18, <1>19, <1>20, <1>21, <1>22, <1>23, <1>24
  DEF Next, VisitorStep, AdminStep, MailStep

\* An unsubscribe link names a comment of the address it was mailed to, unless
\* an editor has changed that comment since.
THEOREM LinksAreGood == Spec => []LinksMatch
<1>1. Init => LinksInv
  BY DEF Init, LinksInv, MailedLinks, LinksToMail, Idle
<1>2. TypeInv /\ LinksInv => LinksMatch
  BY DEF TypeInv, TypeOK, LinksInv, MailedLinks, GoodLink, LinksMatch
<1> QED
  BY <1>1, <1>2, InitTypeInv, StepTypeInv, InitBornInv, StepBornInv, StepLinks, PTL DEF Spec

(***************************************************************************)
(* The thread is told once.                                                *)
(***************************************************************************)

\* Request w is on its way to telling the thread of comment c.
Telling(w, c) ==
    /\ job[w].id = c
    /\ \/ job[w].kind = "approve" /\ job[w].pc \in {"flush", "lookup", "notify"}
       \/ job[w].kind # "approve" /\ job[w].pc \in {"clear", "notify"} /\ job[w].copy.moderated
       \/ job[w].pc = "mail" /\ job[w].todo \ {Owner} # {}

\* Posts and approvals take ways of their own.
PostKinds ==
    \A w \in Workers :
        /\ job[w].pc \in {"insert", "clear", "attach"} => job[w].kind # "approve"
        /\ job[w].pc = "lookup" => job[w].kind = "approve"

\* One request tells the thread of a moderated comment, and nobody twice.
ToldOnce(c) ==
    /\ \A w \in Workers : Telling(w, c) =>
          /\ row[c].moderated
          /\ \A x \in Workers : Telling(x, c) => x = w
          /\ \A a \in Addresses \ {Owner} : (job[w].pc = "mail" => a \in job[w].todo) => told[c][a] = 0
    /\ \A a \in Addresses \ {Owner} : told[c][a] <= 1 /\ (told[c][a] > 0 => row[c].moderated)

ThreadInv == PostKinds /\ \A c \in Comments \ (again \union edited) : ToldOnce(c)

LEMMA StepThread ==
    TypeInv /\ BornInv /\ ThreadInv /\ [Next]_vars => ThreadInv'
<1> SUFFICES ASSUME TypeInv /\ BornInv, ThreadInv, [Next]_vars PROVE ThreadInv'
  OBVIOUS
<1> USE DEF sidebar, mails, history
<1>0. TypeOK
  BY DEF TypeInv
<1>1. ASSUME NEW w \in Workers, NEW c \in Comments, NEW a \in Addresses, NEW s \in BOOLEAN,
             NEW k \in {"post", "author", "sub"}, Post(w, c, a, s, k) PROVE ThreadInv'
  BY <1>0, <1>1 DEF Post, Begin, Idle, ThreadInv, PostKinds, ToldOnce, Telling, TypeOK
<1>2. ASSUME NEW w \in Workers, Insert(w) PROVE ThreadInv'
  <2>0. PICK c \in Comments : c = job[w].id
    BY <1>2, InsertAt
  <2>1. PICK v \in Row :
           /\ Store(c, v)
           /\ \/ Done(w)
              \/ /\ job'[w].pc \in {"notify", "clear"} /\ job'[w].kind = job[w].kind
                 /\ job'[w].id = c /\ job'[w].copy = v
    BY <1>2, <2>0, InsertAt
  <2>2. /\ c \in Comments /\ job[w].pc = "insert" /\ ~row[c].moderated /\ job[w].kind # "approve"
        /\ \A x \in Workers \ {w} : job'[x] = job[x]
        /\ UNCHANGED <<told, again, edited>>
    BY <1>2, <2>0, InsertAt
    DEF Insert, BornInv, InsertUnborn, UnbornUnseen, ThreadInv, PostKinds
  <2>3. row' = [row EXCEPT ![c] = v]
    BY <2>1 DEF Store
  <2>4. PostKinds'
    BY <2>1, <2>2, DoneAt DEF ThreadInv, PostKinds
  <2>5. \A x \in Workers \ {w}, d \in Comments : Telling(x, d)' = Telling(x, d)
    BY <2>2 DEF Telling
  <2>6. \A d \in Comments : Telling(w, d)' => d = c /\ v.moderated /\ job'[w].pc # "mail"
    BY <2>0, <2>1, <2>2, DoneAt DEF Telling
  <2>7. ASSUME NEW d \in Comments \ (again \union edited), d # c PROVE ToldOnce(d)'
    <3>1. ToldOnce(d) /\ row'[d] = row[d] /\ ~Telling(w, d)'
      BY <1>0, <2>3, <2>6, <2>7 DEF ThreadInv, TypeOK
    <3> QED
      BY <3>1, <2>2, <2>5 DEF ToldOnce
  <2>8. ASSUME c \notin again \union edited PROVE ToldOnce(c)'
    <3>1. /\ \A x \in Workers : ~Telling(x, c)
          /\ \A a \in Addresses \ {Owner} : told[c][a] = 0
      BY <1>0, <2>2, <2>8 DEF ThreadInv, ToldOnce, TypeOK
    <3>2. \A x \in Workers \ {w} : ~Telling(x, c)'
      BY <2>2, <2>5, <3>1
    <3>3. Telling(w, c)' => row'[c].moderated
      BY <1>0, <2>2, <2>3, <2>6 DEF TypeOK
    <3> QED
      BY <2>2, <3>1, <3>2, <3>3 DEF ToldOnce
  <2> QED
    BY <2>2, <2>4, <2>7, <2>8 DEF ThreadInv
<1>3. ASSUME NEW w \in Workers, Clear(w) PROVE ThreadInv'
  BY <1>0, <1>3
  DEF Clear, Goto, TurnOff, Stored, ThreadInv, PostKinds, ToldOnce, Telling, TypeOK
<1>4. ASSUME NEW w \in Workers, ClearFail(w) PROVE ThreadInv'
  BY <1>0, <1>4 DEF ClearFail, Goto, ThreadInv, PostKinds, ToldOnce, Telling, TypeOK
<1>5. ASSUME NEW w \in Workers, Notify(w) PROVE ThreadInv'
  <2>1. /\ \A x \in Workers \ {w} : job'[x] = job[x]
        /\ \/ Done(w)
           \/ /\ job'[w].pc = "mail" /\ job'[w].kind = job[w].kind /\ job'[w].id = job[w].id
              /\ job'[w].todo = Recipients(w)
    BY <1>5, NotifyAt
  <2>2. Recipients(w) \ {Owner} # {} => job[w].kind = "approve" \/ job[w].copy.moderated
    BY DEF Recipients
  <2>3. job[w].pc = "notify" /\ UNCHANGED <<row, told, again, edited>>
    BY <1>5 DEF Notify
  <2>4. \A x \in Workers, c \in Comments : Telling(x, c)' => Telling(x, c)
    BY <2>1, <2>2, <2>3, DoneAt DEF Telling
  <2>5. PostKinds'
    BY <2>1, DoneAt DEF ThreadInv, PostKinds
  <2>6. ASSUME NEW c \in Comments \ (again \union edited) PROVE ToldOnce(c)'
    BY <2>1, <2>3, <2>4 DEF ThreadInv, ToldOnce
  <2> QED
    BY <2>3, <2>5, <2>6 DEF ThreadInv
<1>6. ASSUME NEW w \in Workers, NEW a \in Addresses, Send(w, a) PROVE ThreadInv'
  <2>0. PICK c \in Comments : c = job[w].id
    BY <1>6, SendAt
  <2>1. /\ c \in Comments /\ job[w].pc = "mail" /\ a \in job[w].todo
        /\ \A x \in Workers \ {w} : job'[x] = job[x]
        /\ \/ Done(w)
           \/ /\ job'[w].pc = "mail" /\ job'[w].kind = job[w].kind /\ job'[w].id = c
              /\ job'[w].todo = job[w].todo \ {a}
    BY <1>6, <2>0, SendAt
  <2>2. told' = [told EXCEPT ![c][a] = @ + 1] /\ UNCHANGED <<row, again, edited>>
    BY <1>6, <2>0 DEF Send
  <2>3. \A x \in Workers, d \in Comments : Telling(x, d)' => Telling(x, d)
    BY <2>0, <2>1, DoneAt DEF Telling
  <2>4. PostKinds'
    BY <2>1, DoneAt DEF ThreadInv, PostKinds
  <2>5. ASSUME NEW d \in Comments \ (again \union edited),
               d # c \/ a = Owner
        PROVE  ToldOnce(d)'
    <3>1. ToldOnce(d) /\ \A b \in Addresses \ {Owner} : told'[d][b] = told[d][b]
      BY <1>0, <2>1, <2>2, <2>5 DEF ThreadInv, TypeOK
    <3>2. \A x \in Workers : Telling(x, d)' => job'[x].pc = job[x].pc /\ job'[x].todo \subseteq job[x].todo
      BY <2>1, DoneAt DEF Telling
    <3> QED
      BY <2>2, <2>3, <3>1, <3>2 DEF ToldOnce
  <2>6. ASSUME c \notin again \union edited, a # Owner PROVE ToldOnce(c)'
    <3>1. ToldOnce(c) /\ Telling(w, c)
      BY <2>0, <2>1, <2>6 DEF ThreadInv, Telling
    <3>2. told[c][a] = 0 /\ row[c].moderated /\ \A x \in Workers : Telling(x, c) => x = w
      BY <2>1, <2>6, <3>1 DEF ToldOnce
    <3>3. told'[c][a] = 1 /\ \A b \in Addresses \ {a} : told'[c][b] = told[c][b]
      BY <1>0, <2>1, <2>2, <3>2 DEF TypeOK
    <3>4. Telling(w, c)' => /\ job'[w].pc = "mail" /\ a \notin job'[w].todo
                            /\ job'[w].todo \subseteq job[w].todo
      BY <2>0, <2>1, DoneAt, CommentsAssumption DEF Telling
    <3> QED
      BY <2>1, <2>2, <2>3, <3>1, <3>2, <3>3, <3>4 DEF ToldOnce
  <2> QED
    BY <2>2, <2>4, <2>5, <2>6 DEF ThreadInv
<1>7. ASSUME NEW c \in Comments, Kill(c) PROVE ThreadInv'
  BY <1>0, <1>7 DEF Kill, Stored, ThreadInv, PostKinds, ToldOnce, Telling, TypeOK
<1>8. ASSUME NEW c \in Comments, ApproveByLink(c) PROVE ThreadInv'
  BY <1>0, <1>8
  DEF ApproveByLink, MarkModerated, Stored, ThreadInv, PostKinds, ToldOnce, Telling, TypeOK
<1>9. ASSUME NEW w \in Workers, NEW a \in Addresses, NEW c \in Comments, OpenUnsubscribe(w, a, c)
      PROVE ThreadInv'
  BY <1>0, <1>9
  DEF OpenUnsubscribe, Begin, Idle, Stored, ThreadInv, PostKinds, ToldOnce, Telling, TypeOK
<1>10. ASSUME NEW w \in Workers, Unsubscribe(w) PROVE ThreadInv'
  BY <1>0, <1>10, CommentsAssumption
  DEF Unsubscribe, Done, Idle, TurnOff, Stored, ThreadInv, PostKinds, ToldOnce, Telling, TypeOK
<1>11. ASSUME NEW w \in Workers, NEW c \in Comments, OpenApprove(w, c) PROVE ThreadInv'
  BY <1>0, <1>11
  DEF OpenApprove, Begin, Idle, Stored, ThreadInv, PostKinds, ToldOnce, Telling, TypeOK
<1>12. ASSUME NEW w \in Workers, Approve(w) PROVE ThreadInv'
  BY <1>0, <1>12
  DEF Approve, Goto, MarkModerated, Stored, ThreadInv, PostKinds, ToldOnce, Telling, TypeOK
<1>13. ASSUME NEW w \in Workers, Lookup(w) PROVE ThreadInv'
  <2>1. /\ job[w].pc = "lookup" /\ \A x \in Workers \ {w} : job'[x] = job[x]
        /\ \/ Done(w)
           \/ /\ job[w].kind = "approve" /\ job'[w].kind = "approve"
              /\ job'[w].pc = "notify" /\ job'[w].id = job[w].id
        /\ UNCHANGED <<row, told, again, edited>>
    BY <1>13, DoneAt, GotoAt DEF Lookup, Phases, ThreadInv, PostKinds
  <2>2. \A x \in Workers, c \in Comments : Telling(x, c)' => Telling(x, c)
    BY <2>1, DoneAt DEF Telling
  <2>3. PostKinds'
    BY <2>1, DoneAt DEF ThreadInv, PostKinds
  <2>4. ASSUME NEW c \in Comments \ (again \union edited) PROVE ToldOnce(c)'
    BY <2>1, <2>2, DoneAt DEF ThreadInv, ToldOnce
  <2> QED
    BY <2>1, <2>3, <2>4 DEF ThreadInv
<1>14. ASSUME NEW w \in Workers, NEW c \in Comments, OpenSave(w, c) PROVE ThreadInv'
  BY <1>0, <1>14
  DEF OpenSave, Begin, Idle, Stored, ThreadInv, PostKinds, ToldOnce, Telling, TypeOK
<1>15. ASSUME NEW w \in Workers, Save(w) PROVE ThreadInv'
  BY <1>0, <1>15
  DEF Save, Goto, Store, Stored, ThreadInv, PostKinds, ToldOnce, Telling, TypeOK
<1>16. ASSUME NEW w \in Workers, NEW c \in Comments, DeleteMarked(w, c) PROVE ThreadInv'
  BY <1>0, <1>16
  DEF DeleteMarked, Begin, Idle, Stored, ThreadInv, PostKinds, ToldOnce, Telling, TypeOK
<1>17. ASSUME NEW w \in Workers, NEW e \in {"live", "hidden", "gone"}, ChangeEntry(w, e)
       PROVE ThreadInv'
  BY <1>0, <1>17
  DEF ChangeEntry, Begin, Idle, Stored, ThreadInv, PostKinds, ToldOnce, Telling, TypeOK
<1>18. ASSUME NEW w \in Workers, ChangeSetting(w) PROVE ThreadInv'
  BY <1>0, <1>18
  DEF ChangeSetting, Begin, Idle, ThreadInv, PostKinds, ToldOnce, Telling, TypeOK
<1>24. ASSUME NEW w \in Workers, Attach(w) PROVE ThreadInv'
  BY <1>0, <1>24 DEF Attach, Goto, ThreadInv, PostKinds, ToldOnce, Telling, TypeOK
<1>19. ASSUME NEW w \in Workers, Flush(w) PROVE ThreadInv'
  <2>1. /\ job[w].pc = "flush" /\ \A x \in Workers \ {w} : job'[x] = job[x]
        /\ \/ Done(w)
           \/ /\ job[w].kind = "approve" /\ job'[w].kind = "approve"
              /\ job'[w].pc = "lookup" /\ job'[w].id = job[w].id
        /\ UNCHANGED <<row, told, again, edited>>
    BY <1>19, DoneAt, GotoAt DEF Flush, Phases, ThreadInv, PostKinds
  <2>2. \A x \in Workers, c \in Comments : Telling(x, c)' => Telling(x, c)
    BY <2>1, DoneAt DEF Telling
  <2>3. PostKinds'
    BY <2>1, DoneAt DEF ThreadInv, PostKinds
  <2>4. ASSUME NEW c \in Comments \ (again \union edited) PROVE ToldOnce(c)'
    BY <2>1, <2>2, DoneAt DEF ThreadInv, ToldOnce
  <2> QED
    BY <2>1, <2>3, <2>4 DEF ThreadInv
<1>20. ASSUME NEW w \in Workers, Abandon(w) PROVE ThreadInv'
  BY <1>0, <1>20, CommentsAssumption
  DEF Abandon, Done, Idle, ThreadInv, PostKinds, ToldOnce, Telling, TypeOK
<1>21. CASE FillSidebar
  BY <1>0, <1>21
  DEF FillSidebar, Visible, Public, Stored, ThreadInv, PostKinds, ToldOnce, Telling, TypeOK
<1>22. CASE Crash
  BY <1>0, <1>22, CommentsAssumption
  DEF Crash, Idle, ThreadInv, PostKinds, ToldOnce, Telling, TypeOK
<1>23. CASE UNCHANGED vars
  BY <1>0, <1>23 DEF vars, ThreadInv, PostKinds, ToldOnce, Telling, TypeOK
<1> QED
  BY <1>1, <1>2, <1>3, <1>4, <1>5, <1>6, <1>7, <1>8, <1>9, <1>10, <1>11,
     <1>12, <1>13, <1>14, <1>15, <1>16, <1>17, <1>18, <1>19, <1>20, <1>21, <1>22, <1>23, <1>24
  DEF Next, VisitorStep, AdminStep, MailStep

\* A subscriber of the thread hears of a comment once, unless it was approved
\* twice over or an editor saved it.
THEOREM ThreadIsToldOnce == Spec => []ThreadToldOnce
<1>1. Init => ThreadInv
  BY DEF Init, ThreadInv, PostKinds, ToldOnce, Telling, Idle
<1>2. ThreadInv => ThreadToldOnce
  BY DEF ThreadInv, ToldOnce, ThreadToldOnce
<1> QED
  BY <1>1, <1>2, InitTypeInv, StepTypeInv, InitBornInv, StepBornInv, StepThread, PTL
  DEF Spec
=============================================================================
