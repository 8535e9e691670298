--------------------------- MODULE ReleaseProofs ---------------------------
(***************************************************************************)
(* Theorems about Release, for every set of entries, requests and          *)
(* subscribers, and whatever the bounds on time, requests and faults.      *)
(***************************************************************************)
EXTENDS Release, TLAPS

(***************************************************************************)
(* Types.                                                                  *)
(***************************************************************************)

LEMMA DraftIsRow == Draft \in Row
  BY ReleaseAssumption DEF Draft, Row, Time

LEMMA RequestsAreWorkers == Requests \subseteq Workers /\ Sweeper \in Workers
  BY DEF Workers

\* A worker that is doing something has a well-formed job.
LEMMA BusyIsBusyJob ==
    ASSUME job \in [Workers -> Job], NEW w \in Workers, job[w].pc # "idle"
    PROVE  job[w] \in BusyJob
  BY DEF Job, Idle

\* What Goto, Onward and AfterHook make of a busy worker's job.
LEMMA BusySteps ==
    ASSUME job \in [Workers -> Job], NEW w \in Workers, job[w].pc # "idle",
           NEW pc \in Phases
    PROVE  /\ [job EXCEPT ![w].pc = pc] \in [Workers -> Job]
           /\ Onward(w, pc) \in BusyJob
           /\ AfterHook(w) \in Job
           /\ AfterMailError(w) \in Job
<1>1. job[w] \in BusyJob
  BY BusyIsBusyJob
<1>2. \A p \in Phases : [job[w] EXCEPT !.pc = p] \in BusyJob
  BY <1>1 DEF BusyJob
<1>3. \A p \in Phases : Onward(w, p) \in BusyJob
  BY <1>1, DraftIsRow DEF BusyJob, Onward
<1>4. [Onward(w, "flush") EXCEPT !.before = FALSE] \in BusyJob
  BY <1>3 DEF BusyJob, Phases
<1>5. [job EXCEPT ![w].pc = pc] = [job EXCEPT ![w] = [job[w] EXCEPT !.pc = pc]]
  OBVIOUS
<1> QED
  BY <1>2, <1>3, <1>4, <1>5 DEF Job, AfterHook, AfterMailError, Phases

LEMMA InitTypeOK == Init => TypeOK
<1> SUFFICES ASSUME Init PROVE TypeOK
  OBVIOUS
<1>1. job \in [Workers -> Job]
  BY DEF Init, Job
<1>2. row \in [Entries -> Row]
  BY DraftIsRow DEF Init
<1>3. clock \in Time /\ saves \in 0 .. MaxSaves /\ faults \in 0 .. MaxFaults
  BY ReleaseAssumption DEF Init, Time
<1>4. tries \in [Entries -> [Subscribers -> Nat]]
  BY DEF Init
<1> QED
  BY <1>1, <1>2, <1>3, <1>4 DEF Init, TypeOK

LEMMA StepTypeOK == TypeOK /\ [Next]_vars => TypeOK'
<1> SUFFICES ASSUME TypeOK, [Next]_vars PROVE TypeOK'
  OBVIOUS
<1> USE RequestsAreWorkers DEF NoFault, page
<1>job. job \in [Workers -> Job]
  BY DEF TypeOK
<1>fault. ASSUME Fault PROVE faults' \in 0 .. MaxFaults
  BY <1>fault, ReleaseAssumption DEF Fault, TypeOK
<1>set. ASSUME NEW w \in Workers, NEW j \in Job
        PROVE  [job EXCEPT ![w] = j] \in [Workers -> Job]
  BY <1>job
<1>begin. ASSUME NEW r \in Requests, NEW j \in Job, BeginRequest(r, j)
          PROVE  job' \in [Workers -> Job] /\ saves' \in 0 .. MaxSaves
  BY <1>begin, <1>set, ReleaseAssumption DEF BeginRequest, TypeOK
<1>store. ASSUME NEW e \in Entries, NEW v \in Row, Store(e, v)
          PROVE  row' \in [Entries -> Row] /\ published' \subseteq Entries \X Time
  BY <1>store DEF Store, Row, TypeOK
<1>kinds. \A k \in Kinds : k \in {"admin", "xmlrpc", "delete", "sweep"}
  BY ReleaseAssumption
<1>1. ASSUME NEW r \in Requests, NEW e \in Entries, NEW k \in Kinds, Create(r, e, k)
      PROVE  TypeOK'
  <2>1. PICK v \in NewVersions(k) :
           /\ BeginRequest(r, [Idle EXCEPT !.pc = "attach", !.ent = e, !.copy = v,
                                           !.before = FALSE, !.kind = k])
           /\ Store(e, v)
    BY <1>1 DEF Create
  <2>2. v \in Row
    BY <2>1 DEF NewVersions
  <2>3. [Idle EXCEPT !.pc = "attach", !.ent = e, !.copy = v,
                     !.before = FALSE, !.kind = k] \in Job
    BY <2>2, <1>kinds DEF Idle, Job, BusyJob, Phases
  <2> QED
    BY <1>1, <2>1, <2>2, <2>3, <1>begin, <1>store DEF Create, TypeOK
<1>2. ASSUME NEW r \in Requests, NEW e \in Entries, NEW k \in Kinds, OpenEdit(r, e, k)
      PROVE  TypeOK'
  <2>1. [Idle EXCEPT !.pc = "read", !.ent = e, !.copy = row[e], !.kind = k] \in Job
    BY <1>kinds DEF Idle, Job, BusyJob, Phases, TypeOK
  <2> QED
    BY <1>2, <2>1, <1>begin DEF OpenEdit, Take, TypeOK
<1>3. ASSUME NEW r \in Requests, NEW e \in Entries, OpenDelete(r, e) PROVE TypeOK'
  <2>1. [Idle EXCEPT !.pc = "delete", !.ent = e, !.kind = "delete"] \in Job
    BY DraftIsRow DEF Idle, Job, BusyJob, Phases
  <2> QED
    BY <1>3, <2>1, <1>begin DEF OpenDelete, Take, TypeOK
<1>4. ASSUME NEW r \in Requests, Refuse(r) PROVE TypeOK'
  BY <1>4, <1>set DEF Refuse, TypeOK, Job
<1>5. ASSUME NEW r \in Requests, Write(r) PROVE TypeOK'
  <2>1. PICK v \in Edits(job[r].copy, job[r].kind) :
           /\ Store(job[r].ent, v)
           /\ job' = [job EXCEPT ![r].pc = "attach", ![r].copy = v,
                                 ![r].before = ReleasedBefore(r, v)]
    BY <1>5 DEF Write
  <2>2. job[r] \in BusyJob
    BY <1>5, <1>job, BusyIsBusyJob DEF Write
  <2>3. v \in Row
    BY <2>1 DEF Edits
  <2>4. ReleasedBefore(r, v) \in BOOLEAN
    BY <2>2, <2>3 DEF ReleasedBefore, Row, BusyJob
  <2>5. [job[r] EXCEPT !.pc = "attach", !.copy = v,
                       !.before = ReleasedBefore(r, v)] \in Job
    BY <2>2, <2>3, <2>4 DEF Job, BusyJob, Phases
  <2>6. job' \in [Workers -> Job]
    <3>1. job' = [job EXCEPT ![r] = [job[r] EXCEPT !.pc = "attach", !.copy = v,
                                                   !.before = ReleasedBefore(r, v)]]
      BY <2>1, <2>2, <1>job DEF BusyJob
    <3> QED
      BY <3>1, <2>5, <1>set
  <2>7. job[r].ent \in Entries
    BY <2>2 DEF BusyJob
  <2> QED
    BY <1>5, <2>1, <2>3, <2>6, <2>7, <1>store DEF Write, TypeOK
<1>6. ASSUME NEW r \in Requests, Attach(r) PROVE TypeOK'
  BY <1>6, <1>job, BusySteps DEF Attach, Goto, Phases, TypeOK
<1>7. ASSUME NEW r \in Requests, AttachFail(r) PROVE TypeOK'
  BY <1>7, <1>fault, <1>set DEF AttachFail, TypeOK, Job
<1>8. ASSUME NEW r \in Requests, Delete(r) PROVE TypeOK'
  BY <1>8, <1>job, BusySteps DEF Delete, Goto, Phases, TypeOK
<1>9. ASSUME NEW r \in Requests, Flush(r) PROVE TypeOK'
  <2>1. [job EXCEPT ![r].pc = "hook"] \in [Workers -> Job]
    BY <1>9, <1>job, BusySteps DEF Flush, Phases
  <2>2. [job EXCEPT ![r] = Idle] \in [Workers -> Job]
    BY <1>set DEF Job
  <2>3. job' \in [Workers -> Job]
    BY <1>9, <2>1, <2>2 DEF Flush, Goto
  <2> QED
    BY <1>9, <2>3 DEF Flush, DropCache, TypeOK
<1>10. ASSUME NEW r \in Requests, Hook(r) PROVE TypeOK'
  <2>1. /\ AfterHook(r) \in Job
        /\ Onward(r, "ping") \in Job
        /\ Onward(r, "mail") \in BusyJob
    BY <1>10, <1>job, BusySteps DEF Hook, Phases, Job
  <2>2. [Onward(r, "mail") EXCEPT !.todo = Subscribers] \in Job
    BY <2>1 DEF BusyJob, Job
  <2> QED
    BY <1>10, <2>1, <2>2 DEF Hook, TypeOK
<1>11. ASSUME NEW r \in Requests, HookFail(r) PROVE TypeOK'
  <2>1. Onward(r, "ping") \in Job
    BY <1>11, <1>job, BusySteps DEF HookFail, Phases, Job
  <2> QED
    BY <1>11, <2>1, <1>fault, <1>set DEF HookFail, TypeOK
<1>12. ASSUME NEW w \in Workers, NEW s \in Subscribers, Send(w, s) PROVE TypeOK'
  <2>1. job[w] \in BusyJob
    BY <1>12, <1>job, BusyIsBusyJob DEF Send
  <2>2. [job[w] EXCEPT !.todo = @ \ {s}] \in Job
    BY <2>1 DEF BusyJob, Job
  <2>3. job' \in [Workers -> Job]
    BY <1>12, <2>2, <1>set DEF Send
  <2>4. tries' \in [Entries -> [Subscribers -> Nat]]
    BY <1>12, <2>1 DEF Send, TypeOK, BusyJob
  <2> QED
    BY <1>12, <2>3, <2>4 DEF Send, TypeOK
<1>13. ASSUME NEW w \in Workers, Mark(w) PROVE TypeOK'
  <2>1. job' \in [Workers -> Job]
    BY <1>13, <1>job, <1>set, BusySteps DEF Mark, Phases, Job
  <2>2. row' \in [Entries -> Row]
    BY <1>13 DEF Mark, Row, TypeOK
  <2> QED
    BY <1>13, <2>1, <2>2 DEF Mark, TypeOK
<1>14. ASSUME NEW w \in Workers, MarkGone(w) PROVE TypeOK'
  <2>1. job' \in [Workers -> Job]
    BY <1>14, <1>job, <1>set, BusySteps DEF MarkGone, Phases
  <2> QED
    BY <1>14, <2>1 DEF MarkGone, TypeOK
<1>15. ASSUME NEW w \in Workers, MarkFail(w) PROVE TypeOK'
  <2>1. job' \in [Workers -> Job]
    BY <1>15, <1>job, <1>set, BusySteps DEF MarkFail, Phases
  <2> QED
    BY <1>15, <2>1, <1>fault DEF MarkFail, TypeOK
<1>16. ASSUME NEW w \in Workers, Ping(w) PROVE TypeOK'
  <2>1. job[w].ent \in Entries
    BY <1>16, <1>job, BusyIsBusyJob DEF Ping, BusyJob
  <2>2. job' \in [Workers -> Job]
    BY <1>16, <1>job, <1>set, BusySteps DEF Ping, Phases
  <2> QED
    BY <1>16, <2>1, <2>2 DEF Ping, TypeOK
<1>17. CASE SweepStart
  BY <1>17 DEF SweepStart, TypeOK
<1>18. CASE SweepNext
  <2>1. PICK d \in due :
           /\ due' = due \ {d}
           /\ job' = [job EXCEPT ![Sweeper] =
                         [Idle EXCEPT !.pc = "mail", !.ent = d.id, !.kind = "sweep",
                                      !.todo = Subscribers]]
    BY <1>18 DEF SweepNext
  <2>2. d.id \in Entries
    BY <2>1 DEF TypeOK
  <2>3. [Idle EXCEPT !.pc = "mail", !.ent = d.id, !.kind = "sweep",
                     !.todo = Subscribers] \in Job
    BY <2>2, DraftIsRow DEF Idle, Job, BusyJob, Phases
  <2> QED
    BY <1>18, <2>1, <2>3, <1>set DEF SweepNext, TypeOK
<1>19. CASE SweepSkip
  BY <1>19, <1>fault DEF SweepSkip, TypeOK
<1>20. CASE Visit
  BY <1>20 DEF Visit, TypeOK
<1>21. CASE Crash
  BY <1>21, <1>fault DEF Crash, DropCache, TypeOK, Job
<1>22. CASE Tick
  BY <1>22, ReleaseAssumption DEF Tick, Time, TypeOK
<1>23. CASE UNCHANGED vars
  BY <1>23 DEF vars, TypeOK
<1> QED
  BY <1>1, <1>2, <1>3, <1>4, <1>5, <1>6, <1>7, <1>8, <1>9, <1>10, <1>11, <1>12, <1>13,
     <1>14, <1>15, <1>16, <1>17, <1>18, <1>19, <1>20, <1>21, <1>22, <1>23
  DEF Next, RequestStep, MailStep

\* Every reachable state is well typed.
THEOREM TypeCorrect == Spec => []TypeOK
  BY InitTypeOK, StepTypeOK, PTL DEF Spec

(***************************************************************************)
(* The mark follows the messages.                                          *)
(***************************************************************************)

Tried(e) == \A s \in Subscribers : tries[e][s] > 0

\* The mark may also come from a copy a handler writes back, and the round of
\* messages is whole only when its list is empty.
TriedInv ==
    /\ \A e \in Entries : row[e].mailed => Tried(e)
    /\ \A w \in Workers : job[w].pc # "idle" =>
          /\ job[w].copy.mailed => Tried(job[w].ent)
          /\ job[w].pc = "mail" =>
                \A s \in Subscribers : s \in job[w].todo \/ tries[job[w].ent][s] > 0

LEMMA StepTriedInv == TypeOK /\ TypeOK' /\ TriedInv /\ [Next]_vars => TriedInv'
<1> SUFFICES ASSUME TypeOK, TypeOK', TriedInv, [Next]_vars PROVE TriedInv'
  OBVIOUS
<1> USE RequestsAreWorkers DEF NoFault, page
<1>job. job \in [Workers -> Job] /\ row \in [Entries -> Row]
  BY DEF TypeOK
<1>1. ASSUME NEW r \in Requests, NEW e \in Entries, NEW k \in Kinds, Create(r, e, k)
      PROVE  TriedInv'
  BY <1>1, <1>job DEF Create, NewVersions, BeginRequest, Store, Idle, Row, TriedInv, Tried
<1>2. ASSUME NEW r \in Requests, NEW e \in Entries, NEW k \in Kinds, OpenEdit(r, e, k)
      PROVE  TriedInv'
  BY <1>2, <1>job DEF OpenEdit, BeginRequest, Idle, TriedInv, Tried
<1>3. ASSUME NEW r \in Requests, NEW e \in Entries, OpenDelete(r, e) PROVE TriedInv'
  BY <1>3, <1>job DEF OpenDelete, BeginRequest, Idle, Draft, TriedInv, Tried
<1>4. ASSUME NEW r \in Requests, Refuse(r) PROVE TriedInv'
  BY <1>4, <1>job DEF Refuse, Idle, TriedInv, Tried
<1>5. ASSUME NEW r \in Requests, Write(r) PROVE TriedInv'
  BY <1>5, <1>job, BusyIsBusyJob DEF Write, Edits, Store, BusyJob, TriedInv, Tried
<1>6. ASSUME NEW r \in Requests, Attach(r) PROVE TriedInv'
  BY <1>6, <1>job, BusyIsBusyJob DEF Attach, Goto, BusyJob, TriedInv, Tried
<1>7. ASSUME NEW r \in Requests, AttachFail(r) PROVE TriedInv'
  BY <1>7, <1>job DEF AttachFail, Idle, TriedInv, Tried
<1>8. ASSUME NEW r \in Requests, Delete(r) PROVE TriedInv'
  BY <1>8, <1>job, BusyIsBusyJob DEF Delete, Goto, BusyJob, TriedInv, Tried
<1>9. ASSUME NEW r \in Requests, Flush(r) PROVE TriedInv'
  BY <1>9, <1>job, BusyIsBusyJob DEF Flush, Goto, Idle, BusyJob, TriedInv, Tried
<1>10. ASSUME NEW r \in Requests, Hook(r) PROVE TriedInv'
  BY <1>10, <1>job, BusyIsBusyJob
  DEF Hook, AfterHook, Onward, Idle, Draft, BusyJob, TriedInv, Tried
<1>11. ASSUME NEW r \in Requests, HookFail(r) PROVE TriedInv'
  BY <1>11, <1>job, BusyIsBusyJob DEF HookFail, Onward, Draft, BusyJob, TriedInv, Tried
<1>12. ASSUME NEW w \in Workers, NEW s \in Subscribers, Send(w, s) PROVE TriedInv'
  BY <1>12, <1>job, BusyIsBusyJob DEF Send, BusyJob, TriedInv, Tried, TypeOK
<1>13. ASSUME NEW w \in Workers, Mark(w) PROVE TriedInv'
  BY <1>13, <1>job, BusyIsBusyJob DEF Mark, Onward, Draft, Row, BusyJob, TriedInv, Tried
<1>14. ASSUME NEW w \in Workers, MarkGone(w) PROVE TriedInv'
  BY <1>14, <1>job, BusyIsBusyJob
  DEF MarkGone, AfterMailError, Onward, Idle, Draft, BusyJob, TriedInv, Tried
<1>15. ASSUME NEW w \in Workers, MarkFail(w) PROVE TriedInv'
  BY <1>15, <1>job, BusyIsBusyJob
  DEF MarkFail, AfterMailError, Onward, Idle, Draft, BusyJob, TriedInv, Tried
<1>16. ASSUME NEW w \in Workers, Ping(w) PROVE TriedInv'
  BY <1>16, <1>job, BusyIsBusyJob
  DEF Ping, AfterHook, Onward, Idle, Draft, BusyJob, TriedInv, Tried
<1>17. CASE SweepStart
  BY <1>17 DEF SweepStart, TriedInv, Tried
<1>18. CASE SweepNext
  BY <1>18, <1>job DEF SweepNext, Idle, Draft, TriedInv, Tried
<1>19. CASE SweepSkip
  BY <1>19 DEF SweepSkip, TriedInv, Tried
<1>20. CASE Visit
  BY <1>20 DEF Visit, TriedInv, Tried
<1>21. CASE Crash
  BY <1>21 DEF Crash, Idle, TriedInv, Tried
<1>22. CASE Tick
  BY <1>22 DEF Tick, TriedInv, Tried
<1>23. CASE UNCHANGED vars
  BY <1>23 DEF vars, TriedInv, Tried
<1> QED
  BY <1>1, <1>2, <1>3, <1>4, <1>5, <1>6, <1>7, <1>8, <1>9, <1>10, <1>11, <1>12, <1>13,
     <1>14, <1>15, <1>16, <1>17, <1>18, <1>19, <1>20, <1>21, <1>22, <1>23
  DEF Next, RequestStep, MailStep

LEMMA InitTriedInv == Init => TriedInv
  BY DEF Init, Draft, Idle, TriedInv

\* Whoever wrote it, the mark means the whole list was tried.
THEOREM MarkFollowsMail == Spec => []MarkedMeansTried
<1>1. TypeOK /\ TriedInv /\ [Next]_vars => TypeOK' /\ TriedInv'
  BY StepTypeOK, StepTriedInv
<1>2. TriedInv => MarkedMeansTried
  BY DEF TriedInv, Tried, MarkedMeansTried
<1> QED
  BY <1>1, <1>2, InitTypeOK, InitTriedInv, PTL DEF Spec

(***************************************************************************)
(* Only what is published is announced.                                    *)
(***************************************************************************)

\* A version of e was stored that is released and whose date has come.
Out(e) == \E t \in Time : <<e, t>> \in published /\ t <= clock

\* A released row or copy was stored as it is, and a worker mails, pings or has
\* in its snapshot only what it found live.
PublishedInv ==
    /\ \A e \in Entries : e \in pinged \/ (\E s \in Subscribers : tries[e][s] > 0) => Out(e)
    /\ \A e \in Entries : row[e].released => <<e, row[e].posted>> \in published
    /\ \A d \in due : Out(d.id)
    /\ \A w \in Workers : job[w].pc # "idle" =>
          /\ job[w].copy.released => <<job[w].ent, job[w].copy.posted>> \in published
          /\ job[w].pc \in {"mail", "ping"} => Out(job[w].ent)

\* Nothing stored is forgotten and the clock does not go back.
LEMMA PublishedGrows ==
    TypeOK /\ [Next]_vars => published \subseteq published' /\ clock <= clock'
<1> SUFFICES ASSUME TypeOK, [Next]_vars PROVE published \subseteq published' /\ clock <= clock'
  OBVIOUS
<1> USE DEF page
<1>1. clock \in Nat
  BY ReleaseAssumption DEF TypeOK, Time
<1>2. CASE Tick
  BY <1>1, <1>2 DEF Tick
<1>3. published' = published /\ clock' = clock
         => published \subseteq published' /\ clock <= clock'
  BY <1>1
<1>4. ASSUME NEW e, NEW v, Store(e, v), clock' = clock
      PROVE  published \subseteq published' /\ clock <= clock'
  BY <1>1, <1>4 DEF Store
<1>5. ASSUME NEW r \in Requests, RequestStep(r)
      PROVE  published \subseteq published' /\ clock <= clock'
  <2>1. ASSUME NEW e \in Entries, NEW k \in Kinds, Create(r, e, k) \/ OpenEdit(r, e, k)
        PROVE  published \subseteq published' /\ clock <= clock'
    BY <2>1, <1>3, <1>4 DEF Create, OpenEdit
  <2>2. ASSUME NEW e \in Entries, OpenDelete(r, e)
        PROVE  published \subseteq published' /\ clock <= clock'
    BY <2>2, <1>3 DEF OpenDelete
  <2>3. CASE Write(r)
    BY <2>3, <1>4 DEF Write
  <2>4. CASE Refuse(r) \/ Attach(r) \/ AttachFail(r) \/ Delete(r) \/ Flush(r)
    BY <2>4, <1>3 DEF Refuse, Attach, AttachFail, Delete, Flush
  <2>5. CASE Hook(r) \/ HookFail(r)
    BY <2>5, <1>3 DEF Hook, HookFail
  <2> QED
    BY <1>5, <2>1, <2>2, <2>3, <2>4, <2>5 DEF RequestStep
<1>6. ASSUME NEW w \in Workers, MailStep(w)
      PROVE  published \subseteq published' /\ clock <= clock'
  <2>1. published' = published /\ clock' = clock
    BY <1>6 DEF MailStep, Send, Mark, MarkGone, MarkFail, Ping
  <2> QED
    BY <2>1, <1>3
<1>7. CASE SweepStart \/ SweepNext \/ SweepSkip
  BY <1>3, <1>7 DEF SweepStart, SweepNext, SweepSkip
<1>8. CASE Visit \/ Crash \/ UNCHANGED vars
  BY <1>3, <1>8 DEF Visit, Crash, vars
<1> QED
  BY <1>2, <1>5, <1>6, <1>7, <1>8 DEF Next

LEMMA StepPublishedInv ==
    TypeOK /\ TypeOK' /\ PublishedInv /\ [Next]_vars => PublishedInv'
<1> SUFFICES ASSUME TypeOK, TypeOK', PublishedInv, [Next]_vars PROVE PublishedInv'
  OBVIOUS
<1> USE RequestsAreWorkers DEF NoFault, page
<1>job. job \in [Workers -> Job] /\ row \in [Entries -> Row]
  BY DEF TypeOK
<1>out. published \subseteq published' /\ \A e : Out(e) => Out(e)'
  <2>1. clock \in Nat /\ clock' \in Nat /\ \A t \in Time : t \in Nat
    BY ReleaseAssumption DEF TypeOK, Time
  <2> QED
    BY <2>1, PublishedGrows DEF Out
<1>1. ASSUME NEW r \in Requests, NEW e \in Entries, NEW k \in Kinds, Create(r, e, k)
      PROVE  PublishedInv'
  <2>1. PICK v \in NewVersions(k) :
           /\ BeginRequest(r, [Idle EXCEPT !.pc = "attach", !.ent = e, !.copy = v,
                                           !.before = FALSE, !.kind = k])
           /\ Store(e, v)
    BY <1>1 DEF Create
  <2>2. v \in Row /\ row' = [row EXCEPT ![e] = v]
        /\ (v.released => <<e, v.posted>> \in published')
    BY <2>1 DEF NewVersions, Store
  <2> QED
    BY <1>1, <2>1, <2>2, <1>job, <1>out DEF Create, BeginRequest, Idle, PublishedInv
<1>2. ASSUME NEW r \in Requests, NEW e \in Entries, NEW k \in Kinds, OpenEdit(r, e, k)
      PROVE  PublishedInv'
  BY <1>2, <1>job, <1>out DEF OpenEdit, BeginRequest, Take, Idle, PublishedInv
<1>3. ASSUME NEW r \in Requests, NEW e \in Entries, OpenDelete(r, e) PROVE PublishedInv'
  BY <1>3, <1>job, <1>out DEF OpenDelete, BeginRequest, Take, Idle, Draft, PublishedInv
<1>4. ASSUME NEW r \in Requests, Refuse(r) PROVE PublishedInv'
  BY <1>4, <1>job, <1>out DEF Refuse, Idle, PublishedInv
<1>5. ASSUME NEW r \in Requests, Write(r) PROVE PublishedInv'
  <2>1. PICK v \in Edits(job[r].copy, job[r].kind) :
           /\ Store(job[r].ent, v)
           /\ job' = [job EXCEPT ![r].pc = "attach", ![r].copy = v,
                                 ![r].before = ReleasedBefore(r, v)]
    BY <1>5 DEF Write
  <2>2. job[r] \in BusyJob
    BY <1>5, <1>job, <1>out, BusyIsBusyJob DEF Write
  <2>3. v \in Row /\ row' = [row EXCEPT ![job[r].ent] = v]
        /\ (v.released => <<job[r].ent, v.posted>> \in published')
    BY <2>1 DEF Edits, Store
  <2>4. /\ job'[r].pc = "attach" /\ job'[r].copy = v /\ job'[r].ent = job[r].ent
        /\ \A w \in Workers \ {r} : job'[w] = job[w]
    BY <2>1, <2>2, <1>job DEF BusyJob
  <2> QED
    BY <1>5, <2>2, <2>3, <2>4, <1>job, <1>out DEF Write, BusyJob, PublishedInv
<1>6. ASSUME NEW r \in Requests, Attach(r) PROVE PublishedInv'
  BY <1>6, <1>job, <1>out, BusyIsBusyJob DEF Attach, Goto, BusyJob, PublishedInv
<1>7. ASSUME NEW r \in Requests, AttachFail(r) PROVE PublishedInv'
  BY <1>7, <1>job, <1>out DEF AttachFail, Idle, PublishedInv
<1>8. ASSUME NEW r \in Requests, Delete(r) PROVE PublishedInv'
  BY <1>8, <1>job, <1>out, BusyIsBusyJob DEF Delete, Goto, BusyJob, PublishedInv
<1>9. ASSUME NEW r \in Requests, Flush(r) PROVE PublishedInv'
  BY <1>9, <1>job, <1>out, BusyIsBusyJob DEF Flush, DropCache, Goto, Idle, BusyJob, PublishedInv
<1>10. ASSUME NEW r \in Requests, Hook(r) PROVE PublishedInv'
  <2>1. job[r] \in BusyJob
    BY <1>10, <1>job, <1>out, BusyIsBusyJob DEF Hook
  <2>2. IsLive(job[r].copy) => Out(job[r].ent)
    BY <1>10, <2>1 DEF Hook, IsLive, Out, PublishedInv, BusyJob, Row
  <2>3. /\ \A w \in Workers \ {r} : job'[w] = job[w]
        /\ job'[r].pc # "idle" => job'[r].ent = job[r].ent /\ ~job'[r].copy.released
        /\ job'[r].pc \in {"mail", "ping"} => IsLive(job[r].copy)
    BY <1>10, <2>1, <1>job DEF Hook, AfterHook, Onward, Idle, Draft, BusyJob
  <2> QED
    BY <1>10, <2>2, <2>3, <1>job, <1>out DEF Hook, PublishedInv
<1>11. ASSUME NEW r \in Requests, HookFail(r) PROVE PublishedInv'
  <2>1. job[r] \in BusyJob
    BY <1>11, <1>job, <1>out, BusyIsBusyJob DEF HookFail
  <2>2. IsLive(job[r].copy) => Out(job[r].ent)
    BY <1>11, <2>1 DEF HookFail, IsDue, IsLive, Out, PublishedInv, BusyJob, Row
  <2>3. /\ \A w \in Workers \ {r} : job'[w] = job[w]
        /\ job'[r].pc # "idle" => job'[r].ent = job[r].ent /\ ~job'[r].copy.released
        /\ job'[r].pc \in {"mail", "ping"} => IsLive(job[r].copy)
    BY <1>11, <2>1, <1>job DEF HookFail, IsDue, IsLive, Onward, Draft, BusyJob
  <2> QED
    BY <1>11, <2>2, <2>3, <1>job, <1>out DEF HookFail, PublishedInv
<1>12. ASSUME NEW w \in Workers, NEW s \in Subscribers, Send(w, s) PROVE PublishedInv'
  <2>1. job[w] \in BusyJob
    BY <1>12, <1>job, <1>out, BusyIsBusyJob DEF Send
  <2>2. /\ \A x \in Workers \ {w} : job'[x] = job[x]
        /\ job'[w].pc = "mail" /\ job'[w].ent = job[w].ent /\ job'[w].copy = job[w].copy
    BY <1>12, <2>1, <1>job DEF Send, BusyJob
  <2>3. \A e \in Entries, t \in Subscribers : e # job[w].ent => tries'[e][t] = tries[e][t]
    BY <1>12, <2>1 DEF Send, BusyJob, TypeOK
  <2>4. Out(job[w].ent)
    BY <1>12 DEF Send, PublishedInv
  <2> QED
    BY <1>12, <2>2, <2>3, <2>4, <1>out DEF Send, PublishedInv
<1>13. ASSUME NEW w \in Workers, Mark(w) PROVE PublishedInv'
  BY <1>13, <1>job, <1>out, BusyIsBusyJob DEF Mark, Onward, Draft, Row, BusyJob, PublishedInv
<1>14. ASSUME NEW w \in Workers, MarkGone(w) PROVE PublishedInv'
  BY <1>14, <1>job, <1>out, BusyIsBusyJob
  DEF MarkGone, AfterMailError, Onward, Idle, Draft, BusyJob, PublishedInv
<1>15. ASSUME NEW w \in Workers, MarkFail(w) PROVE PublishedInv'
  BY <1>15, <1>job, <1>out, BusyIsBusyJob
  DEF MarkFail, AfterMailError, Onward, Idle, Draft, BusyJob, PublishedInv
<1>16. ASSUME NEW w \in Workers, Ping(w) PROVE PublishedInv'
  BY <1>16, <1>job, <1>out, BusyIsBusyJob
  DEF Ping, AfterHook, Onward, Idle, Draft, BusyJob, PublishedInv
<1>17. CASE SweepStart
  <2>1. \A e \in Entries : IsDue(row[e]) => Out(e)
    BY <1>job DEF IsDue, IsLive, Out, PublishedInv, Row
  <2> QED
    BY <1>17, <2>1, <1>out DEF SweepStart, PublishedInv
<1>18. CASE SweepNext
  <2>1. PICK d \in due :
           /\ due' = due \ {d}
           /\ job' = [job EXCEPT ![Sweeper] =
                         [Idle EXCEPT !.pc = "mail", !.ent = d.id, !.kind = "sweep",
                                      !.todo = Subscribers]]
    BY <1>18 DEF SweepNext
  <2> QED
    BY <1>18, <2>1, <1>job, <1>out DEF SweepNext, Idle, Draft, PublishedInv, TypeOK
<1>19. CASE SweepSkip
  BY <1>19, <1>job, <1>out DEF SweepSkip, PublishedInv
<1>20. CASE Visit
  BY <1>20, <1>job, <1>out DEF Visit, PublishedInv
<1>21. CASE Crash
  BY <1>21, <1>job, <1>out DEF Crash, DropCache, Idle, PublishedInv
<1>22. CASE Tick
  BY <1>22, <1>job, <1>out DEF Tick, PublishedInv
<1>23. CASE UNCHANGED vars
  BY <1>23, <1>out DEF vars, PublishedInv
<1> QED
  BY <1>1, <1>2, <1>3, <1>4, <1>5, <1>6, <1>7, <1>8, <1>9, <1>10, <1>11, <1>12, <1>13,
     <1>14, <1>15, <1>16, <1>17, <1>18, <1>19, <1>20, <1>21, <1>22, <1>23
  DEF Next, RequestStep, MailStep

LEMMA InitPublishedInv == Init => PublishedInv
  BY DEF Init, Draft, Idle, PublishedInv

\* Drafts and entries whose date is yet to come are mailed and pinged to nobody.
THEOREM DraftsStayQuiet == Spec => []OnlyPublishedIsAnnounced
<1>1. TypeOK /\ PublishedInv /\ [Next]_vars => TypeOK' /\ PublishedInv'
  BY StepTypeOK, StepPublishedInv
<1>2. PublishedInv => OnlyPublishedIsAnnounced
  BY DEF PublishedInv, Out, OnlyPublishedIsAnnounced
<1> QED
  BY <1>1, <1>2, InitTypeOK, InitPublishedInv, PTL DEF Spec

(***************************************************************************)
(* The flush keeps the cached home page honest.                            *)
(***************************************************************************)

LEMMA StepCache ==
    TypeOK /\ TypeOK' /\ CacheNeverShowsWithdrawn /\ [Next]_vars => CacheNeverShowsWithdrawn'
<1> SUFFICES ASSUME TypeOK, TypeOK', CacheNeverShowsWithdrawn, [Next]_vars
             PROVE  CacheNeverShowsWithdrawn'
  OBVIOUS
<1> USE RequestsAreWorkers DEF NoFault, page
<1>job. job \in [Workers -> Job] /\ row \in [Entries -> Row]
  BY DEF TypeOK
<1>fault. Fault => faults' # 0
  BY ReleaseAssumption DEF TypeOK, Fault
<1>1. ASSUME NEW r \in Requests, NEW e \in Entries, NEW k \in Kinds, Create(r, e, k)
      PROVE  CacheNeverShowsWithdrawn'
  <2>1. PICK v \in NewVersions(k) :
           /\ BeginRequest(r, [Idle EXCEPT !.pc = "attach", !.ent = e, !.copy = v,
                                           !.before = FALSE, !.kind = k])
           /\ Store(e, v)
    BY <1>1 DEF Create
  <2>2. v \in Row /\ row' = [row EXCEPT ![e] = v]
    BY <2>1 DEF NewVersions, Store
  <2>3. job'[r].ent = e /\ job'[r].pc = "attach" /\ \A q \in Requests \ {r} : job'[q] = job[q]
    BY <2>1, <1>job DEF BeginRequest, Idle
  <2>4. Unflushed(e)' # {} /\ \A x \in Entries \ {e} : Unflushed(x) \subseteq Unflushed(x)'
    BY <2>1, <2>3 DEF Unflushed, Idle, BeginRequest
  <2> QED
    BY <1>1, <2>2, <2>4, <1>job DEF Create, TypeOK, CacheNeverShowsWithdrawn, Stored, IsLive
<1>2. ASSUME NEW r \in Requests, NEW e \in Entries, NEW k \in Kinds, OpenEdit(r, e, k)
      PROVE  CacheNeverShowsWithdrawn'
  BY <1>2, <1>job
  DEF OpenEdit, BeginRequest, Take, Idle, TypeOK, CacheNeverShowsWithdrawn, Unflushed, Stored, IsLive
<1>3. ASSUME NEW r \in Requests, NEW e \in Entries, OpenDelete(r, e)
      PROVE  CacheNeverShowsWithdrawn'
  BY <1>3, <1>job
  DEF OpenDelete, BeginRequest, Take, Idle, Draft, TypeOK, CacheNeverShowsWithdrawn, Unflushed, Stored, IsLive
<1>4. ASSUME NEW r \in Requests, Refuse(r) PROVE CacheNeverShowsWithdrawn'
  BY <1>4, <1>job
  DEF Refuse, Idle, TypeOK, CacheNeverShowsWithdrawn, Unflushed, Stored, IsLive
<1>5. ASSUME NEW r \in Requests, Write(r) PROVE CacheNeverShowsWithdrawn'
  <2>1. PICK v \in Edits(job[r].copy, job[r].kind) :
           /\ Store(job[r].ent, v)
           /\ job' = [job EXCEPT ![r].pc = "attach", ![r].copy = v,
                                 ![r].before = ReleasedBefore(r, v)]
    BY <1>5 DEF Write
  <2>2. job[r] \in BusyJob
    BY <1>5, <1>job, BusyIsBusyJob DEF Write
  <2>3. \A x \in Entries \ {job[r].ent} : row'[x] = row[x]
    BY <2>1, <1>job DEF Store
  <2>4. /\ job'[r].pc = "attach" /\ job'[r].ent = job[r].ent
        /\ \A w \in Workers \ {r} : job'[w] = job[w]
    BY <2>1, <2>2, <1>job DEF BusyJob
  <2>5. r \in Unflushed(job[r].ent)' /\ \A x \in Entries : Unflushed(x) \subseteq Unflushed(x)'
    BY <1>5, <2>4 DEF Unflushed, Write
  <2> QED
    BY <1>5, <2>3, <2>5 DEF Write, TypeOK, CacheNeverShowsWithdrawn, Stored, IsLive
<1>6. ASSUME NEW r \in Requests, Attach(r) PROVE CacheNeverShowsWithdrawn'
  BY <1>6, <1>job, BusyIsBusyJob
  DEF Attach, Goto, BusyJob, TypeOK, CacheNeverShowsWithdrawn, Unflushed, Stored, IsLive
<1>7. ASSUME NEW r \in Requests, AttachFail(r) PROVE CacheNeverShowsWithdrawn'
  BY <1>7, <1>job, <1>fault
  DEF AttachFail, Idle, TypeOK, CacheNeverShowsWithdrawn, Unflushed, Stored, IsLive
<1>8. ASSUME NEW r \in Requests, Delete(r) PROVE CacheNeverShowsWithdrawn'
  BY <1>8, <1>job, BusyIsBusyJob
  DEF Delete, Goto, BusyJob, TypeOK, CacheNeverShowsWithdrawn, Unflushed, Stored, IsLive
<1>9. ASSUME NEW r \in Requests, Flush(r) PROVE CacheNeverShowsWithdrawn'
  BY <1>9, <1>job, BusyIsBusyJob
  DEF Flush, DropCache, Goto, Idle, BusyJob, TypeOK, CacheNeverShowsWithdrawn, Unflushed, Stored, IsLive
<1>10. ASSUME NEW r \in Requests, Hook(r) PROVE CacheNeverShowsWithdrawn'
  BY <1>10, <1>job, BusyIsBusyJob
  DEF Hook, AfterHook, Onward, Idle, Draft, BusyJob, TypeOK, CacheNeverShowsWithdrawn, Unflushed, Stored, IsLive
<1>11. ASSUME NEW r \in Requests, HookFail(r) PROVE CacheNeverShowsWithdrawn'
  BY <1>11, <1>job, <1>fault, BusyIsBusyJob
  DEF HookFail, Onward, Draft, BusyJob, TypeOK, CacheNeverShowsWithdrawn, Unflushed, Stored, IsLive
<1>12. ASSUME NEW w \in Workers, NEW s \in Subscribers, Send(w, s)
      PROVE  CacheNeverShowsWithdrawn'
  BY <1>12, <1>job, BusyIsBusyJob
  DEF Send, BusyJob, TypeOK, CacheNeverShowsWithdrawn, Unflushed, Stored, IsLive
<1>13. ASSUME NEW w \in Workers, Mark(w) PROVE CacheNeverShowsWithdrawn'
  BY <1>13, <1>job, BusyIsBusyJob
  DEF Mark, Onward, Draft, Row, BusyJob, TypeOK, CacheNeverShowsWithdrawn, Unflushed, Stored, IsLive
<1>14. ASSUME NEW w \in Workers, MarkGone(w) PROVE CacheNeverShowsWithdrawn'
  BY <1>14, <1>job, BusyIsBusyJob, ReleaseAssumption
  DEF MarkGone, AfterMailError, Onward, Idle, Draft, BusyJob, TypeOK, CacheNeverShowsWithdrawn, Unflushed, Stored, IsLive
<1>15. ASSUME NEW w \in Workers, MarkFail(w) PROVE CacheNeverShowsWithdrawn'
  BY <1>15, <1>job, <1>fault, BusyIsBusyJob
  DEF MarkFail, AfterMailError, Onward, Idle, Draft, BusyJob, TypeOK, CacheNeverShowsWithdrawn, Unflushed, Stored, IsLive
<1>16. ASSUME NEW w \in Workers, Ping(w) PROVE CacheNeverShowsWithdrawn'
  BY <1>16, <1>job, BusyIsBusyJob
  DEF Ping, AfterHook, Onward, Idle, Draft, BusyJob, TypeOK, CacheNeverShowsWithdrawn, Unflushed, Stored, IsLive
<1>17. CASE SweepStart
  BY <1>17, <1>job
  DEF SweepStart, TypeOK, CacheNeverShowsWithdrawn, Unflushed, Stored, IsLive
<1>18. CASE SweepNext
  BY <1>18, <1>job
  DEF SweepNext, Idle, Draft, TypeOK, CacheNeverShowsWithdrawn, Unflushed, Stored, IsLive
<1>19. CASE SweepSkip
  BY <1>19, <1>job, <1>fault
  DEF SweepSkip, TypeOK, CacheNeverShowsWithdrawn, Unflushed, Stored, IsLive
<1>20. CASE Visit
  BY <1>20, <1>job DEF Visit, TypeOK, CacheNeverShowsWithdrawn, Unflushed, Stored, IsLive
<1>21. CASE Crash
  BY <1>21, <1>job, <1>fault
  DEF Crash, DropCache, Idle, TypeOK, CacheNeverShowsWithdrawn, Unflushed, Stored, IsLive
<1>22. CASE Tick
  BY <1>22, <1>job, ReleaseAssumption
  DEF Tick, TypeOK, Row, Time, CacheNeverShowsWithdrawn, Unflushed, Stored, IsLive
<1>23. CASE UNCHANGED vars
  BY <1>23 DEF vars, TypeOK, CacheNeverShowsWithdrawn, Unflushed, Stored, IsLive
<1> QED
  BY <1>1, <1>2, <1>3, <1>4, <1>5, <1>6, <1>7, <1>8, <1>9, <1>10, <1>11, <1>12, <1>13,
     <1>14, <1>15, <1>16, <1>17, <1>18, <1>19, <1>20, <1>21, <1>22, <1>23
  DEF Next, RequestStep, MailStep

LEMMA InitCache == Init => CacheNeverShowsWithdrawn
  BY DEF Init, CacheNeverShowsWithdrawn

\* No page filled in the middle of a save outlives its flush.
THEOREM FlushIsEnough == Spec => []CacheNeverShowsWithdrawn
<1>1. TypeOK /\ CacheNeverShowsWithdrawn /\ [Next]_vars
         => TypeOK' /\ CacheNeverShowsWithdrawn'
  BY StepTypeOK, StepCache
<1> QED
  BY <1>1, InitTypeOK, InitCache, PTL DEF Spec

(***************************************************************************)
(* Once per subscriber.                                                    *)
(***************************************************************************)

\* Only a row that was inserted is worked on, and a fresh one has no mark.
LifeInv ==
    /\ \A w \in Workers : job[w].ent \in Entries => life[job[w].ent] # "unborn"
    /\ \A d \in due : life[d.id] # "unborn"
    /\ \A e \in Entries : life[e] = "unborn" => ~row[e].mailed

JobKinds ==
    \A w \in Workers :
        /\ job[w].kind = "delete" => job[w].pc \in {"delete", "flush"}
        /\ job[w].pc = "delete" => job[w].kind = "delete"

\* As long as e is not in overlapped, one worker at most has it, ...
SoleHolder ==
    \A e \in Entries \ overlapped :
        /\ \A v, w \in Workers : job[v].ent = e /\ job[w].ent = e => v = w
        /\ \A d \in due, w \in Workers : d.id = e => job[w].ent # e

\* (the snapshot has an entry once)
DueOnce == \A c, d \in due : c.id = d.id => c = d

\* ... its copy has the mark of the row, ...
CopyMark ==
    \A e \in Entries \ overlapped, w \in Workers :
        /\ job[w].ent = e
        /\ job[w].pc \in {"read", "attach", "hook"} \/ (job[w].pc = "flush" /\ job[w].kind = "xmlrpc")
        => (job[w].copy.mailed <=> row[e].mailed)

\* ... the row is there, ...
HolderStored ==
    \A e \in Entries \ overlapped :
        /\ \A w \in Workers : job[w].ent = e /\ job[w].kind # "delete" => Stored(e)
        /\ \A d \in due : d.id = e => Stored(e)

\* ... and it is without the mark if the sweep is still to mail it.
DueUnmarked == \A d \in due : d.id \notin overlapped => ~row[d.id].mailed

Mailing(w, e) == job[w].ent = e /\ job[w].pc = "mail"

\* Without a fault: an entry with no mark has been mailed to nobody, unless a
\* round is under way, and that round has not yet come to those on its list.
RoundInv ==
    faults = 0 =>
        \A e \in Entries \ overlapped :
            /\ \A s \in Subscribers : tries[e][s] <= 1
            /\ \A w \in Workers : Mailing(w, e) =>
                  /\ ~row[e].mailed
                  /\ \A s \in job[w].todo : tries[e][s] = 0
            /\ ~row[e].mailed /\ (\A w \in Workers : ~Mailing(w, e)) =>
                  \A s \in Subscribers : tries[e][s] = 0

OnceInv ==
    /\ LifeInv
    /\ JobKinds
    /\ SoleHolder
    /\ DueOnce
    /\ CopyMark
    /\ HolderStored
    /\ DueUnmarked
    /\ RoundInv

LEMMA InitOnceInv == Init => OnceInv
  BY ReleaseAssumption DEF Init, Draft, Idle, Mailing, OnceInv, LifeInv, JobKinds, SoleHolder, DueOnce,
     CopyMark, HolderStored, DueUnmarked, RoundInv

LEMMA StepOnceInv == TypeOK /\ TypeOK' /\ OnceInv /\ [Next]_vars => OnceInv'
<1> SUFFICES ASSUME TypeOK, TypeOK', OnceInv, [Next]_vars PROVE OnceInv'
  OBVIOUS
<1> USE RequestsAreWorkers DEF NoFault, page
<1>job. job \in [Workers -> Job] /\ row \in [Entries -> Row] /\ NoEntry \notin Entries
       /\ life \in [Entries -> {"unborn", "stored", "deleted"}]
  BY ReleaseAssumption DEF TypeOK
<1>inv. LifeInv /\ JobKinds /\ SoleHolder /\ DueOnce /\ CopyMark /\ HolderStored /\ DueUnmarked
        /\ RoundInv
  BY DEF OnceInv
<1>fault. Fault => faults' # 0
  BY ReleaseAssumption DEF TypeOK, Fault
<1>1. ASSUME NEW r \in Requests, NEW e \in Entries, NEW k \in Kinds, Create(r, e, k)
      PROVE  OnceInv'
  <2>2. /\ \A x \in Workers \ {r} : job'[x] = job[x]
        /\ job[r].ent = NoEntry
        /\ job'[r].ent = e
        /\ job'[r].pc = "attach"
        /\ job'[r].kind = k
        /\ ~job'[r].copy.mailed
    BY <1>1, <1>job DEF Create, NewVersions, BeginRequest, Idle
  <2>3. LifeInv'
    BY <1>1, <1>job, <1>inv, <2>2
    DEF Create, Store, LifeInv, TypeOK
  <2>4. JobKinds'
    <3>1. k # "delete"
      BY ReleaseAssumption
    <3> QED
      BY <1>inv, <2>2, <3>1 DEF JobKinds
  <2>5. SoleHolder'
    BY <1>1, <1>job, <1>inv, <2>2
    DEF Create, Store, SoleHolder, LifeInv, DueOnce
  <2>6. DueOnce'
    BY <1>1, <1>job, <1>inv, <2>2
    DEF Create, Store, DueOnce
  <2>7. CopyMark'
    <3>1. life[e] = "unborn" /\ \A d \in Entries \ {e} : life'[d] = life[d] /\ row'[d] = row[d]
      BY <1>1, <1>job DEF Create, Store
    <3>2. \A x \in Workers : job[x].ent # e
      BY <1>inv, <3>1 DEF LifeInv
    <3>3. ~row'[e].mailed
      BY <1>1, <1>job DEF Create, NewVersions, Store
    <3>4. overlapped' = overlapped
      BY <1>1 DEF Create
    <3> QED
      BY <1>inv, <2>2, <3>1, <3>2, <3>3, <3>4 DEF CopyMark
  <2>8. HolderStored'
    <3>1. overlapped' = overlapped /\ due' = due
      BY <1>1 DEF Create
    <3>2. Stored(e)' /\ \A d \in Entries : Stored(d) => Stored(d)'
      BY <1>1, <1>job DEF Create, Stored
    <3> QED
      BY <1>inv, <2>2, <3>1, <3>2 DEF HolderStored
  <2>9. DueUnmarked'
    BY <1>1, <1>job, <1>inv, <2>2
    DEF Create, Store, DueUnmarked, SoleHolder, LifeInv, CopyMark
  <2>10. RoundInv'
    <3>1. life[e] = "unborn" /\ \A d \in Entries \ {e} : life'[d] = life[d] /\ row'[d] = row[d]
      BY <1>1, <1>job DEF Create, Store
    <3>2. \A x \in Workers : job[x].ent # e
      BY <1>inv, <3>1 DEF LifeInv
    <3>3. ~row[e].mailed /\ ~row'[e].mailed
      BY <1>1, <1>job, <1>inv, <3>1 DEF Create, NewVersions, Store, LifeInv
    <3>4. \A x \in Workers, d \in Entries : Mailing(x, d)' <=> Mailing(x, d)
      BY <1>job, <2>2, <3>2 DEF Mailing
    <3>5. \A x \in Workers, d \in Entries : Mailing(x, d) => job'[x] = job[x]
      BY <1>job, <2>2 DEF Mailing
    <3>6. \A d \in Entries : row'[d].mailed <=> row[d].mailed
      BY <3>1, <3>3
    <3>7. overlapped' = overlapped /\ tries' = tries /\ faults' = faults
      BY <1>1 DEF Create
    <3> QED
      BY <1>inv, <3>4, <3>5, <3>6, <3>7 DEF RoundInv
  <2> QED
    BY <2>3, <2>4, <2>5, <2>6, <2>7, <2>8, <2>9, <2>10 DEF OnceInv
<1>2. ASSUME NEW r \in Requests, NEW e \in Entries, NEW k \in Kinds, OpenEdit(r, e, k)
      PROVE  OnceInv'
  <2>2. /\ \A x \in Workers \ {r} : job'[x] = job[x]
        /\ job[r].ent = NoEntry
        /\ job'[r].ent = e
        /\ job'[r].pc = "read"
        /\ job'[r].kind = k
        /\ job'[r].copy = row[e]
    BY <1>2, <1>job DEF OpenEdit, BeginRequest, Idle
  <2>3. LifeInv'
    BY <1>2, <1>job, <1>inv, <2>2
    DEF OpenEdit, Take, Holding, Stored, LifeInv, TypeOK
  <2>4. JobKinds'
    <3>1. k # "delete"
      BY ReleaseAssumption
    <3> QED
      BY <1>inv, <2>2, <3>1 DEF JobKinds
  <2>5. SoleHolder'
    <3>1. overlapped \subseteq overlapped'
      BY <1>2 DEF OpenEdit, Take
    <3>2. ASSUME e \notin overlapped', NEW x \in Workers \ {r} PROVE job[x].ent # e
      BY <1>2, <3>2 DEF OpenEdit, Take, Holding
    <3>3. ASSUME e \notin overlapped' PROVE \A d \in due : d.id # e
      BY <1>2, <3>3, ReleaseAssumption DEF OpenEdit, Take, Holding
    <3>4. due' = due
      BY <1>2 DEF OpenEdit
    <3> QED
      BY <1>inv, <1>job, <2>2, <3>1, <3>2, <3>3, <3>4 DEF SoleHolder
  <2>6. DueOnce'
    BY <1>2, <1>job, <1>inv, <2>2
    DEF OpenEdit, Take, Holding, Stored, DueOnce
  <2>7. CopyMark'
    BY <1>2, <1>job, <1>inv, <2>2
    DEF OpenEdit, Take, Holding, Stored, CopyMark, SoleHolder, LifeInv, JobKinds
  <2>8. HolderStored'
    <3>1. overlapped \subseteq overlapped' /\ due' = due /\ life' = life /\ Stored(e)
      BY <1>2 DEF OpenEdit, Take
    <3> QED
      BY <1>inv, <2>2, <3>1 DEF HolderStored, Stored
  <2>9. DueUnmarked'
    BY <1>2, <1>job, <1>inv, <2>2
    DEF OpenEdit, Take, Holding, Stored, DueUnmarked, SoleHolder, LifeInv, CopyMark
  <2>10. RoundInv'
    <3>1. \A x \in Workers, d \in Entries : Mailing(x, d)' <=> Mailing(x, d)
      BY <1>2, <1>job, <2>2 DEF OpenEdit, Mailing, Idle
    <3>2. \A x \in Workers, d \in Entries : Mailing(x, d) => job'[x] = job[x]
      BY <1>2, <1>job, <2>2 DEF OpenEdit, Mailing, Idle
    <3>3. overlapped \subseteq overlapped' /\ tries' = tries /\ faults' = faults
      BY <1>2 DEF OpenEdit, Take
    <3>4. \A d \in Entries \ overlapped : row'[d].mailed = row[d].mailed
      BY <1>2 DEF OpenEdit
    <3> QED
      BY <1>inv, <3>1, <3>2, <3>3, <3>4 DEF RoundInv
  <2> QED
    BY <2>3, <2>4, <2>5, <2>6, <2>7, <2>8, <2>9, <2>10 DEF OnceInv
<1>3. ASSUME NEW r \in Requests, NEW e \in Entries, OpenDelete(r, e) PROVE OnceInv'
  <2>2. /\ \A x \in Workers \ {r} : job'[x] = job[x]
        /\ job[r].ent = NoEntry
        /\ job'[r].ent = e
        /\ job'[r].pc = "delete"
        /\ job'[r].kind = "delete"
    BY <1>3, <1>job DEF OpenDelete, BeginRequest, Idle
  <2>3. LifeInv'
    BY <1>3, <1>job, <1>inv, <2>2
    DEF OpenDelete, Take, Holding, Stored, LifeInv, TypeOK
  <2>4. JobKinds'
    BY <1>3, <1>job, <1>inv, <2>2
    DEF OpenDelete, Take, Holding, Stored, JobKinds
  <2>5. SoleHolder'
    <3>1. overlapped \subseteq overlapped'
      BY <1>3 DEF OpenDelete, Take
    <3>2. ASSUME e \notin overlapped', NEW x \in Workers \ {r} PROVE job[x].ent # e
      BY <1>3, <3>2 DEF OpenDelete, Take, Holding
    <3>3. ASSUME e \notin overlapped' PROVE \A d \in due : d.id # e
      BY <1>3, <3>3, ReleaseAssumption DEF OpenDelete, Take, Holding
    <3>4. due' = due
      BY <1>3 DEF OpenDelete
    <3> QED
      BY <1>inv, <1>job, <2>2, <3>1, <3>2, <3>3, <3>4 DEF SoleHolder
  <2>6. DueOnce'
    BY <1>3, <1>job, <1>inv, <2>2
    DEF OpenDelete, Take, Holding, Stored, DueOnce
  <2>7. CopyMark'
    BY <1>3, <1>job, <1>inv, <2>2
    DEF OpenDelete, Take, Holding, Stored, CopyMark, SoleHolder, LifeInv, JobKinds
  <2>8. HolderStored'
    BY <1>3, <1>job, <1>inv, <2>2
    DEF OpenDelete, Take, Holding, Stored, HolderStored, SoleHolder, LifeInv, JobKinds, TypeOK
  <2>9. DueUnmarked'
    BY <1>3, <1>job, <1>inv, <2>2
    DEF OpenDelete, Take, Holding, Stored, DueUnmarked, SoleHolder, LifeInv, CopyMark
  <2>10. RoundInv'
    <3>1. \A x \in Workers, d \in Entries : Mailing(x, d)' <=> Mailing(x, d)
      BY <1>3, <1>job, <2>2 DEF OpenDelete, Mailing, Idle
    <3>2. \A x \in Workers, d \in Entries : Mailing(x, d) => job'[x] = job[x]
      BY <1>3, <1>job, <2>2 DEF OpenDelete, Mailing, Idle
    <3>3. overlapped \subseteq overlapped' /\ tries' = tries /\ faults' = faults
      BY <1>3 DEF OpenDelete, Take
    <3>4. \A d \in Entries \ overlapped : row'[d].mailed = row[d].mailed
      BY <1>3 DEF OpenDelete
    <3> QED
      BY <1>inv, <3>1, <3>2, <3>3, <3>4 DEF RoundInv
  <2> QED
    BY <2>3, <2>4, <2>5, <2>6, <2>7, <2>8, <2>9, <2>10 DEF OnceInv
<1>4. ASSUME NEW r \in Requests, Refuse(r) PROVE OnceInv'
  <2>1. job[r] \in BusyJob
    BY <1>4, <1>job, BusyIsBusyJob DEF Refuse
  <2>2. /\ \A x \in Workers \ {r} : job'[x] = job[x]
        /\ job'[r] = Idle
    BY <1>4, <2>1, <1>job DEF Refuse
  <2> QED
    BY <1>4, <1>job, <1>inv, <2>1, <2>2
    DEF Refuse, Idle, OnceInv, LifeInv, JobKinds, SoleHolder, DueOnce, CopyMark,
        HolderStored, DueUnmarked, RoundInv, Mailing, Stored
<1>5. ASSUME NEW r \in Requests, Write(r) PROVE OnceInv'
  <2>1. job[r] \in BusyJob
    BY <1>5, <1>job, BusyIsBusyJob DEF Write
  <2>2. /\ \A x \in Workers \ {r} : job'[x] = job[x]
        /\ job'[r].ent = job[r].ent
        /\ job'[r].pc = "attach"
        /\ job'[r].kind = job[r].kind
    BY <1>5, <2>1, <1>job DEF Write, BusyJob
  <2>3. LifeInv'
    BY <1>5, <1>job, <1>inv, <2>1, <2>2
    DEF Write, Store, LifeInv, BusyJob, TypeOK
  <2>4. JobKinds'
    BY <1>5, <1>job, <1>inv, <2>1, <2>2
    DEF Write, Store, JobKinds, BusyJob
  <2>5. SoleHolder'
    BY <1>5, <1>job, <1>inv, <2>1, <2>2
    DEF Write, Store, SoleHolder, LifeInv, DueOnce, BusyJob
  <2>6. DueOnce'
    BY <1>5, <1>job, <1>inv, <2>1, <2>2
    DEF Write, Store, DueOnce, BusyJob
  <2>7. CopyMark'
    BY <1>5, <1>job, <1>inv, <2>1, <2>2
    DEF Write, Store, CopyMark, SoleHolder, LifeInv, JobKinds, BusyJob
  <2>8. HolderStored'
    <3>1. overlapped' = overlapped /\ due' = due /\ life' = life
      BY <1>5 DEF Write
    <3> QED
      BY <1>inv, <2>2, <3>1 DEF HolderStored, Stored
  <2>9. DueUnmarked'
    BY <1>5, <1>job, <1>inv, <2>1, <2>2
    DEF Write, Store, DueUnmarked, SoleHolder, LifeInv, CopyMark, BusyJob
  <2>10. RoundInv'
    <3>1. PICK v \in Edits(job[r].copy, job[r].kind) : Store(job[r].ent, v)
      BY <1>5 DEF Write
    <3>2. job[r].pc = "read" /\ job[r].ent \in Entries /\ v.mailed = job[r].copy.mailed
      BY <1>5, <2>1, <3>1 DEF Write, Edits, BusyJob
    <3>3. row' = [row EXCEPT ![job[r].ent] = v]
      BY <3>1 DEF Store
    <3>4. \A d \in Entries \ overlapped : row'[d].mailed <=> row[d].mailed
      BY <1>inv, <1>job, <3>2, <3>3 DEF CopyMark
    <3>5. \A x \in Workers, d \in Entries : Mailing(x, d)' <=> Mailing(x, d)
      BY <2>2, <3>2 DEF Mailing
    <3>6. \A x \in Workers, d \in Entries : Mailing(x, d) => job'[x] = job[x]
      BY <2>2, <3>2 DEF Mailing
    <3>7. overlapped' = overlapped /\ tries' = tries /\ faults' = faults
      BY <1>5 DEF Write
    <3> QED
      BY <1>inv, <3>4, <3>5, <3>6, <3>7 DEF RoundInv
  <2> QED
    BY <2>3, <2>4, <2>5, <2>6, <2>7, <2>8, <2>9, <2>10 DEF OnceInv
<1>6. ASSUME NEW r \in Requests, Attach(r) PROVE OnceInv'
  <2>1. job[r] \in BusyJob
    BY <1>6, <1>job, BusyIsBusyJob DEF Attach
  <2>2. /\ \A x \in Workers \ {r} : job'[x] = job[x]
        /\ job'[r].ent = job[r].ent
        /\ job'[r].pc \in {"hook", "flush"}
        /\ job'[r].kind = job[r].kind
        /\ job'[r].copy = job[r].copy
    BY <1>6, <2>1, <1>job DEF Attach, Goto, BusyJob
  <2> QED
    BY <1>6, <1>job, <1>inv, <2>1, <2>2
    DEF Attach, Idle, OnceInv, LifeInv, JobKinds, SoleHolder, DueOnce, CopyMark,
        HolderStored, DueUnmarked, RoundInv, Mailing, Stored
<1>7. ASSUME NEW r \in Requests, AttachFail(r) PROVE OnceInv'
  <2>1. job[r] \in BusyJob
    BY <1>7, <1>job, BusyIsBusyJob DEF AttachFail
  <2>2. /\ \A x \in Workers \ {r} : job'[x] = job[x]
        /\ job'[r] = Idle
    BY <1>7, <2>1, <1>job DEF AttachFail
  <2> QED
    BY <1>7, <1>job, <1>inv, <2>1, <2>2, <1>fault
    DEF AttachFail, Idle, OnceInv, LifeInv, JobKinds, SoleHolder, DueOnce, CopyMark,
        HolderStored, DueUnmarked, RoundInv, Mailing, Stored
<1>8. ASSUME NEW r \in Requests, Delete(r) PROVE OnceInv'
  <2>1. job[r] \in BusyJob
    BY <1>8, <1>job, BusyIsBusyJob DEF Delete
  <2>2. /\ \A x \in Workers \ {r} : job'[x] = job[x]
        /\ job'[r].ent = job[r].ent
        /\ job'[r].pc = "flush"
        /\ job'[r].kind = job[r].kind
    BY <1>8, <2>1, <1>job DEF Delete, Goto, BusyJob
  <2>3. LifeInv'
    BY <1>8, <1>job, <1>inv, <2>1, <2>2
    DEF Delete, LifeInv, BusyJob, TypeOK
  <2>4. JobKinds'
    BY <1>8, <1>job, <1>inv, <2>1, <2>2
    DEF Delete, JobKinds, BusyJob
  <2>5. SoleHolder'
    BY <1>8, <1>job, <1>inv, <2>1, <2>2
    DEF Delete, SoleHolder, LifeInv, DueOnce, BusyJob
  <2>6. DueOnce'
    BY <1>8, <1>job, <1>inv, <2>1, <2>2
    DEF Delete, DueOnce, BusyJob
  <2>7. CopyMark'
    BY <1>8, <1>job, <1>inv, <2>1, <2>2
    DEF Delete, CopyMark, SoleHolder, LifeInv, JobKinds, BusyJob
  <2>8. HolderStored'
    <3>1. job[r].ent \in Entries /\ job[r].kind = "delete"
      BY <1>8, <1>inv, <2>1 DEF Delete, JobKinds, BusyJob
    <3>2. overlapped' = overlapped /\ due' = due
      BY <1>8 DEF Delete
    <3>3. \A d \in Entries \ {job[r].ent} : Stored(d) => Stored(d)'
      BY <1>8 DEF Delete, Stored
    <3>4. job[r].ent \notin overlapped =>
             /\ \A x \in Workers \ {r} : job[x].ent # job[r].ent
             /\ \A d \in due : d.id # job[r].ent
      BY <1>inv, <3>1 DEF SoleHolder
    <3> QED
      BY <1>inv, <2>2, <3>1, <3>2, <3>3, <3>4 DEF HolderStored
  <2>9. DueUnmarked'
    BY <1>8, <1>job, <1>inv, <2>1, <2>2
    DEF Delete, DueUnmarked, SoleHolder, LifeInv, CopyMark, BusyJob
  <2>10. RoundInv'
    <3>1. \A x \in Workers, d \in Entries : Mailing(x, d)' <=> Mailing(x, d)
      BY <1>8, <1>job, <2>2 DEF Delete, Mailing, Idle
    <3>2. \A x \in Workers, d \in Entries : Mailing(x, d) => job'[x] = job[x]
      BY <1>8, <1>job, <2>2 DEF Delete, Mailing, Idle
    <3>3. overlapped \subseteq overlapped' /\ tries' = tries /\ faults' = faults
      BY <1>8 DEF Delete, Take
    <3>4. \A d \in Entries \ overlapped : row'[d].mailed = row[d].mailed
      BY <1>8 DEF Delete
    <3> QED
      BY <1>inv, <3>1, <3>2, <3>3, <3>4 DEF RoundInv
  <2> QED
    BY <2>3, <2>4, <2>5, <2>6, <2>7, <2>8, <2>9, <2>10 DEF OnceInv
<1>9. ASSUME NEW r \in Requests, Flush(r) PROVE OnceInv'
  <2>1. job[r] \in BusyJob
    BY <1>9, <1>job, BusyIsBusyJob DEF Flush
  <2>2. /\ \A x \in Workers \ {r} : job'[x] = job[x]
        /\ job'[r] = Idle \/ (job'[r].ent = job[r].ent /\ job'[r].pc = "hook" /\ job'[r].kind = "xmlrpc" /\ job[r].kind = "xmlrpc" /\ job'[r].copy = job[r].copy)
    BY <1>9, <2>1, <1>job DEF Flush, Goto, BusyJob
  <2>3. LifeInv'
    BY <1>9, <1>job, <1>inv, <2>1, <2>2
    DEF Flush, LifeInv, BusyJob, Idle, TypeOK
  <2>4. JobKinds'
    BY <1>9, <1>job, <1>inv, <2>1, <2>2
    DEF Flush, JobKinds, BusyJob, Idle
  <2>5. SoleHolder'
    BY <1>9, <1>job, <1>inv, <2>1, <2>2
    DEF Flush, SoleHolder, LifeInv, DueOnce, BusyJob, Idle
  <2>6. DueOnce'
    BY <1>9, <1>job, <1>inv, <2>1, <2>2
    DEF Flush, DueOnce, BusyJob, Idle
  <2>7. CopyMark'
    BY <1>9, <1>job, <1>inv, <2>1, <2>2
    DEF Flush, CopyMark, SoleHolder, LifeInv, JobKinds, BusyJob, Idle
  <2>8. HolderStored'
    <3>1. overlapped' = overlapped /\ due' = due /\ life' = life
      BY <1>9 DEF Flush
    <3> QED
      BY <1>inv, <1>job, <2>2, <3>1 DEF HolderStored, Stored, Idle
  <2>9. DueUnmarked'
    BY <1>9, <1>job, <1>inv, <2>1, <2>2
    DEF Flush, DueUnmarked, SoleHolder, LifeInv, CopyMark, BusyJob, Idle
  <2>10. RoundInv'
    <3>1. \A x \in Workers, d \in Entries : Mailing(x, d)' <=> Mailing(x, d)
      BY <1>9, <1>job, <2>2 DEF Flush, Mailing, Idle
    <3>2. \A x \in Workers, d \in Entries : Mailing(x, d) => job'[x] = job[x]
      BY <1>9, <1>job, <2>2 DEF Flush, Mailing, Idle
    <3>3. overlapped \subseteq overlapped' /\ tries' = tries /\ faults' = faults
      BY <1>9 DEF Flush, Take
    <3>4. \A d \in Entries \ overlapped : row'[d].mailed = row[d].mailed
      BY <1>9 DEF Flush
    <3> QED
      BY <1>inv, <3>1, <3>2, <3>3, <3>4 DEF RoundInv
  <2> QED
    BY <2>3, <2>4, <2>5, <2>6, <2>7, <2>8, <2>9, <2>10 DEF OnceInv
<1>10. ASSUME NEW r \in Requests, Hook(r) PROVE OnceInv'
  <2>1. job[r] \in BusyJob
    BY <1>10, <1>job, BusyIsBusyJob DEF Hook
  <2>2. /\ \A x \in Workers \ {r} : job'[x] = job[x]
        /\ job'[r] = Idle \/ (job'[r].ent = job[r].ent /\ job'[r].kind = job[r].kind /\ (job'[r].pc = "flush" => job[r].kind = "admin") /\ job'[r].pc \in {"mail", "ping", "flush"} /\ (job'[r].pc = "mail" => ~job[r].copy.mailed))
    BY <1>10, <2>1, <1>job DEF Hook, AfterHook, Onward, BusyJob
  <2>3. LifeInv'
    <3>1. row' = row /\ due' = due /\ life' = life
      BY <1>10 DEF Hook
    <3> QED
      BY <1>inv, <1>job, <2>2, <3>1 DEF LifeInv, Idle
  <2>4. JobKinds'
    BY <1>10, <1>job, <1>inv, <2>1, <2>2
    DEF Hook, JobKinds, BusyJob, Idle
  <2>5. SoleHolder'
    BY <1>10, <1>job, <1>inv, <2>1, <2>2
    DEF Hook, SoleHolder, LifeInv, DueOnce, BusyJob, Idle
  <2>6. DueOnce'
    BY <1>10, <1>job, <1>inv, <2>1, <2>2
    DEF Hook, DueOnce, BusyJob, Idle
  <2>7. CopyMark'
    BY <1>10, <1>job, <1>inv, <2>1, <2>2
    DEF Hook, CopyMark, SoleHolder, LifeInv, JobKinds, BusyJob, Idle
  <2>8. HolderStored'
    <3>1. overlapped' = overlapped /\ due' = due /\ life' = life
      BY <1>10 DEF Hook
    <3> QED
      BY <1>inv, <1>job, <2>2, <3>1 DEF HolderStored, Stored, Idle
  <2>9. DueUnmarked'
    BY <1>10, <1>job, <1>inv, <2>1, <2>2
    DEF Hook, DueUnmarked, SoleHolder, LifeInv, CopyMark, BusyJob, Idle
  <2>10. RoundInv'
    <3>1. job[r].pc = "hook" /\ job[r].ent \in Entries
      BY <1>10, <2>1 DEF Hook, BusyJob
    <3>2. \A d \in Entries : ~Mailing(r, d)
      BY <3>1 DEF Mailing
    <3>3. ASSUME NEW d \in Entries \ overlapped, Mailing(r, d)'
          PROVE  ~row[d].mailed /\ \A x \in Workers : ~Mailing(x, d)
      <4>1. d = job[r].ent /\ job'[r].pc = "mail"
        BY <1>job, <2>2, <3>3 DEF Mailing, Idle
      <4>2. ~row[d].mailed
        BY <1>inv, <2>2, <3>1, <4>1 DEF CopyMark, Idle
      <4>3. \A x \in Workers : ~Mailing(x, d)
        BY <1>inv, <3>1, <4>1 DEF SoleHolder, Mailing
      <4> QED
        BY <4>2, <4>3
    <3>4. \A x \in Workers \ {r}, d \in Entries : Mailing(x, d)' <=> Mailing(x, d)
      BY <2>2 DEF Mailing
    <3>5. row' = row /\ overlapped' = overlapped /\ tries' = tries /\ faults' = faults
      BY <1>10 DEF Hook
    <3>6. ASSUME faults = 0, NEW d \in Entries \ overlapped
          PROVE  /\ \A s \in Subscribers : tries[d][s] <= 1
                 /\ \A x \in Workers : Mailing(x, d)' =>
                       ~row[d].mailed /\ \A s \in job'[x].todo : tries[d][s] = 0
                 /\ ~row[d].mailed /\ (\A x \in Workers : ~Mailing(x, d)') =>
                       \A s \in Subscribers : tries[d][s] = 0
      <4>1. \A s \in Subscribers : tries[d][s] <= 1
        BY <1>inv, <3>6 DEF RoundInv
      <4>2. ASSUME NEW x \in Workers \ {r}, Mailing(x, d)'
            PROVE  ~row[d].mailed /\ \A s \in job'[x].todo : tries[d][s] = 0
        BY <1>inv, <2>2, <3>4, <3>6, <4>2 DEF RoundInv
      <4>3. ASSUME Mailing(r, d)'
            PROVE  ~row[d].mailed /\ \A s \in job'[r].todo : tries[d][s] = 0
        <5>1. ~row[d].mailed /\ \A s \in Subscribers : tries[d][s] = 0
          BY <1>inv, <3>3, <3>6, <4>3 DEF RoundInv
        <5>2. job'[r].todo \subseteq Subscribers
          BY <4>3 DEF TypeOK, Job, BusyJob, Mailing, Idle
        <5> QED
          BY <5>1, <5>2
      <4>4. ~row[d].mailed /\ (\A x \in Workers : ~Mailing(x, d)') =>
               \A s \in Subscribers : tries[d][s] = 0
        BY <1>inv, <3>2, <3>4, <3>6 DEF RoundInv
      <4> QED
        BY <4>1, <4>2, <4>3, <4>4
    <3> QED
      BY <3>5, <3>6 DEF RoundInv
  <2> QED
    BY <2>3, <2>4, <2>5, <2>6, <2>7, <2>8, <2>9, <2>10 DEF OnceInv
<1>11. ASSUME NEW r \in Requests, HookFail(r) PROVE OnceInv'
  <2>1. job[r] \in BusyJob
    BY <1>11, <1>job, BusyIsBusyJob DEF HookFail
  <2>2. /\ \A x \in Workers \ {r} : job'[x] = job[x]
        /\ job'[r].ent = job[r].ent
        /\ job'[r].pc = "ping"
        /\ job'[r].kind = job[r].kind
    BY <1>11, <2>1, <1>job DEF HookFail, Onward, BusyJob
  <2> QED
    BY <1>11, <1>job, <1>inv, <2>1, <2>2, <1>fault
    DEF HookFail, Idle, OnceInv, LifeInv, JobKinds, SoleHolder, DueOnce, CopyMark,
        HolderStored, DueUnmarked, RoundInv, Mailing, Stored
<1>12. ASSUME NEW w \in Workers, NEW s \in Subscribers, Send(w, s) PROVE OnceInv'
  <2>1. job[w] \in BusyJob
    BY <1>12, <1>job, BusyIsBusyJob DEF Send
  <2>2. /\ \A x \in Workers \ {w} : job'[x] = job[x]
        /\ job'[w].ent = job[w].ent
        /\ job'[w].pc = "mail"
        /\ job'[w].kind = job[w].kind
        /\ job'[w].todo = job[w].todo \ {s}
    BY <1>12, <2>1, <1>job DEF Send, BusyJob
  <2>3. LifeInv'
    BY <1>12, <1>job, <1>inv, <2>1, <2>2
    DEF Send, LifeInv, BusyJob, TypeOK
  <2>4. JobKinds'
    BY <1>12, <1>job, <1>inv, <2>1, <2>2
    DEF Send, JobKinds, BusyJob
  <2>5. SoleHolder'
    BY <1>12, <1>job, <1>inv, <2>1, <2>2
    DEF Send, SoleHolder, LifeInv, DueOnce, BusyJob
  <2>6. DueOnce'
    BY <1>12, <1>job, <1>inv, <2>1, <2>2
    DEF Send, DueOnce, BusyJob
  <2>7. CopyMark'
    BY <1>12, <1>job, <1>inv, <2>1, <2>2
    DEF Send, CopyMark, SoleHolder, LifeInv, JobKinds, BusyJob
  <2>8. HolderStored'
    BY <1>12, <1>job, <1>inv, <2>1, <2>2
    DEF Send, HolderStored, SoleHolder, LifeInv, JobKinds, Stored, BusyJob, TypeOK
  <2>9. DueUnmarked'
    BY <1>12, <1>job, <1>inv, <2>1, <2>2
    DEF Send, DueUnmarked, SoleHolder, LifeInv, CopyMark, BusyJob
  <2>10. RoundInv'
    BY <1>12, <1>job, <1>inv, <2>1, <2>2
    DEF Send, RoundInv, Mailing, SoleHolder, LifeInv, CopyMark, HolderStored, DueUnmarked, JobKinds, BusyJob, TypeOK
  <2> QED
    BY <2>3, <2>4, <2>5, <2>6, <2>7, <2>8, <2>9, <2>10 DEF OnceInv
<1>13. ASSUME NEW w \in Workers, Mark(w) PROVE OnceInv'
  <2>1. job[w] \in BusyJob
    BY <1>13, <1>job, BusyIsBusyJob DEF Mark
  <2>2. /\ \A x \in Workers \ {w} : job'[x] = job[x]
        /\ job'[w].ent = job[w].ent
        /\ job'[w].pc = "ping"
        /\ job'[w].kind = job[w].kind
    BY <1>13, <2>1, <1>job DEF Mark, Onward, BusyJob
  <2>3. LifeInv'
    BY <1>13, <1>job, <1>inv, <2>1, <2>2
    DEF Mark, Stored, LifeInv, BusyJob, TypeOK
  <2>4. JobKinds'
    BY <1>13, <1>job, <1>inv, <2>1, <2>2
    DEF Mark, Stored, JobKinds, BusyJob
  <2>5. SoleHolder'
    BY <1>13, <1>job, <1>inv, <2>1, <2>2
    DEF Mark, Stored, SoleHolder, LifeInv, DueOnce, BusyJob
  <2>6. DueOnce'
    BY <1>13, <1>job, <1>inv, <2>1, <2>2
    DEF Mark, Stored, DueOnce, BusyJob
  <2>7. CopyMark'
    <3>1. job[w].ent \in Entries /\ row' = [row EXCEPT ![job[w].ent].mailed = TRUE]
      BY <1>13, <2>1 DEF Mark, BusyJob
    <3>2. \A d \in Entries \ {job[w].ent} : row'[d] = row[d]
      BY <1>job, <3>1
    <3>3. job[w].ent \notin overlapped => \A x \in Workers \ {w} : job[x].ent # job[w].ent
      BY <1>inv, <3>1 DEF SoleHolder
    <3>4. overlapped' = overlapped
      BY <1>13 DEF Mark
    <3> QED
      BY <1>inv, <2>2, <3>2, <3>3, <3>4 DEF CopyMark
  <2>8. HolderStored'
    BY <1>13, <1>job, <1>inv, <2>1, <2>2
    DEF Mark, Stored, HolderStored, SoleHolder, LifeInv, JobKinds, BusyJob, TypeOK
  <2>9. DueUnmarked'
    BY <1>13, <1>job, <1>inv, <2>1, <2>2
    DEF Mark, Stored, DueUnmarked, SoleHolder, LifeInv, CopyMark, BusyJob
  <2>10. RoundInv'
    BY <1>13, <1>job, <1>inv, <2>1, <2>2
    DEF Mark, Stored, RoundInv, Mailing, SoleHolder, LifeInv, CopyMark, HolderStored, DueUnmarked, JobKinds, BusyJob, TypeOK
  <2> QED
    BY <2>3, <2>4, <2>5, <2>6, <2>7, <2>8, <2>9, <2>10 DEF OnceInv
<1>14. ASSUME NEW w \in Workers, MarkGone(w) PROVE OnceInv'
  <2>1. job[w] \in BusyJob
    BY <1>14, <1>job, BusyIsBusyJob DEF MarkGone
  <2>2. /\ \A x \in Workers \ {w} : job'[x] = job[x]
        /\ job'[w] = Idle \/ (job'[w].ent = job[w].ent /\ job'[w].pc = "ping" /\ job'[w].kind = job[w].kind)
    BY <1>14, <2>1, <1>job DEF MarkGone, AfterMailError, Onward, BusyJob
  <2> QED
    BY <1>14, <1>job, <1>inv, <2>1, <2>2
    DEF MarkGone, Idle, OnceInv, LifeInv, JobKinds, SoleHolder, DueOnce, CopyMark,
        HolderStored, DueUnmarked, RoundInv, Mailing, Stored
<1>15. ASSUME NEW w \in Workers, MarkFail(w) PROVE OnceInv'
  <2>1. job[w] \in BusyJob
    BY <1>15, <1>job, BusyIsBusyJob DEF MarkFail
  <2>2. /\ \A x \in Workers \ {w} : job'[x] = job[x]
        /\ job'[w] = Idle \/ (job'[w].ent = job[w].ent /\ job'[w].pc = "ping" /\ job'[w].kind = job[w].kind)
    BY <1>15, <2>1, <1>job DEF MarkFail, AfterMailError, Onward, BusyJob
  <2> QED
    BY <1>15, <1>job, <1>inv, <2>1, <2>2, <1>fault
    DEF MarkFail, Idle, OnceInv, LifeInv, JobKinds, SoleHolder, DueOnce, CopyMark,
        HolderStored, DueUnmarked, RoundInv, Mailing, Stored
<1>16. ASSUME NEW w \in Workers, Ping(w) PROVE OnceInv'
  <2>1. job[w] \in BusyJob
    BY <1>16, <1>job, BusyIsBusyJob DEF Ping
  <2>2. /\ \A x \in Workers \ {w} : job'[x] = job[x]
        /\ job'[w] = Idle \/ (job'[w].ent = job[w].ent /\ job'[w].pc = "flush" /\ job'[w].kind = job[w].kind /\ job[w].kind = "admin")
    BY <1>16, <2>1, <1>job DEF Ping, AfterHook, Onward, BusyJob
  <2> QED
    BY <1>16, <1>job, <1>inv, <2>1, <2>2
    DEF Ping, Idle, OnceInv, LifeInv, JobKinds, SoleHolder, DueOnce, CopyMark,
        HolderStored, DueUnmarked, RoundInv, Mailing, Stored
<1>17. CASE SweepStart
  <2>3. LifeInv'
    BY <1>17, <1>job, <1>inv
    DEF SweepStart, Holding, Stored, IsDue, LifeInv, TypeOK
  <2>4. JobKinds'
    BY <1>17, <1>job, <1>inv
    DEF SweepStart, Holding, Stored, IsDue, JobKinds
  <2>5. SoleHolder'
    BY <1>17, <1>job, <1>inv
    DEF SweepStart, Holding, Stored, IsDue, SoleHolder, LifeInv, DueOnce
  <2>6. DueOnce'
    BY <1>17, <1>job, <1>inv
    DEF SweepStart, Holding, Stored, IsDue, DueOnce
  <2>7. CopyMark'
    BY <1>17, <1>job, <1>inv
    DEF SweepStart, Holding, Stored, IsDue, CopyMark, SoleHolder, LifeInv, JobKinds
  <2>8. HolderStored'
    BY <1>17, <1>job, <1>inv
    DEF SweepStart, Holding, Stored, IsDue, HolderStored, SoleHolder, LifeInv, JobKinds, TypeOK
  <2>9. DueUnmarked'
    BY <1>17, <1>job, <1>inv
    DEF SweepStart, Holding, Stored, IsDue, DueUnmarked, SoleHolder, LifeInv, CopyMark
  <2>10. RoundInv'
    BY <1>17, <1>job, <1>inv
    DEF SweepStart, Holding, Stored, IsDue, RoundInv, Mailing, SoleHolder, LifeInv, CopyMark, HolderStored, DueUnmarked, JobKinds, TypeOK
  <2> QED
    BY <2>3, <2>4, <2>5, <2>6, <2>7, <2>8, <2>9, <2>10 DEF OnceInv
<1>18. CASE SweepNext
  <2>3. LifeInv'
    BY <1>18, <1>job, <1>inv
    DEF SweepNext, Idle, LifeInv, TypeOK
  <2>4. JobKinds'
    BY <1>18, <1>job, <1>inv
    DEF SweepNext, Idle, JobKinds
  <2>5. SoleHolder'
    BY <1>18, <1>job, <1>inv
    DEF SweepNext, Idle, SoleHolder, LifeInv, DueOnce
  <2>6. DueOnce'
    BY <1>18, <1>job, <1>inv
    DEF SweepNext, Idle, DueOnce
  <2>7. CopyMark'
    BY <1>18, <1>job, <1>inv
    DEF SweepNext, Idle, CopyMark, SoleHolder, LifeInv, JobKinds
  <2>8. HolderStored'
    BY <1>18, <1>job, <1>inv
    DEF SweepNext, Idle, HolderStored, SoleHolder, LifeInv, JobKinds, Stored, TypeOK
  <2>9. DueUnmarked'
    BY <1>18, <1>job, <1>inv
    DEF SweepNext, Idle, DueUnmarked, SoleHolder, LifeInv, CopyMark
  <2>10. RoundInv'
    BY <1>18, <1>job, <1>inv
    DEF SweepNext, Idle, RoundInv, Mailing, SoleHolder, LifeInv, CopyMark, HolderStored, DueUnmarked, JobKinds, TypeOK
  <2> QED
    BY <2>3, <2>4, <2>5, <2>6, <2>7, <2>8, <2>9, <2>10 DEF OnceInv
<1>19. CASE SweepSkip
  BY <1>19, <1>inv, <1>fault
  DEF SweepSkip, OnceInv, LifeInv, JobKinds, SoleHolder, DueOnce, CopyMark, HolderStored,
      DueUnmarked, RoundInv, Mailing, Stored
<1>20. CASE Visit
  BY <1>20, <1>inv
  DEF Visit, OnceInv, LifeInv, JobKinds, SoleHolder, DueOnce, CopyMark, HolderStored,
      DueUnmarked, RoundInv, Mailing, Stored
<1>21. CASE Crash
  BY <1>21, <1>job, <1>inv, <1>fault
  DEF Crash, Idle, OnceInv, LifeInv, JobKinds, SoleHolder, DueOnce, CopyMark, HolderStored,
      DueUnmarked, RoundInv, Mailing, Stored
<1>22. CASE Tick
  BY <1>22, <1>inv
  DEF Tick, OnceInv, LifeInv, JobKinds, SoleHolder, DueOnce, CopyMark, HolderStored,
      DueUnmarked, RoundInv, Mailing, Stored
<1>23. CASE UNCHANGED vars
  BY <1>23 DEF vars, OnceInv, LifeInv, JobKinds, SoleHolder, DueOnce, CopyMark, HolderStored,
     DueUnmarked, RoundInv, Mailing, Stored
<1> QED
  BY <1>1, <1>2, <1>3, <1>4, <1>5, <1>6, <1>7, <1>8, <1>9, <1>10, <1>11, <1>12, <1>13,
     <1>14, <1>15, <1>16, <1>17, <1>18, <1>19, <1>20, <1>21, <1>22, <1>23
  DEF Next, RequestStep, MailStep

LEMMA OnceInvariant == Spec => [](TypeOK /\ OnceInv)
<1>1. TypeOK /\ OnceInv /\ [Next]_vars => TypeOK' /\ OnceInv'
  BY StepTypeOK, StepOnceInv
<1> QED
  BY <1>1, InitTypeOK, InitOnceInv, PTL DEF Spec

\* Saves and sweeps that take turns send an entry to a subscriber at most once.
THEOREM MailedAtMostOnce == Spec => []OncePerSubscriber
<1>1. ASSUME TypeOK, OnceInv PROVE OncePerSubscriber
  <2>1. SUFFICES ASSUME NEW e \in Entries \ overlapped, NEW s \in Subscribers, faults = 0
                 PROVE  tries[e][s] <= 1
    <3>1. \A e \in Entries, s \in Subscribers : tries[e][s] \in Nat
      BY <1>1 DEF TypeOK
    <3>2. faults \in Nat
      BY <1>1, ReleaseAssumption DEF TypeOK
    <3> QED
      BY <2>1, <3>1, <3>2 DEF OncePerSubscriber
  <2> QED
    BY <1>1, <2>1 DEF OnceInv, RoundInv
<1> QED
  BY <1>1, OnceInvariant, PTL

\* The only step that clears a mark is a save of a handler that shared the entry.
LEMMA StepKeepsMark ==
    TypeOK /\ OnceInv /\ [Next]_vars =>
        \A e \in Entries : row[e].mailed /\ ~row'[e].mailed => e \in overlapped
<1> SUFFICES ASSUME TypeOK, OnceInv, [Next]_vars,
                    NEW e \in Entries \ overlapped, row[e].mailed
             PROVE  row'[e].mailed
  OBVIOUS
<1>row. row \in [Entries -> Row]
  BY DEF TypeOK
<1>1. ASSUME NEW r \in Requests, NEW x \in Entries, NEW k \in Kinds, Create(r, x, k)
      PROVE  row'[e].mailed
  <2>1. x # e
    BY <1>1 DEF Create, OnceInv, LifeInv
  <2> QED
    BY <1>1, <1>row, <2>1 DEF Create, Store
<1>2. ASSUME NEW r \in Requests, Write(r) PROVE row'[e].mailed
  <2>1. PICK v \in Edits(job[r].copy, job[r].kind) : Store(job[r].ent, v)
    BY <1>2 DEF Write
  <2>2. job[r].ent = e => v.mailed
    BY <1>2, <2>1, RequestsAreWorkers DEF Write, Edits, OnceInv, CopyMark
  <2> QED
    BY <1>row, <2>1, <2>2 DEF Store
<1>3. ASSUME NEW w \in Workers, Mark(w) PROVE row'[e].mailed
  BY <1>3, <1>row DEF Mark
<1>4. ASSUME UNCHANGED row PROVE row'[e].mailed
  BY <1>4
<1>5. ASSUME NEW r \in Requests, RequestStep(r) PROVE row'[e].mailed
  <2>1. ASSUME NEW x \in Entries, NEW k \in Kinds, OpenEdit(r, x, k) PROVE row'[e].mailed
    BY <1>4, <2>1 DEF OpenEdit
  <2>2. ASSUME NEW x \in Entries, OpenDelete(r, x) PROVE row'[e].mailed
    BY <1>4, <2>2 DEF OpenDelete
  <2>3. CASE Refuse(r) \/ Attach(r) \/ AttachFail(r) \/ Delete(r) \/ Flush(r)
    BY <1>4, <2>3 DEF Refuse, Attach, AttachFail, Delete, Flush
  <2>4. CASE Hook(r) \/ HookFail(r)
    BY <1>4, <2>4 DEF Hook, HookFail
  <2> QED
    BY <1>1, <1>2, <1>5, <2>1, <2>2, <2>3, <2>4 DEF RequestStep
<1>6. ASSUME NEW w \in Workers, MailStep(w) PROVE row'[e].mailed
  <2>1. ASSUME NEW s \in Subscribers, Send(w, s) PROVE row'[e].mailed
    BY <1>4, <2>1 DEF Send
  <2>2. CASE MarkGone(w) \/ MarkFail(w) \/ Ping(w)
    BY <1>4, <2>2 DEF MarkGone, MarkFail, Ping
  <2> QED
    BY <1>3, <1>6, <2>1, <2>2 DEF MailStep
<1>7. CASE SweepStart \/ SweepNext \/ SweepSkip
  BY <1>4, <1>7 DEF SweepStart, SweepNext, SweepSkip
<1>8. CASE Visit \/ Crash \/ Tick \/ UNCHANGED vars
  BY <1>4, <1>8 DEF Visit, Crash, Tick, vars
<1> QED
  BY <1>5, <1>6, <1>7, <1>8 DEF Next

\* A mark, once there, goes only where two workers had the entry at once.
THEOREM MarksStay == Spec => MarkLostOnlyByOverlap
<1>1. TypeOK /\ OnceInv /\ [Next]_vars =>
        [\A e \in Entries : row[e].mailed /\ ~row'[e].mailed => e \in overlapped]_vars
  BY StepKeepsMark
<1> QED
  BY <1>1, OnceInvariant, PTL DEF Spec, MarkLostOnlyByOverlap
=============================================================================
