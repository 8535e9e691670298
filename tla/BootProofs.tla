------------------------------ MODULE BootProofs ------------------------------
(***************************************************************************)
(* Theorems about what the server stands on: Startup, Accounts, Settings,  *)
(* and the three side by side in Boot, for any number of processes,        *)
(* versions, statements and deaths, of names, passwords, roles and         *)
(* requests, of settings and saves.                                        *)
(***************************************************************************)
EXTENDS Boot, TLAPS

-----------------------------------------------------------------------------
(* The start. *)

\* A recorded version is in force, and nobody knows of one that is not recorded.
RecordedInForce ==
    /\ \A s \in AllStatements : s[1] \in recorded => s \in applied
    /\ \A p \in Processes : known[p] \subseteq recorded

\* What is behind a migrating process is in force.
BehindInForce ==
    \A p \in Processes : proc[p] = "migrate" =>
        /\ AtStatement(p) <= Statements[AtVersion(p)] + 1
        /\ \A s \in AllStatements :
              s[1] < AtVersion(p) \/ (s[1] = AtVersion(p) /\ s[2] < AtStatement(p)) => s \in applied

\* What a process that seeds, or serves, has done.
SeedsPlanted ==
    \A p \in Processes :
        /\ proc[p] \in {"seed", "serve"} => AllStatements \subseteq applied
        /\ proc[p] = "seed" => \A x \in SeedRows \ left[p] : seeded[x] # "absent"
        /\ proc[p] = "serve" => \A x \in SeedRows : seeded[x] # "absent"

StaInv == StaTypeOK /\ RecordedInForce /\ BehindInForce /\ SeedsPlanted

-----------------------------------------------------------------------------
\* A statement is a version's and has a number within it.
LEMMA StatementFacts ==
    /\ \A s \in AllStatements :
          s[1] \in 1..Versions /\ s[2] \in 1..Statements[s[1]] /\ s = <<s[1], s[2]>>
    /\ \A v \in 1..Versions, i \in Nat \ {0} :
          Statements[v] \in Nat \ {0} /\ (i <= Statements[v] => <<v, i>> \in AllStatements)
  BY StartupAssumption DEF AllStatements

LEMMA InitStaInv == StaInit => StaInv
<1> SUFFICES ASSUME StaInit PROVE StaInv
  OBVIOUS
<1>1. PICK v \in 0..(Versions - 1) :
          /\ recorded = 1..v
          /\ applied = {s \in AllStatements : s[1] <= v}
          /\ seeded \in [SeedRows -> {"absent", "default", "edited"}]
  BY DEF StaInit
<1>2. recorded \subseteq 1..Versions
  BY <1>1, StartupAssumption
<1>3. StaTypeOK
  BY <1>1, <1>2, StartupAssumption DEF StaInit, StaTypeOK
<1>4. RecordedInForce
  BY <1>1 DEF StaInit, RecordedInForce
<1>5. BehindInForce /\ SeedsPlanted
  BY DEF StaInit, BehindInForce, SeedsPlanted
<1> QED
  BY <1>3, <1>4, <1>5 DEF StaInv

\* The step that all the migrating actions end with.
LEMMA OnwardsKeeps ==
    ASSUME StaTypeOK, NEW p \in Processes, proc[p] = "migrate", Onwards(p),
           \A s \in AllStatements : s[1] <= AtVersion(p) => s \in applied
    PROVE  /\ proc' \in [Processes -> {"down", "connect", "read", "migrate", "seed", "serve", "failed"}]
           /\ cursor' \in [Processes -> (1..Versions) \X (Nat \ {0})]
           /\ left' \in [Processes -> SUBSET SeedRows]
           /\ \A q \in Processes \ {p} : proc'[q] = proc[q] /\ cursor'[q] = cursor[q] /\ left'[q] = left[q]
           /\ proc'[p] = "seed" => AllStatements \subseteq applied /\ left'[p] = SeedRows
           /\ proc'[p] \in {"migrate", "seed"}
           /\ proc'[p] = "migrate" =>
                 /\ cursor'[p] = <<AtVersion(p) + 1, 1>>
                 /\ AtVersion(p) + 1 \in 1..Versions
<1>1. AtVersion(p) \in 1..Versions /\ cursor[p] = <<AtVersion(p), AtStatement(p)>>
  BY DEF StaTypeOK, AtVersion, AtStatement
<1>2. CASE AtVersion(p) = Versions
  <2>1. proc' = [proc EXCEPT ![p] = "seed"] /\ left' = [left EXCEPT ![p] = SeedRows] /\ cursor' = cursor
    BY <1>2 DEF Onwards, Enters
  <2>2. AllStatements \subseteq applied
    BY <1>2, StatementFacts, StartupAssumption
  <2> QED
    BY <2>1, <2>2 DEF StaTypeOK
<1>3. CASE AtVersion(p) # Versions
  <2>1. proc' = proc /\ left' = left /\ cursor' = [cursor EXCEPT ![p] = <<AtVersion(p) + 1, 1>>]
    BY <1>3 DEF Onwards
  <2>2. AtVersion(p) + 1 \in 1..Versions
    BY <1>1, <1>3, StartupAssumption
  <2> QED
    BY <2>1, <2>2 DEF StaTypeOK
<1> QED
  BY <1>2, <1>3

\* One step per action.
LEMMA NextStaInv == StaInv /\ [StaNext]_staVars => StaInv'
<1> SUFFICES ASSUME StaInv, [StaNext]_staVars PROVE StaInv'
  OBVIOUS
<1> USE DEF StaInv
<1>0. CASE UNCHANGED staVars
  BY <1>0 DEF staVars, StaTypeOK, RecordedInForce, BehindInForce, SeedsPlanted, AtVersion, AtStatement
<1>1. ASSUME NEW p \in Processes, Start(p) \/ Connect(p) \/ Die(p)
      PROVE  StaInv'
  <2>1. /\ UNCHANGED <<applied, recorded, seeded, known, cursor, left>>
        /\ proc' \in [Processes -> {"down", "connect", "read", "migrate", "seed", "serve", "failed"}]
        /\ \A q \in Processes : proc'[q] = proc[q] \/ proc'[q] \in {"connect", "read", "down"}
    BY <1>1 DEF Start, Connect, Die, Enters, StaTypeOK
  <2>2. deaths' \in 0..Deaths
    BY <1>1, StartupAssumption DEF Start, Connect, Die, StaTypeOK
  <2> QED
    BY <2>1, <2>2 DEF StaTypeOK, RecordedInForce, BehindInForce, SeedsPlanted, AtVersion, AtStatement
<1>2. ASSUME NEW p \in Processes, ReadVersions(p)
      PROVE  StaInv'
  <2>1. StaTypeOK'
    BY <1>2, StartupAssumption DEF ReadVersions, Enters, StaTypeOK
  <2>2. RecordedInForce'
    BY <1>2 DEF ReadVersions, RecordedInForce, StaTypeOK
  <2>3. \A q \in Processes : q # p => proc'[q] = proc[q] /\ cursor'[q] = cursor[q]
    BY <1>2 DEF ReadVersions, Enters, StaTypeOK
  <2>4. proc'[p] = "migrate" /\ cursor'[p] = <<1, 1>>
    BY <1>2 DEF ReadVersions, Enters, StaTypeOK
  <2>5. BehindInForce'
    BY <1>2, <2>3, <2>4, StatementFacts, StartupAssumption DEF ReadVersions, BehindInForce, AtVersion, AtStatement
  <2>6. SeedsPlanted'
    BY <1>2, <2>3, <2>4 DEF ReadVersions, SeedsPlanted
  <2> QED
    BY <2>1, <2>2, <2>5, <2>6
<1>3. ASSUME NEW p \in Processes, SkipVersion(p) \/ RecordVersion(p)
      PROVE  StaInv'
  <2>1. AtVersion(p) \in 1..Versions /\ AtStatement(p) \in Nat \ {0}
    BY DEF StaTypeOK, AtVersion, AtStatement
  <2>2. proc[p] = "migrate" /\ Onwards(p)
    BY <1>3 DEF SkipVersion, RecordVersion
  <2>3. \A s \in AllStatements : s[1] <= AtVersion(p) => s \in applied
    <3> SUFFICES ASSUME NEW s \in AllStatements, s[1] <= AtVersion(p) PROVE s \in applied
      OBVIOUS
    <3>1. CASE s[1] < AtVersion(p)
      BY <2>2, <3>1 DEF BehindInForce
    <3>2. CASE s[1] = AtVersion(p) /\ SkipVersion(p)
      BY <3>2 DEF SkipVersion, RecordedInForce
    <3>3. CASE s[1] = AtVersion(p) /\ RecordVersion(p)
      <4>1. s[2] < AtStatement(p)
        BY <2>1, <3>3, StatementFacts DEF RecordVersion
      <4> QED
        BY <2>2, <3>3, <4>1 DEF BehindInForce
    <3> QED
      BY <1>3, <2>1, <3>1, <3>2, <3>3, StatementFacts
  <2>4. /\ UNCHANGED <<applied, seeded, known, deaths>>
        /\ recorded' = recorded \/ recorded' = recorded \union {AtVersion(p)}
    BY <1>3 DEF SkipVersion, RecordVersion
  <2>5. StaTypeOK'
    BY <2>1, <2>2, <2>3, <2>4, OnwardsKeeps DEF StaTypeOK
  <2>6. RecordedInForce'
    BY <2>1, <2>3, <2>4, StatementFacts DEF RecordedInForce
  <2>7. BehindInForce'
    <3> SUFFICES ASSUME NEW q \in Processes, proc'[q] = "migrate"
                 PROVE  /\ cursor'[q][2] <= Statements[cursor'[q][1]] + 1
                        /\ \A s \in AllStatements :
                              s[1] < cursor'[q][1] \/ (s[1] = cursor'[q][1] /\ s[2] < cursor'[q][2])
                              => s \in applied
      BY <2>4 DEF BehindInForce, AtVersion, AtStatement
    <3>1. CASE q # p
      BY <2>2, <2>3, <3>1, OnwardsKeeps DEF BehindInForce, AtVersion, AtStatement
    <3>2. CASE q = p
      <4>1. cursor'[p] = <<AtVersion(p) + 1, 1>> /\ AtVersion(p) + 1 \in 1..Versions
        BY <2>2, <2>3, <3>2, OnwardsKeeps
      <4>2. cursor'[p][1] = AtVersion(p) + 1 /\ cursor'[p][2] = 1
        BY <4>1
      <4>3. Statements[AtVersion(p) + 1] \in Nat
        BY <4>1, StartupAssumption
      <4>4. cursor'[q][2] <= Statements[cursor'[q][1]] + 1
        BY <3>2, <4>2, <4>3
      <4>5. ASSUME NEW s \in AllStatements, s[1] < AtVersion(p) + 1 \/ (s[1] = AtVersion(p) + 1 /\ s[2] < 1)
            PROVE  s \in applied
        <5>1. s[1] \in Nat /\ s[2] \in Nat \ {0} /\ AtVersion(p) \in Nat
          BY <2>1, StatementFacts
        <5>2. s[1] <= AtVersion(p)
          BY <4>5, <5>1
        <5> QED
          BY <2>3, <5>2
      <4> QED
        BY <3>2, <4>2, <4>4, <4>5
    <3> QED
      BY <3>1, <3>2
  <2>8. SeedsPlanted'
    BY <2>2, <2>3, <2>4, OnwardsKeeps DEF SeedsPlanted
  <2> QED
    BY <2>5, <2>6, <2>7, <2>8
<1>4. ASSUME NEW p \in Processes, RunStatement(p)
      PROVE  StaInv'
  <2>1. /\ AtVersion(p) \in 1..Versions /\ AtStatement(p) \in Nat \ {0}
        /\ cursor[p] = <<AtVersion(p), AtStatement(p)>>
    BY DEF StaTypeOK, AtVersion, AtStatement
  <2>2. /\ proc[p] = "migrate" /\ AtStatement(p) <= Statements[AtVersion(p)]
        /\ applied' = applied \union {cursor[p]}
        /\ cursor' = [cursor EXCEPT ![p][2] = @ + 1]
        /\ UNCHANGED <<proc, recorded, seeded, known, left, deaths>>
    BY <1>4 DEF RunStatement, Tolerated
  <2>3. cursor[p] \in AllStatements
    BY <2>1, <2>2, StatementFacts
  <2>4. cursor'[p] = <<AtVersion(p), AtStatement(p) + 1>> /\ \A q \in Processes \ {p} : cursor'[q] = cursor[q]
    BY <2>1, <2>2 DEF StaTypeOK
  <2>5. cursor' \in [Processes -> (1..Versions) \X (Nat \ {0})]
    <3>1. <<AtVersion(p), AtStatement(p) + 1>> \in (1..Versions) \X (Nat \ {0})
      BY <2>1
    <3>2. cursor' = [cursor EXCEPT ![p] = <<AtVersion(p), AtStatement(p) + 1>>]
      <4>1. [cursor[p] EXCEPT ![2] = @ + 1] = <<AtVersion(p), AtStatement(p) + 1>>
        BY <2>1
      <4> QED
        BY <2>2, <4>1 DEF StaTypeOK
    <3> QED
      BY <3>1, <3>2 DEF StaTypeOK
  <2>6. StaTypeOK'
    BY <2>2, <2>3, <2>5 DEF StaTypeOK
  <2>7. RecordedInForce'
    BY <2>2 DEF RecordedInForce
  <2>8. BehindInForce'
    <3> SUFFICES ASSUME NEW q \in Processes, proc[q] = "migrate"
                 PROVE  /\ cursor'[q][2] <= Statements[cursor'[q][1]] + 1
                        /\ \A s \in AllStatements :
                              s[1] < cursor'[q][1] \/ (s[1] = cursor'[q][1] /\ s[2] < cursor'[q][2])
                              => s \in applied'
      BY <2>2 DEF BehindInForce, AtVersion, AtStatement
    <3>1. CASE q # p
      BY <2>2, <2>4, <3>1 DEF BehindInForce, AtVersion, AtStatement
    <3>2. CASE q = p
      <4>1. AtStatement(p) + 1 <= Statements[AtVersion(p)] + 1
        BY <2>1, <2>2, StatementFacts
      <4>2. ASSUME NEW s \in AllStatements,
                   s[1] < AtVersion(p) \/ (s[1] = AtVersion(p) /\ s[2] < AtStatement(p) + 1)
            PROVE  s \in applied'
        <5>1. CASE s[1] = AtVersion(p) /\ s[2] = AtStatement(p)
          BY <2>1, <2>2, <5>1, StatementFacts
        <5>2. CASE ~(s[1] = AtVersion(p) /\ s[2] = AtStatement(p))
          <6>1. s[1] < AtVersion(p) \/ (s[1] = AtVersion(p) /\ s[2] < AtStatement(p))
            BY <2>1, <4>2, <5>2, StatementFacts
          <6> QED
            BY <2>2, <6>1 DEF BehindInForce
        <5> QED
          BY <5>1, <5>2
      <4> QED
        BY <2>4, <3>2, <4>1, <4>2
    <3> QED
      BY <3>1, <3>2
  <2>9. SeedsPlanted'
    BY <2>2 DEF SeedsPlanted
  <2> QED
    BY <2>6, <2>7, <2>8, <2>9
<1>5. ASSUME NEW p \in Processes, NEW x \in SeedRows, PlantRow(p, x)
      PROVE  StaInv'
  <2>1. seeded'[x] # "absent" /\ \A y \in SeedRows : seeded'[y] = seeded[y] \/ y = x
    BY <1>5 DEF PlantRow, Planted, StaTypeOK
  <2>2. StaTypeOK'
    BY <1>5 DEF PlantRow, Planted, StaTypeOK
  <2>3. RecordedInForce' /\ BehindInForce'
    BY <1>5 DEF PlantRow, RecordedInForce, BehindInForce, AtVersion, AtStatement
  <2>4. SeedsPlanted'
    BY <1>5, <2>1 DEF PlantRow, SeedsPlanted, StaTypeOK
  <2> QED
    BY <2>2, <2>3, <2>4
<1>6. ASSUME NEW p \in Processes, Serve(p)
      PROVE  StaInv'
  <2>1. StaTypeOK'
    BY <1>6 DEF Serve, Enters, StaTypeOK
  <2>2. RecordedInForce' /\ BehindInForce'
    BY <1>6 DEF Serve, Enters, RecordedInForce, BehindInForce, AtVersion, AtStatement, StaTypeOK
  <2>3. SeedsPlanted'
    BY <1>6 DEF Serve, Enters, SeedsPlanted, StaTypeOK
  <2> QED
    BY <2>1, <2>2, <2>3
<1>7. ASSUME NEW x \in SettingRows, EditRow(x)
      PROVE  StaInv'
  <2>1. x \in SeedRows
    BY DEF SeedRows
  <2>2. StaTypeOK'
    BY <1>7, <2>1 DEF EditRow, StaTypeOK
  <2>3. RecordedInForce' /\ BehindInForce'
    BY <1>7 DEF EditRow, RecordedInForce, BehindInForce, AtVersion, AtStatement
  <2>4. SeedsPlanted'
    BY <1>7, <2>1 DEF EditRow, SeedsPlanted, StaTypeOK
  <2> QED
    BY <2>2, <2>3, <2>4
<1> QED
  BY <1>0, <1>1, <1>2, <1>3, <1>4, <1>5, <1>6, <1>7 DEF StaNext, StaStep

-----------------------------------------------------------------------------
\* A start keeps its types: what is in force is a statement of a version, and
\* a process is at a statement number or past the last.
THEOREM StartupTypeCorrect == StaSpec => []StaTypeOK
<1>1. StaInv => StaTypeOK
  BY DEF StaInv
<1> QED
  BY <1>1, InitStaInv, NextStaInv, PTL DEF StaSpec

\* Whoever serves has the whole schema and all the seeds, and a recorded version
\* is in force, however many processes start at once and wherever they die (Up,
\* Seed).
THEOREM ServersAreReady == StaSpec => []ServesComplete
<1>1. StaInv => ServesComplete
  BY DEF StaInv, StaTypeOK, RecordedInForce, SeedsPlanted, ServesComplete
<1> QED
  BY <1>1, InitStaInv, NextStaInv, PTL DEF StaSpec

-----------------------------------------------------------------------------
(* The accounts. *)

\* The roles a request goes by were given to the name it goes by.
GoesByGranted == \A c \in Clients : task[c].at = "in" => task[c].roles \subseteq granted[task[c].who]

AccInv == AccTypeOK /\ RolesWereGranted /\ GoesByGranted /\ SomebodyIsLeft

-----------------------------------------------------------------------------
\* What a request holds.
LEMMA TaskFacts ==
    /\ AccFree \in AccJob /\ AccFree.at = "idle"
    /\ \A n \in Names, pw \in Passwords : [at |-> "roles", who |-> n, hash |-> pw] \in AccJob
    /\ \A n \in Names, pw \in Passwords, R \in SUBSET Roles :
          [at |-> "in", who |-> n, hash |-> pw, roles |-> R] \in AccJob
    /\ \A j \in AccJob :
          /\ j.at \in {"roles", "in"} => j.who \in Names /\ j.hash \in Passwords
          /\ j.at = "in" => j.roles \in SUBSET Roles
  BY DEF AccFree, AccJob

\* A user is somebody.
LEMMA UserFacts ==
    /\ NoUser.roles = {}
    /\ \A x \in User : x # NoUser /\ x.hash \in Passwords /\ x.roles \in SUBSET Roles
    /\ \A pw \in Passwords, R \in SUBSET Roles :
          [hash |-> pw, roles |-> R] \in User /\ [hash |-> pw, roles |-> R].roles = R
<1>1. NoUser.hash = "none" /\ NoUser.roles = {}
  BY DEF NoUser
<1>2. \A x \in User : x # NoUser /\ x.hash \in Passwords /\ x.roles \in SUBSET Roles
  BY <1>1, AccountsAssumption DEF User
<1> QED
  BY <1>1, <1>2 DEF User

\* What every write of a user's row comes to: the row is somebody's, with roles
\* that were given to the name, and roles are only ever added to what was given.
LEMMA WriteKeeps ==
    ASSUME AccInv, NEW n \in Names, NEW pw \in Passwords, NEW R \in SUBSET Roles,
           users' = [users EXCEPT ![n] = [hash |-> pw, roles |-> R]],
           granted' \in [Names -> SUBSET Roles], R \subseteq granted'[n],
           \A m \in Names : granted[m] \subseteq granted'[m],
           task' \in [Clients -> AccJob],
           \A c \in Clients : task'[c] = task[c] \/ task'[c] = AccFree,
           cookie' \subseteq Names,
           seeder' \in [Seeders -> {"count", "insert", "done"}],
           crossed' = crossed
    PROVE  AccInv'
<1>1. users'[n] \in User /\ users'[n].roles = R /\ \A m \in Names \ {n} : users'[m] = users[m]
  BY UserFacts DEF AccInv, AccTypeOK
<1>3. AccTypeOK'
  BY UserFacts DEF AccInv, AccTypeOK
<1>4. RolesWereGranted'
  BY <1>1 DEF AccInv, RolesWereGranted
<1>5. GoesByGranted'
  <2> SUFFICES ASSUME NEW c \in Clients, task'[c].at = "in"
               PROVE  task'[c].roles \subseteq granted'[task'[c].who]
    BY DEF GoesByGranted
  <2>1. task'[c] = task[c] /\ task[c].who \in Names
    BY TaskFacts DEF AccInv, AccTypeOK
  <2> QED
    BY <2>1 DEF AccInv, GoesByGranted
<1>6. SomebodyIsLeft'
  BY <1>1, UserFacts DEF SomebodyIsLeft, Exists
<1> QED
  BY <1>3, <1>4, <1>5, <1>6 DEF AccInv

-----------------------------------------------------------------------------
LEMMA InitAccInv == AccInit => AccInv
<1> SUFFICES ASSUME AccInit PROVE AccInv
  OBVIOUS
<1>1. AccTypeOK
  BY TaskFacts DEF AccInit, AccTypeOK
<1>2. RolesWereGranted
  BY UserFacts DEF AccInit, RolesWereGranted
<1>3. GoesByGranted
  BY TaskFacts DEF AccInit, GoesByGranted
<1>4. SomebodyIsLeft
  BY DEF AccInit, SomebodyIsLeft
<1> QED
  BY <1>1, <1>2, <1>3, <1>4 DEF AccInv

\* One step per action, the reading ones together.
LEMMA NextAccInv == AccInv /\ [AccNext]_accVars => AccInv'
<1> SUFFICES ASSUME AccInv, [AccNext]_accVars PROVE AccInv'
  OBVIOUS
<1>0. CASE UNCHANGED accVars
  BY <1>0 DEF accVars, AccInv, AccTypeOK, RolesWereGranted, GoesByGranted, SomebodyIsLeft, Exists
<1>1. ASSUME UNCHANGED <<users, granted, crossed>>,
             task' \in [Clients -> AccJob], cookie' \subseteq Names,
             seeder' \in [Seeders -> {"count", "insert", "done"}],
             \A c \in Clients : task'[c].at = "in" =>
                 task'[c] = task[c] \/ task'[c].roles \subseteq granted[task'[c].who]
      PROVE  AccInv'
  BY <1>1 DEF AccInv, AccTypeOK, RolesWereGranted, GoesByGranted, SomebodyIsLeft, Exists
<1>2. ASSUME NEW p \in Seeders, CountUsers(p) \/ StartAgain(p)
      PROVE  AccInv'
  BY <1>1, <1>2 DEF CountUsers, StartAgain, AccInv, AccTypeOK
<1>3. ASSUME NEW n \in Names, (\E pw \in Passwords : Login(n, pw)) \/ Logout(n)
      PROVE  AccInv'
  BY <1>1, <1>3 DEF Login, Logout, AccInv, AccTypeOK
<1>4. ASSUME NEW c \in Clients, NEW n \in Names, ReadUser(c, n)
      PROVE  AccInv'
  <2>1. users[n].hash \in Passwords
    BY <1>4, UserFacts DEF ReadUser, Exists, AccInv, AccTypeOK
  <2>2. task' \in [Clients -> AccJob]
    BY <1>4, <2>1, TaskFacts DEF ReadUser, Stands, AccInv, AccTypeOK
  <2>3. \A d \in Clients : task'[d].at = "in" => task'[d] = task[d]
    BY <1>4 DEF ReadUser, Stands, AccInv, AccTypeOK
  <2> QED
    BY <1>1, <1>4, <2>2, <2>3 DEF ReadUser, AccInv, AccTypeOK
<1>5. ASSUME NEW c \in Clients, ReadRoles(c)
      PROVE  AccInv'
  <2> DEFINE n == task[c].who
  <2>1. n \in Names /\ task[c].hash \in Passwords
    BY <1>5, TaskFacts DEF ReadRoles, AccInv, AccTypeOK
  <2>2. users[n].roles \in SUBSET Roles /\ users[n].roles \subseteq granted[n]
    BY <2>1, UserFacts DEF AccInv, AccTypeOK, RolesWereGranted
  <2>3. task' = [task EXCEPT ![c] = [at |-> "in", who |-> n, hash |-> task[c].hash, roles |-> users[n].roles]]
    BY <1>5 DEF ReadRoles, Stands
  <2>4. task' \in [Clients -> AccJob]
    BY <2>1, <2>2, <2>3, TaskFacts DEF AccInv, AccTypeOK
  <2>5. \A d \in Clients : task'[d] = task[d] \/ task'[d].roles \subseteq granted[task'[d].who]
    BY <2>2, <2>3 DEF AccInv, AccTypeOK
  <2> QED
    BY <1>1, <1>5, <2>4, <2>5 DEF ReadRoles, AccInv, AccTypeOK
<1>6. ASSUME NEW c \in Clients, TurnAway(c)
      PROVE  AccInv'
  <2>1. task' = [task EXCEPT ![c] = AccFree]
    BY <1>6 DEF TurnAway, Answered, Stands
  <2>2. task' \in [Clients -> AccJob] /\ \A d \in Clients : task'[d].at = "in" => task'[d] = task[d]
    BY <2>1, TaskFacts DEF AccInv, AccTypeOK
  <2> QED
    BY <1>1, <1>6, <2>2 DEF TurnAway, AccInv, AccTypeOK
<1>7. ASSUME NEW c \in Clients, NEW n \in Names, NEW pw \in Passwords, NEW R \in SUBSET Roles,
             CreateUser(c, n, pw, R) \/ UpdateUser(c, n, pw, R)
      PROVE  AccInv'
  <2>1. /\ users' = [users EXCEPT ![n] = [hash |-> pw, roles |-> R]]
        /\ granted' = [granted EXCEPT ![n] = @ \union R]
        /\ task' = [task EXCEPT ![c] = AccFree]
        /\ UNCHANGED <<cookie, seeder, crossed>>
    BY <1>7 DEF CreateUser, UpdateUser, Answered, Stands
  <2>2. task' \in [Clients -> AccJob] /\ \A d \in Clients : task'[d] = task[d] \/ task'[d] = AccFree
    BY <2>1, TaskFacts DEF AccInv, AccTypeOK
  <2>3. cookie' \subseteq Names /\ seeder' \in [Seeders -> {"count", "insert", "done"}]
    BY <2>1 DEF AccInv, AccTypeOK
  <2>4. /\ granted' \in [Names -> SUBSET Roles] /\ R \subseteq granted'[n]
        /\ \A m \in Names : granted[m] \subseteq granted'[m]
    BY <2>1 DEF AccInv, AccTypeOK
  <2> QED
    BY <2>1, <2>2, <2>3, <2>4, WriteKeeps
<1>8. ASSUME NEW c \in Clients, NEW old \in Passwords, NEW pw \in Passwords, ChangePassword(c, old, pw)
      PROVE  AccInv'
  <2>1. task[c].at = "in"
    BY <1>8 DEF ChangePassword, LetIn
  <2>2. PICK n \in Names, R \in SUBSET Roles :
          n = task[c].who /\ R = task[c].roles /\ R \subseteq granted[n]
    BY <2>1, TaskFacts DEF AccInv, AccTypeOK, GoesByGranted
  <2>3. /\ users' = [users EXCEPT ![n] = [hash |-> pw, roles |-> R]]
        /\ task' = [task EXCEPT ![c] = AccFree]
        /\ UNCHANGED <<cookie, seeder, granted, crossed>>
    BY <1>8, <2>2 DEF ChangePassword, RolesKept, Answered, Stands
  <2>4. task' \in [Clients -> AccJob] /\ \A d \in Clients : task'[d] = task[d] \/ task'[d] = AccFree
    BY <2>3, TaskFacts DEF AccInv, AccTypeOK
  <2>5. cookie' \subseteq Names /\ seeder' \in [Seeders -> {"count", "insert", "done"}]
    BY <2>3 DEF AccInv, AccTypeOK
  <2>6. /\ granted' \in [Names -> SUBSET Roles] /\ R \subseteq granted'[n]
        /\ \A m \in Names : granted[m] \subseteq granted'[m]
    BY <2>2, <2>3 DEF AccInv, AccTypeOK
  <2> QED
    BY <2>3, <2>4, <2>5, <2>6, WriteKeeps
<1>9. ASSUME NEW p \in Seeders, NEW pw \in Passwords, InsertAdmin(p, pw)
      PROVE  AccInv'
  <2>1. /\ seeder' \in [Seeders -> {"count", "insert", "done"}]
        /\ UNCHANGED <<cookie, task, crossed>>
        /\ task \in [Clients -> AccJob] /\ cookie \subseteq Names
    BY <1>9 DEF InsertAdmin, AccInv, AccTypeOK
  <2>2. CASE Exists("admin")
    BY <1>1, <1>9, <2>1, <2>2 DEF InsertAdmin, SeededUsers
  <2>3. CASE ~Exists("admin")
    <3>1. /\ users' = [users EXCEPT !["admin"] = [hash |-> pw, roles |-> Roles]]
          /\ granted' = [granted EXCEPT !["admin"] = Roles]
      BY <1>9, <2>3 DEF InsertAdmin, SeededUsers
    <3>2. "admin" \in Names /\ granted["admin"] \subseteq Roles
      BY AccountsAssumption DEF AccInv, AccTypeOK
    <3>3. /\ granted' \in [Names -> SUBSET Roles] /\ Roles \subseteq granted'["admin"]
          /\ \A m \in Names : granted[m] \subseteq granted'[m]
      BY <3>1, <3>2 DEF AccInv, AccTypeOK
    <3>4. task' \in [Clients -> AccJob] /\ cookie' \subseteq Names
      BY <2>1
    <3> QED
      BY <2>1, <3>1, <3>2, <3>3, <3>4, WriteKeeps
  <2> QED
    BY <2>2, <2>3
<1>10. ASSUME NEW c \in Clients, NEW n \in Names, DeleteUser(c, n)
       PROVE  AccInv'
  <2> DEFINE who == task[c].who
  <2>1. /\ users' = [users EXCEPT ![n] = NoUser]
        /\ task' = [task EXCEPT ![c] = AccFree]
        /\ crossed' = (crossed \/ ~Exists(who))
        /\ UNCHANGED <<cookie, seeder, granted>>
    BY <1>10 DEF DeleteUser, Answered, Stands
  <2>2. who \in Names /\ who # n
    BY <1>10, TaskFacts DEF DeleteUser, Manages, LetIn, MayDelete, AccInv, AccTypeOK
  <2>3. task' \in [Clients -> AccJob] /\ \A d \in Clients : task'[d].at = "in" => task'[d] = task[d]
    BY <2>1, TaskFacts DEF AccInv, AccTypeOK
  <2>4. users'[n] = NoUser /\ \A m \in Names \ {n} : users'[m] = users[m]
    BY <2>1 DEF AccInv, AccTypeOK
  <2>5. AccTypeOK'
    BY <2>1, <2>3 DEF AccInv, AccTypeOK
  <2>6. RolesWereGranted'
    BY <2>1, <2>4, UserFacts DEF AccInv, RolesWereGranted
  <2>7. GoesByGranted'
    BY <2>1, <2>3 DEF AccInv, GoesByGranted
  <2>8. SomebodyIsLeft'
    BY <2>1, <2>2, <2>4 DEF SomebodyIsLeft, Exists
  <2> QED
    BY <2>5, <2>6, <2>7, <2>8 DEF AccInv
<1> QED
  BY <1>0, <1>2, <1>3, <1>4, <1>5, <1>6, <1>7, <1>8, <1>9, <1>10 DEF AccNext

-----------------------------------------------------------------------------
\* The accounts keep their types.
THEOREM AccountsTypeCorrect == AccSpec => []AccTypeOK
<1>1. AccInv => AccTypeOK
  BY DEF AccInv
<1> QED
  BY <1>1, InitAccInv, NextAccInv, PTL DEF AccSpec

\* Nobody ever holds a role that was not given to that name, whatever requests
\* meet over the account (passwordSave, userSave).
THEOREM AccessIsGranted == AccSpec => []RolesWereGranted
<1>1. AccInv => RolesWereGranted
  BY DEF AccInv
<1> QED
  BY <1>1, InitAccInv, NextAccInv, PTL DEF AccSpec

\* Deleting never empties the table, but by the hand of somebody already deleted
\* (userDelete).
THEOREM LastUserStays == AccSpec => []SomebodyIsLeft
<1>1. AccInv => SomebodyIsLeft
  BY DEF AccInv
<1> QED
  BY <1>1, InitAccInv, NextAccInv, PTL DEF AccSpec

\* No step of SeedAdmin touches a user who exists, in any number of processes
\* that start at once.
THEOREM SeedIsHarmless == AccSpec => SeedingChangesNobody
<1> DEFINE Harmless == seeder' # seeder => \A n \in Names : Exists(n) => users'[n] = users[n]
<1>1. AccInv /\ [AccNext]_accVars => [Harmless]_accVars
  <2> SUFFICES ASSUME AccInv, AccNext, seeder' # seeder, NEW n \in Names, Exists(n)
               PROVE  users'[n] = users[n]
    OBVIOUS
  <2>1. PICK p \in Seeders : CountUsers(p) \/ (\E pw \in Passwords : InsertAdmin(p, pw)) \/ StartAgain(p)
    BY DEF AccNext, Login, Logout, ReadUser, DeleteUser, ReadRoles, CreateUser, UpdateUser,
       ChangePassword, TurnAway
  <2>2. CASE CountUsers(p) \/ StartAgain(p)
    BY <2>2 DEF CountUsers, StartAgain
  <2>3. CASE \E pw \in Passwords : InsertAdmin(p, pw)
    BY <2>3 DEF InsertAdmin, SeededUsers, AccInv, AccTypeOK
  <2> QED
    BY <2>1, <2>2, <2>3
<1>2. AccSpec => [][Harmless]_accVars
  BY <1>1, InitAccInv, NextAccInv, PTL DEF AccSpec
<1> QED
  BY <1>2 DEF SeedingChangesNobody

-----------------------------------------------------------------------------
(* The settings. *)

\* What a save read was in the table, and the table's history has its present.
ReadsWere == table \in past /\ \A s \in Saves : save[s] = "publish" => read[s] \in past

\* A save that met no other was begun and is the only one on its way; and if it
\* committed last, no other is about to publish, and what it read is in force.
AloneIsAlone ==
    /\ latest \in Saves => save[latest] \notin {"idle", "commit"}
    /\ \A s \in alone : save[s] # "idle"
    /\ \A s \in alone, t \in Saves : s \in InFlight /\ t \in InFlight => s = t
    /\ latest \in alone => \A t \in Saves : save[t] \in {"reload", "publish"} => t = latest
    /\ latest \in alone /\ save[latest] = "publish" => read[latest] = table

SetInv == SetTypeOK /\ ReadsWere /\ AloneIsAlone /\ SnapshotFollows

LEMMA InitSetInv == SetInit => SetInv
<1> SUFFICES ASSUME SetInit PROVE SetInv
  OBVIOUS
<1>1. FreshTable \in SettingsTable /\ FreshTable["timezone"] = Seeded
  BY SettingsAssumption DEF FreshTable, SettingsTable, SettingKeys
<1> QED
  BY <1>1, SettingsAssumption
  DEF SetInit, SetInv, SetTypeOK, ReadsWere, AloneIsAlone, SnapshotFollows, InFlight

LEMMA NextSetInv == SetInv /\ [SetNext]_setVars => SetInv'
<1> SUFFICES ASSUME SetInv, [SetNext]_setVars PROVE SetInv'
  OBVIOUS
<1> USE SettingsAssumption DEF SetInv
<1>0. CASE UNCHANGED setVars
  BY <1>0 DEF setVars, SetTypeOK, ReadsWere, AloneIsAlone, SnapshotFollows, InFlight
<1>1. ASSUME NEW s \in Saves, OpenSettings(s)
      PROVE  SetInv'
  <2>1. /\ save[s] = "idle" /\ save'[s] = "commit"
        /\ \A t \in Saves \ {s} : save'[t] = save[t]
        /\ UNCHANGED <<table, snapshot, zone, read, past, latest>>
    BY <1>1 DEF OpenSettings, Goes, SetTypeOK
  <2>2. SetTypeOK'
    BY <1>1 DEF OpenSettings, Goes, SetTypeOK
  <2>3. latest # s
    BY <2>1 DEF AloneIsAlone
  <2>4. latest \in alone' => latest \in alone
    BY <1>1, <2>3 DEF OpenSettings
  <2>5. ReadsWere'
    BY <2>1 DEF ReadsWere
  <2>6. \A r \in alone', t \in Saves : r \in InFlight' /\ t \in InFlight' => r = t
    <3>1. CASE InFlight = {}
      BY <2>1, <3>1 DEF InFlight
    <3>2. CASE InFlight # {}
      BY <1>1, <2>1, <3>2 DEF OpenSettings, InFlight, SetTypeOK, AloneIsAlone
    <3> QED
      BY <3>1, <3>2
  <2>7. AloneIsAlone'
    <3>1. alone' \subseteq alone \union {s}
      BY <1>1 DEF OpenSettings
    <3> QED
      BY <2>1, <2>3, <2>4, <2>6, <3>1 DEF AloneIsAlone, SetTypeOK
  <2>8. SnapshotFollows'
    BY <2>1, <2>3, <2>4, <2>2 DEF SnapshotFollows, SetTypeOK
  <2> QED
    BY <2>2, <2>5, <2>7, <2>8
<1>2. ASSUME NEW s \in Saves, Commit(s)
      PROVE  SetInv'
  <2>1. /\ save[s] = "commit" /\ save'[s] = "reload"
        /\ \A t \in Saves \ {s} : save'[t] = save[t]
        /\ latest' = s /\ past' = past \union {table'}
        /\ UNCHANGED <<snapshot, zone, read, alone>>
    BY <1>2 DEF Commit, Goes, SetTypeOK
  <2>2. table' \in SettingsTable
    BY <1>2 DEF Commit, SetTypeOK, SettingsTable
  <2>3. SetTypeOK'
    BY <1>2, <2>1, <2>2 DEF Commit, Goes, SetTypeOK
  <2>4. ReadsWere'
    BY <2>1 DEF ReadsWere
  <2>5. AloneIsAlone'
    <3>1. InFlight' = InFlight /\ s \in InFlight
      BY <2>1 DEF InFlight
    <3>2. s \in alone => \A t \in Saves : t \in InFlight => t = s
      BY <3>1 DEF AloneIsAlone
    <3>3. s \in alone => \A t \in Saves : save'[t] \in {"reload", "publish"} => t = s
      BY <2>1, <3>2 DEF InFlight
    <3> QED
      BY <2>1, <3>1, <3>3 DEF AloneIsAlone, SetTypeOK
  <2>6. SnapshotFollows'
    BY <2>1 DEF SnapshotFollows
  <2> QED
    BY <2>3, <2>4, <2>5, <2>6
<1>3. ASSUME NEW s \in Saves, ReadTable(s)
      PROVE  SetInv'
  <2>1. /\ save[s] = "reload" /\ save'[s] = "publish" /\ read'[s] = table
        /\ \A t \in Saves \ {s} : save'[t] = save[t] /\ read'[t] = read[t]
        /\ UNCHANGED <<table, snapshot, zone, past, alone, latest>>
    BY <1>3 DEF ReadTable, Goes, SetTypeOK
  <2>2. SetTypeOK'
    BY <1>3 DEF ReadTable, Goes, SetTypeOK
  <2>3. ReadsWere'
    BY <2>1 DEF ReadsWere
  <2>4. AloneIsAlone'
    BY <2>1 DEF AloneIsAlone, InFlight, SetTypeOK
  <2>5. SnapshotFollows'
    BY <2>1 DEF SnapshotFollows, SetTypeOK
  <2> QED
    BY <2>2, <2>3, <2>4, <2>5
<1>4. ASSUME NEW s \in Saves, Publish(s)
      PROVE  SetInv'
  <2>1. /\ save[s] = "publish" /\ save'[s] = "done"
        /\ \A t \in Saves \ {s} : save'[t] = save[t]
        /\ snapshot' = read[s] /\ zone' = read[s]["timezone"]
        /\ UNCHANGED <<table, read, past, alone, latest>>
    BY <1>4 DEF Publish, Goes, SetTypeOK
  <2>2. SetTypeOK'
    <3>1. read[s] \in SettingsTable
      BY DEF SetTypeOK
    <3>2. read[s]["timezone"] \in Saves \union {Seeded}
      BY <3>1 DEF SettingsTable, SettingKeys
    <3> QED
      BY <1>4, <2>1, <3>1, <3>2 DEF Publish, Goes, SetTypeOK
  <2>3. ReadsWere'
    BY <2>1 DEF ReadsWere
  <2>4. AloneIsAlone'
    BY <2>1 DEF AloneIsAlone, InFlight, SetTypeOK
  <2>5. snapshot' \in past'
    BY <2>1 DEF ReadsWere
  <2>6. latest \in alone => latest = s /\ read[s] = table
    BY <2>1 DEF AloneIsAlone
  <2>7. SnapshotFollows'
    BY <2>1, <2>5, <2>6 DEF SnapshotFollows
  <2> QED
    BY <2>2, <2>3, <2>4, <2>7
<1>5. ASSUME NEW s \in Saves, SaveFails(s)
      PROVE  SetInv'
  <2>1. /\ save[s] \in {"commit", "reload"} /\ save'[s] = "failed"
        /\ \A t \in Saves \ {s} : save'[t] = save[t]
        /\ UNCHANGED <<table, snapshot, zone, read, past, alone, latest>>
    BY <1>5 DEF SaveFails, Goes, SetTypeOK
  <2>2. SetTypeOK'
    BY <1>5 DEF SaveFails, Goes, SetTypeOK
  <2>3. ReadsWere' /\ AloneIsAlone'
    BY <2>1 DEF ReadsWere, AloneIsAlone, InFlight, SetTypeOK
  <2>4. SnapshotFollows'
    BY <2>1 DEF SnapshotFollows, SetTypeOK
  <2> QED
    BY <2>2, <2>3, <2>4
<1>6. ASSUME Restart
      PROVE  SetInv'
  <2>1. /\ \A t \in Saves : save'[t] = IF save[t] \in {"commit", "reload", "publish"} THEN "failed" ELSE save[t]
        /\ snapshot' = table /\ zone' = table["timezone"]
        /\ UNCHANGED <<table, read, past, alone, latest>>
    BY <1>6 DEF Restart, InFlight
  <2>2. SetTypeOK'
    BY <1>6 DEF Restart, SetTypeOK, SettingsTable, SettingKeys
  <2>3. ReadsWere' /\ AloneIsAlone'
    BY <2>1 DEF ReadsWere, AloneIsAlone, InFlight, SetTypeOK
  <2>4. SnapshotFollows'
    BY <2>1 DEF SnapshotFollows, ReadsWere
  <2> QED
    BY <2>2, <2>3, <2>4
<1> QED
  BY <1>0, <1>1, <1>2, <1>3, <1>4, <1>5, <1>6 DEF SetNext

\* The settings keep their types.
THEOREM SettingsTypeCorrect == SetSpec => []SetTypeOK
<1>1. SetInv => SetTypeOK
  BY DEF SetInv
<1> QED
  BY <1>1, InitSetInv, NextSetInv, PTL DEF SetSpec

\* Readers see the settings of one moment, and those of the last save that met
\* no other (Reload).
THEOREM SnapshotIsCurrent == SetSpec => []SnapshotFollows
<1>1. SetInv => SnapshotFollows
  BY DEF SetInv
<1> QED
  BY <1>1, InitSetInv, NextSetInv, PTL DEF SetSpec

-----------------------------------------------------------------------------
(* The three side by side. *)

LEMMA PartsMove ==
    [BootNext]_bootVars => [StaNext]_staVars /\ [AccNext]_accVars /\ [SetNext]_setVars
BY DEF BootNext, bootVars, StartupMoves, AccountsMove, SettingsMove

\* Whichever part the run looks at, it is a run of every part: of the accounts
\* and the settings by their specifications, of the start but for its fairness
\* (which the others' runs, where no start is under way, have no use for).
THEOREM BootRunsItsParts == BootSpec => AccSpec /\ SetSpec /\ StaInit /\ [][StaNext]_staVars
<1>1. BootInit => AccInit /\ SetInit /\ StaInit
  BY DEF BootInit
<1> QED
  BY <1>1, PartsMove, PTL DEF BootSpec, AccSpec, SetSpec

\* Before anybody is answered the schema and the seeds are there, and then access
\* is what was granted, a user is left, and the settings read are the last saved:
\* all that the run of Boot checks, for all of its constants (Up, Seed,
\* passwordSave, userDelete, Reload).
THEOREM BootIsSafe ==
    BootSpec => [](ServesComplete /\ RolesWereGranted /\ SomebodyIsLeft /\ SnapshotFollows)
<1>1. StaInv => ServesComplete
  BY DEF StaInv, StaTypeOK, RecordedInForce, SeedsPlanted, ServesComplete
<1> QED
  BY <1>1, BootRunsItsParts, InitStaInv, NextStaInv, AccessIsGranted, LastUserStays, SnapshotIsCurrent, PTL

\* And the seeding of the first user touches nobody there is (SeedAdmin).
THEOREM BootSeedIsHarmless == BootSpec => SeedingChangesNobody
BY BootRunsItsParts, SeedIsHarmless, PTL
=============================================================================
