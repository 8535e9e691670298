------------------------------- MODULE Startup -------------------------------
(***************************************************************************)
(* Starting the server: wait for the database, apply the migrations, seed  *)
(* the roles and the settings, serve (cmd/go-blogcfc/main.go, migrate/).   *)
(* MariaDB cannot roll DDL back, so a migration is a file of statements    *)
(* that each tolerate a second run, and its version is recorded last.      *)
(*                                                                         *)
(* Several processes may start on one database, and each may die or lose   *)
(* the database at any statement; whoever runs the server starts it again. *)
(***************************************************************************)
EXTENDS Naturals

CONSTANTS
    Processes,      \* servers and `migrate` commands on one database
    Versions,       \* how many migrations the binary carries
    Statements,     \* of each version: how many statements
    RoleRows,       \* the roles that are seeded
    SettingRows,    \* the settings that are seeded
    Deaths          \* bounds how often processes die in all

ASSUME StartupAssumption ==
    /\ Versions \in Nat \ {0}
    /\ Statements \in [1..Versions -> Nat \ {0}]
    /\ RoleRows \intersect SettingRows = {}
    /\ Deaths \in Nat

VARIABLES
    applied,        \* statements in force: <<version, statement>>
    recorded,       \* schema_migrations
    seeded,         \* the seed rows there are: "default" or "edited"
    proc,           \* where a process is
    known,          \* the versions it found recorded
    cursor,         \* the statement it is at
    left,           \* the seed rows it has not inserted yet
    deaths

staVars == <<applied, recorded, seeded, proc, known, cursor, left, deaths>>

SeedRows == RoleRows \union SettingRows
AllStatements == UNION {{<<v, i>> : i \in 1..Statements[v]} : v \in 1..Versions}

StaTypeOK ==
    /\ applied \subseteq AllStatements
    /\ recorded \subseteq 1..Versions
    /\ seeded \in [SeedRows -> {"absent", "default", "edited"}]
    /\ proc \in [Processes -> {"down", "connect", "read", "migrate", "seed", "serve", "failed"}]
    /\ known \in [Processes -> SUBSET (1..Versions)]
    /\ cursor \in [Processes -> (1..Versions) \X (Nat \ {0})]
    /\ left \in [Processes -> SUBSET SeedRows]
    /\ deaths \in 0..Deaths

\* An empty database, or one that an older binary left at a version.
StaInit ==
    /\ \E v \in 0..(Versions - 1) :
          /\ recorded = 1..v
          /\ applied = {s \in AllStatements : s[1] <= v}
          /\ \/ seeded = [x \in SeedRows |-> "absent"]
             \/ /\ v > 0
                /\ \E edited \in SUBSET SettingRows :
                      seeded = [x \in SeedRows |-> IF x \in edited THEN "edited" ELSE "default"]
    /\ proc = [p \in Processes |-> "down"]
    /\ known = [p \in Processes |-> {}]
    /\ cursor = [p \in Processes |-> <<1, 1>>]
    /\ left = [p \in Processes |-> {}]
    /\ deaths = 0

Enters(p, step) == proc' = [proc EXCEPT ![p] = step]

-----------------------------------------------------------------------------
Start(p) ==
    /\ proc[p] = "down"
    /\ Enters(p, "connect")
    /\ UNCHANGED <<applied, recorded, seeded, known, cursor, left, deaths>>

\* The database answers within the thirty seconds, and schema_migrations is
\* there or created.
Connect(p) ==
    /\ proc[p] = "connect"
    /\ Enters(p, "read")
    /\ UNCHANGED <<applied, recorded, seeded, known, cursor, left, deaths>>

\* appliedVersions, once.
ReadVersions(p) ==
    /\ proc[p] = "read"
    /\ known' = [known EXCEPT ![p] = recorded]
    /\ cursor' = [cursor EXCEPT ![p] = <<1, 1>>]
    /\ Enters(p, "migrate")
    /\ UNCHANGED <<applied, recorded, seeded, left, deaths>>

AtVersion(p) == cursor[p][1]
AtStatement(p) == cursor[p][2]

\* The next version, or the seeds.
Onwards(p) ==
    IF AtVersion(p) = Versions
    THEN /\ Enters(p, "seed")
         /\ left' = [left EXCEPT ![p] = SeedRows]
         /\ UNCHANGED cursor
    ELSE /\ cursor' = [cursor EXCEPT ![p] = <<AtVersion(p) + 1, 1>>]
         /\ UNCHANGED <<proc, left>>

SkipVersion(p) ==
    /\ proc[p] = "migrate"
    /\ AtVersion(p) \in known[p]
    /\ Onwards(p)
    /\ UNCHANGED <<applied, recorded, seeded, known, deaths>>

\* Mutant: a statement fails when what it makes is there.
Mutant_Tolerated(p) == cursor[p] \notin applied

\* A statement that ran before does nothing: IF NOT EXISTS, INSERT IGNORE.
Tolerated(p) == TRUE

RunStatement(p) ==
    /\ proc[p] = "migrate"
    /\ AtVersion(p) \notin known[p]
    /\ AtStatement(p) <= Statements[AtVersion(p)]
    /\ IF Tolerated(p)
       THEN /\ applied' = applied \union {cursor[p]}
            /\ cursor' = [cursor EXCEPT ![p][2] = @ + 1]
            /\ UNCHANGED proc
       ELSE Enters(p, "failed") /\ UNCHANGED <<applied, cursor>>
    /\ UNCHANGED <<recorded, seeded, known, left, deaths>>

\* Mutant: the version is recorded when its first statement has run.
Mutant_RecordVersion(p) ==
    /\ proc[p] = "migrate"
    /\ AtVersion(p) \notin known[p]
    /\ AtStatement(p) > 1
    /\ recorded' = recorded \union {AtVersion(p)}
    /\ Onwards(p)
    /\ UNCHANGED <<applied, seeded, known, deaths>>

RecordVersion(p) ==
    /\ proc[p] = "migrate"
    /\ AtVersion(p) \notin known[p]
    /\ AtStatement(p) > Statements[AtVersion(p)]
    /\ recorded' = recorded \union {AtVersion(p)}
    /\ Onwards(p)
    /\ UNCHANGED <<applied, seeded, known, deaths>>

\* INSERT IGNORE: what is there stays.
Planted(x) == IF seeded[x] = "absent" THEN "default" ELSE seeded[x]

PlantRow(p, x) ==
    /\ proc[p] = "seed"
    /\ x \in left[p]
    /\ seeded' = [seeded EXCEPT ![x] = Planted(x)]
    /\ left' = [left EXCEPT ![p] = @ \ {x}]
    /\ UNCHANGED <<applied, recorded, proc, known, cursor, deaths>>

\* The first user comes here too: Accounts!CountUsers.
Serve(p) ==
    /\ proc[p] = "seed"
    /\ left[p] = {}
    /\ Enters(p, "serve")
    /\ UNCHANGED <<applied, recorded, seeded, known, cursor, left, deaths>>

\* An operator saves a setting.
EditRow(x) ==
    /\ \E p \in Processes : proc[p] = "serve"
    /\ seeded' = [seeded EXCEPT ![x] = "edited"]
    /\ UNCHANGED <<applied, recorded, proc, known, cursor, left, deaths>>

\* Killed, or a statement fails, or the database does not answer in time.
Die(p) ==
    /\ proc[p] # "down"
    /\ deaths < Deaths
    /\ deaths' = deaths + 1
    /\ Enters(p, "down")
    /\ UNCHANGED <<applied, recorded, seeded, known, cursor, left>>

StaStep(p) ==
    \/ Connect(p) \/ ReadVersions(p)
    \/ SkipVersion(p) \/ RunStatement(p) \/ RecordVersion(p)
    \/ (\E x \in SeedRows : PlantRow(p, x)) \/ Serve(p)

StaNext ==
    \/ \E p \in Processes : Start(p) \/ StaStep(p) \/ Die(p)
    \/ \E x \in SettingRows : EditRow(x)

\* A process that runs goes on: its statements return.  Nothing says that it is
\* started, or started again.
StaFairness == \A p \in Processes : WF_staVars(StaStep(p))

StaSpec == StaInit /\ [][StaNext]_staVars /\ StaFairness

-----------------------------------------------------------------------------
\* A server that serves has the whole schema and every seed row, whatever was
\* interrupted before, and a recorded version is a version in force (Up, "the
\* version is recorded last").
ServesComplete ==
    /\ {s \in AllStatements : s[1] \in recorded} \subseteq applied
    /\ \A p \in Processes : proc[p] = "serve" =>
          /\ applied = AllStatements
          /\ \A x \in SeedRows : seeded[x] # "absent"

\* A process that is not killed again gets to serve, from whatever a crash left.
StartedServes ==
    \A p \in Processes : proc[p] = "connect" ~> proc[p] \in {"serve", "down"}
=============================================================================
