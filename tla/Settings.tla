------------------------------ MODULE Settings ------------------------------
(***************************************************************************)
(* The settings: a table of keys (store/settings.go) and the snapshot that *)
(* every handler reads (config/settings.go).  A save writes its keys in    *)
(* one transaction, reads the whole table again and replaces the snapshot, *)
(* with its parsed time zone, under the lock.  Two screens save: the       *)
(* settings page every key it shows and does not disable, the pods page    *)
(* one key (admin/settings.go, admin/podsadmin.go).                        *)
(*                                                                         *)
(* The value of a key is the save that wrote it last.                      *)
(***************************************************************************)

CONSTANTS
    FormSaves,      \* posts of the settings page, each made once
    PodSaves,       \* posts of the pods page
    FormKeys,       \* what the page writes: "timezone" among them
    Inert,          \* keys it shows and never writes: usetweetbacks
    Seeded          \* the value the seed gave every key

SettingKeys == FormKeys \union Inert \union {"pods"}
Saves == FormSaves \union PodSaves

ASSUME SettingsAssumption ==
    /\ "timezone" \in FormKeys
    /\ "pods" \notin FormKeys \union Inert
    /\ FormKeys \intersect Inert = {}
    /\ FormSaves \intersect PodSaves = {}
    /\ Seeded \notin Saves

VARIABLES
    table,          \* the settings table
    snapshot,       \* Settings.values
    zone,           \* Settings.loc: the save whose time zone it was parsed from
    save,           \* where a save is
    read,           \* the table as Reload read it
    past,           \* history: every state the table was in
    alone,          \* history: saves that overlapped no other so far
    latest          \* history: the save that committed last

setVars == <<table, snapshot, zone, save, read, past, alone, latest>>

SettingsTable == [SettingKeys -> Saves \union {Seeded}]
FreshTable == [k \in SettingKeys |-> Seeded]

SetTypeOK ==
    /\ table \in SettingsTable
    /\ snapshot \in SettingsTable
    /\ zone \in Saves \union {Seeded}
    /\ save \in [Saves -> {"idle", "commit", "reload", "publish", "done", "failed"}]
    /\ read \in [Saves -> SettingsTable]
    /\ past \subseteq SettingsTable
    /\ alone \subseteq Saves
    /\ latest \in Saves \union {Seeded}

SetInit ==
    /\ table = FreshTable
    /\ snapshot = FreshTable
    /\ zone = Seeded
    /\ save = [s \in Saves |-> "idle"]
    /\ read = [s \in Saves |-> FreshTable]
    /\ past = {FreshTable}
    /\ alone = {}
    /\ latest = Seeded

Goes(s, step) == save' = [save EXCEPT ![s] = step]
InFlight == {s \in Saves : save[s] \in {"commit", "reload", "publish"}}

-----------------------------------------------------------------------------
\* A valid form is posted (a refused one writes nothing).
OpenSettings(s) ==
    /\ save[s] = "idle"
    /\ Goes(s, "commit")
    /\ alone' = IF InFlight = {} THEN alone \union {s} ELSE alone \ InFlight
    /\ UNCHANGED <<table, snapshot, zone, read, past, latest>>

Written(s) == IF s \in PodSaves THEN {"pods"} ELSE FormKeys

\* SetSettings: all the keys or none.
Commit(s) ==
    /\ save[s] = "commit"
    /\ table' = [k \in SettingKeys |-> IF k \in Written(s) THEN s ELSE table[k]]
    /\ past' = past \union {table'}
    /\ latest' = s
    /\ Goes(s, "reload")
    /\ UNCHANGED <<snapshot, zone, read, alone>>

\* Reload: one SELECT ...
ReadTable(s) ==
    /\ save[s] = "reload"
    /\ read' = [read EXCEPT ![s] = table]
    /\ Goes(s, "publish")
    /\ UNCHANGED <<table, snapshot, zone, past, alone, latest>>

\* Mutant: the time zone is not parsed again.
Mutant_Publish(s) ==
    /\ save[s] = "publish"
    /\ snapshot' = read[s]
    /\ Goes(s, "done")
    /\ UNCHANGED <<table, zone, read, past, alone, latest>>

\* ... and the swap under the lock.
Publish(s) ==
    /\ save[s] = "publish"
    /\ snapshot' = read[s]
    /\ zone' = read[s]["timezone"]
    /\ Goes(s, "done")
    /\ UNCHANGED <<table, read, past, alone, latest>>

\* The transaction or the SELECT fails: the page answers with an error.
SaveFails(s) ==
    /\ save[s] \in {"commit", "reload"}
    /\ Goes(s, "failed")
    /\ UNCHANGED <<table, snapshot, zone, read, past, alone, latest>>

\* A new process reads the table before it serves.
Restart ==
    /\ save' = [s \in Saves |-> IF s \in InFlight THEN "failed" ELSE save[s]]
    /\ snapshot' = table
    /\ zone' = table["timezone"]
    /\ UNCHANGED <<table, read, past, alone, latest>>

SetNext ==
    \/ \E s \in Saves :
          OpenSettings(s) \/ Commit(s) \/ ReadTable(s) \/ Publish(s) \/ SaveFails(s)
    \/ Restart

SetSpec == SetInit /\ [][SetNext]_setVars

-----------------------------------------------------------------------------
\* A reader sees the settings as they stood together at some moment, never
\* half of a save, with the zone of that same moment; and when the save that
\* committed last met no other and reported success, as they stand now.  Only
\* saves that overlap (each reads and then publishes, in any order), or a read
\* that fails after the commit, leave older settings in force (Reload).
SnapshotFollows ==
    /\ snapshot \in past
    /\ zone = snapshot["timezone"]
    /\ latest \in alone /\ save[latest] = "done" => snapshot = table
=============================================================================
