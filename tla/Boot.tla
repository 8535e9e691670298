-------------------------------- MODULE Boot --------------------------------
(***************************************************************************)
(* What the server stands on before it answers: the schema and the seeds,  *)
(* the first user and the accounts, the settings it reads.  They keep      *)
(* different tables, so, as in module Site, the run looks at one of them   *)
(* at a time; the start itself is looked at with its fairness.             *)
(***************************************************************************)
EXTENDS Startup, Accounts, Settings

VARIABLE part

bootVars == <<part, staVars, accVars, setVars>>

Parts == {"startup", "accounts", "settings"}

\* The databases an older binary left matter to the start alone.
BootInit ==
    /\ part \in Parts
    /\ StaInit /\ AccInit /\ SetInit
    /\ part # "startup" => recorded = {}

StartupMoves ==
    /\ part = "startup"
    /\ StaNext
    /\ UNCHANGED <<part, accVars, setVars>>

AccountsMove ==
    /\ part = "accounts"
    /\ AccNext
    /\ UNCHANGED <<part, staVars, setVars>>

SettingsMove ==
    /\ part = "settings"
    /\ SetNext
    /\ UNCHANGED <<part, staVars, accVars>>

BootNext == StartupMoves \/ AccountsMove \/ SettingsMove

BootSpec ==
    /\ BootInit
    /\ [][BootNext]_bootVars
    /\ \A p \in Processes : WF_bootVars(part = "startup" /\ StaStep(p) /\ UNCHANGED <<part, accVars, setVars>>)
=============================================================================
