------------------------------ MODULE Uploads ------------------------------
(***************************************************************************)
(* Files that come in through the admin: pictures and file-manager uploads *)
(* (admin/images.go, admin/files.go) look for a free name and then create  *)
(* it exclusively; enclosures of entries (admin/entries.go) try to create  *)
(* one name after the other.  Either way the file is there, and growing,   *)
(* until the copy ends, and a copy that breaks is removed by its name.     *)
(*                                                                         *)
(* All uploads here are sent with one name: 0 is that name, n the name     *)
(* with n put behind its stem.                                             *)
(***************************************************************************)
EXTENDS Naturals

CONSTANTS
    Senders,        \* uploads, each made once
    LastName        \* the last number that is tried: 999 in the code

ASSUME UploadsAssumption == LastName \in Nat

VARIABLES
    disk,           \* what a name of the folder holds
    sender,         \* where an upload is
    answered,       \* the name an upload was told it has
    struck,         \* history: uploads whose finished file someone deleted
    orphaned        \* history: names whose file was deleted under the copy

uplVars == <<disk, sender, answered, struck, orphaned>>

FileNames == 0..LastName
NoFile == [is |-> "none"]
OneFile == [is : {"growing", "whole"}, by : Senders]
Taken(n) == disk[n] # NoFile

UplTypeOK ==
    /\ disk \in [FileNames -> OneFile \union {NoFile}]
    /\ sender \in [Senders -> [at : {"new", "done", "failed"}]
                        \union [at : {"look", "create", "try", "copy"}, name : FileNames]]
    /\ answered \in [Senders -> FileNames \union {LastName + 1}]
    /\ struck \subseteq Senders
    /\ orphaned \subseteq FileNames

NoAnswer == LastName + 1

UplInit ==
    /\ disk = [n \in FileNames |-> NoFile]
    /\ sender = [u \in Senders |-> [at |-> "new"]]
    /\ answered = [u \in Senders |-> NoAnswer]
    /\ struck = {}
    /\ orphaned = {}

Sends(u, job) == sender' = [sender EXCEPT ![u] = job]
Ends(u, how) == Sends(u, [at |-> how])
Steps(u, how, n) == IF n > LastName THEN Ends(u, "failed") ELSE Sends(u, [at |-> how, name |-> n])

-----------------------------------------------------------------------------
\* writeUpload, or storeEnclosure.
Upload(u) ==
    /\ sender[u].at = "new"
    /\ Steps(u, "look", 0) \/ Steps(u, "try", 0)
    /\ UNCHANGED <<disk, answered, struck, orphaned>>

\* uniqueName: one Stat.
Look(u) ==
    /\ sender[u].at = "look"
    /\ IF Taken(sender[u].name) THEN Steps(u, "look", sender[u].name + 1)
       ELSE Steps(u, "create", sender[u].name)
    /\ UNCHANGED <<disk, answered, struck, orphaned>>

\* Mutant: created, or truncated, whoever was first.
Mutant_Creates(n) == TRUE

\* O_CREATE with O_EXCL.
Creates(n) == ~Taken(n)

\* After a look: the name may be taken by now, and the upload fails; and in the
\* loop of the enclosures: then the next name.
CreateFile(u) ==
    /\ sender[u].at \in {"create", "try"}
    /\ LET n == sender[u].name IN
       \/ /\ Creates(n)
          /\ disk' = [disk EXCEPT ![n] = [is |-> "growing", by |-> u]]
          /\ Steps(u, "copy", n)
       \/ /\ ~Creates(n)
          /\ IF sender[u].at = "create" THEN Ends(u, "failed") ELSE Steps(u, "try", n + 1)
          /\ UNCHANGED disk
    /\ UNCHANGED <<answered, struck, orphaned>>

\* What is copied goes into the file that was created, whatever has its name.
FinishCopy(u) ==
    /\ sender[u].at = "copy"
    /\ LET n == sender[u].name IN
       /\ disk' = IF disk[n] = [is |-> "growing", by |-> u]
                  THEN [disk EXCEPT ![n].is = "whole"] ELSE disk
       /\ answered' = [answered EXCEPT ![u] = n]
    /\ Ends(u, "done")
    /\ UNCHANGED <<struck, orphaned>>

\* The copy breaks off: the name is removed.
BreakOff(u) ==
    /\ sender[u].at = "copy"
    /\ disk' = [disk EXCEPT ![sender[u].name] = NoFile]
    /\ Ends(u, "failed")
    /\ UNCHANGED <<answered, struck, orphaned>>

\* The first write of a picture fails, or the process dies: the file stays.
LeavePart(u) ==
    /\ sender[u].at = "copy"
    /\ Ends(u, "failed")
    /\ UNCHANGED <<disk, answered, struck, orphaned>>

\* The file manager, or an entry whose enclosure is deleted.
DeleteFile(n) ==
    /\ Taken(n)
    /\ disk' = [disk EXCEPT ![n] = NoFile]
    /\ IF disk[n].is = "whole"
       THEN struck' = struck \union {disk[n].by} /\ UNCHANGED orphaned
       ELSE orphaned' = orphaned \union {n} /\ UNCHANGED struck
    /\ UNCHANGED <<sender, answered>>

UplNext ==
    \/ \E u \in Senders :
          \/ Upload(u) \/ Look(u) \/ CreateFile(u)
          \/ FinishCopy(u) \/ BreakOff(u) \/ LeavePart(u)
    \/ \E n \in FileNames : DeleteFile(n)

UplSpec == UplInit /\ [][UplNext]_uplVars

-----------------------------------------------------------------------------
\* A file that an upload was told it has is that upload's, whole, until someone
\* deletes it: two uploads at once never land on one name (storeEnclosure), and
\* the clean-up of a copy that broke removes no other upload's file, unless
\* a file of that name had been deleted while it was being copied.
UploadsKept ==
    \A u \in Senders :
        answered[u] # NoAnswer
        => \/ disk[answered[u]] = [is |-> "whole", by |-> u]
           \/ u \in struck
           \/ answered[u] \in orphaned
=============================================================================
