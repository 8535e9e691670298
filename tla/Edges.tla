-------------------------------- MODULE Edges --------------------------------
(***************************************************************************)
(* The three edges of the blog side by side in one run: what a blog client *)
(* calls, what a visitor posts, what a reader opens.  As in module Site,   *)
(* what a part meets of the others is an action of its own, and the run    *)
(* looks at one part at a time, chosen at the start.                       *)
(***************************************************************************)
EXTENDS Xmlrpc, Antispam, Reading

VARIABLE edge

edgeVars == <<edge, xmlVars, spmVars, reaVars>>

EdgeInit ==
    \/ edge = "xmlrpc" /\ XmlInit /\ SpmRest /\ ReaRest
    \/ edge = "forms" /\ SpmInit /\ XmlRest /\ ReaRest
    \/ edge = "reading" /\ ReaInit /\ XmlRest /\ SpmRest

ClientsCall ==
    /\ edge = "xmlrpc"
    /\ XmlNext
    /\ UNCHANGED <<edge, spmVars, reaVars>>

VisitorsPost ==
    /\ edge = "forms"
    /\ SpmNext
    /\ UNCHANGED <<edge, xmlVars, reaVars>>

ReadersRead ==
    /\ edge = "reading"
    /\ ReaNext
    /\ UNCHANGED <<edge, xmlVars, spmVars>>

EdgeNext == ClientsCall \/ VisitorsPost \/ ReadersRead

EdgeSpec == EdgeInit /\ [][EdgeNext]_edgeVars
=============================================================================
