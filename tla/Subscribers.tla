----------------------------- MODULE Subscribers -----------------------------
(***************************************************************************)
(* The mailing list (internal/store/subscribers.go): sign-up in the        *)
(* sidebar with a confirmation mail, the links in the mails, the admin's   *)
(* screen and the message to all.                                          *)
(*                                                                         *)
(* A request is a worker that takes one statement or one mail at a time,   *)
(* and may be left behind at any of them.  A token stands for the pair     *)
(* that a link carries: it is fresh, so it names one address for good.     *)
(* A second sign-up of a known address changes nothing                     *)
(* (AddSubscriber returns the row it found) and is no action here.         *)
(***************************************************************************)
CONSTANTS
    Addresses,      \* what people type in the form
    Tokens,         \* what newID draws, each once: bounds the sign-ups
    Readers         \* requests in flight, reused when they end

ASSUME SubscribersAssumption == "none" \notin Tokens /\ "nobody" \notin Addresses

VARIABLES
    row,            \* the table subscribers: none or one row for an address
    issued,         \* whom a token was drawn for
    req,            \* where a request is, and what it holds
    confirmable,    \* tokens in a confirmation mail
    leavable,       \* tokens in an unsubscribe link of a message
    opted           \* history: who opened a confirmation or was verified by hand

subVars == <<row, issued, req, confirmable, leavable, opted>>

Missing == [token |-> "none", verified |-> FALSE]
SubRow == [token : Tokens, verified : BOOLEAN]
NotIssued == "nobody"
SubFree == [at |-> "idle"]
SubJob ==
    {SubFree}
    \union [at : {"insert", "mail", "confirm"}, email : Addresses, token : Tokens]
    \union [at : {"send"}, left : SUBSET Tokens]

SubTypeOK ==
    /\ row \in [Addresses -> SubRow \union {Missing}]
    /\ issued \in [Tokens -> Addresses \union {NotIssued}]
    /\ req \in [Readers -> SubJob]
    /\ confirmable \subseteq Tokens
    /\ leavable \subseteq Tokens
    /\ opted \subseteq Addresses

SubInit ==
    /\ row = [e \in Addresses |-> Missing]
    /\ issued = [t \in Tokens |-> NotIssued]
    /\ req = [r \in Readers |-> SubFree]
    /\ confirmable = {}
    /\ leavable = {}
    /\ opted = {}

Becomes(r, job) == req' = [req EXCEPT ![r] = job]
Listed(e) == row[e] # Missing
Verified(e) == [row EXCEPT ![e].verified = TRUE]
\* Mutant: the message goes to everybody on the list.
Mutant_VerifiedTokens == {row[e].token : e \in {a \in Addresses : Listed(a)}}

VerifiedTokens == {row[e].token : e \in {a \in Addresses : row[a].verified}}

-----------------------------------------------------------------------------
(* Signing up: look the address up, insert, mail the link. *)

SignUp(r, e, t) ==
    /\ req[r] = SubFree
    /\ ~Listed(e)
    /\ issued[t] = NotIssued
    /\ issued' = [issued EXCEPT ![t] = e]
    /\ Becomes(r, [at |-> "insert", email |-> e, token |-> t])
    /\ UNCHANGED <<row, confirmable, leavable, opted>>

\* Mutant: a second sign-up replaces the row.
Mutant_Inserted(e, t) == [row EXCEPT ![e] = [token |-> t, verified |-> FALSE]]

\* What the table holds for e after an INSERT with token t: the address is the
\* key, so a row that got there first is the answer.
Inserted(e, t) ==
    IF Listed(e) THEN row ELSE [row EXCEPT ![e] = [token |-> t, verified |-> FALSE]]

SubInsert(r) ==
    /\ req[r].at = "insert"
    /\ row' = Inserted(req[r].email, req[r].token)
    /\ Becomes(r, IF Listed(req[r].email) THEN SubFree ELSE [req[r] EXCEPT !.at = "mail"])
    /\ UNCHANGED <<issued, confirmable, leavable, opted>>

SendConfirmation(r) ==
    /\ req[r].at = "mail"
    /\ confirmable' = confirmable \union {req[r].token}
    /\ Becomes(r, SubFree)
    /\ UNCHANGED <<row, issued, leavable, opted>>

-----------------------------------------------------------------------------
(* The links. *)

\* /confirmsubscription: the row the token names, if it is still there ...
OpenConfirmation(r, t) ==
    /\ req[r] = SubFree
    /\ t \in confirmable
    /\ opted' = opted \union {issued[t]}
    /\ \/ /\ \A e \in Addresses : row[e].token # t
          /\ UNCHANGED req
       \/ \E e \in Addresses :
             /\ row[e].token = t
             /\ Becomes(r, [at |-> "confirm", email |-> e, token |-> t])
    /\ UNCHANGED <<row, issued, confirmable, leavable>>

\* ... and then the update, which goes by address.
Confirm(r) ==
    /\ req[r].at = "confirm"
    /\ row' = IF Listed(req[r].email) THEN Verified(req[r].email) ELSE row
    /\ Becomes(r, SubFree)
    /\ UNCHANGED <<issued, confirmable, leavable, opted>>

\* /unsubscribe?email=&token=: the two must agree.
Leave(t) ==
    /\ t \in leavable
    /\ row[issued[t]].token = t
    /\ row' = [row EXCEPT ![issued[t]] = Missing]
    /\ UNCHANGED <<issued, req, confirmable, leavable, opted>>

-----------------------------------------------------------------------------
(* The admin's screen and the message to all. *)

VerifyByHand(e) ==
    /\ Listed(e)
    /\ row' = Verified(e)
    /\ opted' = opted \union {e}
    /\ UNCHANGED <<issued, req, confirmable, leavable>>

DeleteSubscriber(e) ==
    /\ Listed(e)
    /\ row' = [row EXCEPT ![e] = Missing]
    /\ UNCHANGED <<issued, req, confirmable, leavable, opted>>

NukeUnverified ==
    /\ row' = [e \in Addresses |-> IF row[e].verified THEN row[e] ELSE Missing]
    /\ UNCHANGED <<issued, req, confirmable, leavable, opted>>

\* The recipients are read once; each message carries its own link.
OpenBroadcast(r) ==
    /\ req[r] = SubFree
    /\ VerifiedTokens # {}
    /\ Becomes(r, [at |-> "send", left |-> VerifiedTokens])
    /\ UNCHANGED <<row, issued, confirmable, leavable, opted>>

SendToOne(r, t) ==
    /\ req[r].at = "send"
    /\ t \in req[r].left
    /\ leavable' = leavable \union {t}
    /\ Becomes(r, IF req[r].left = {t} THEN SubFree ELSE [req[r] EXCEPT !.left = @ \ {t}])
    /\ UNCHANGED <<row, issued, confirmable, opted>>

\* A statement or a mail fails, or the process dies: the rest is left undone.
SubAbandon(r) ==
    /\ req[r] # SubFree
    /\ Becomes(r, SubFree)
    /\ UNCHANGED <<row, issued, confirmable, leavable, opted>>

SubNext ==
    \/ \E r \in Readers :
          \/ \E e \in Addresses, t \in Tokens : SignUp(r, e, t)
          \/ SubInsert(r)
          \/ SendConfirmation(r)
          \/ \E t \in Tokens : OpenConfirmation(r, t)
          \/ Confirm(r)
          \/ OpenBroadcast(r)
          \/ \E t \in Tokens : SendToOne(r, t)
          \/ SubAbandon(r)
    \/ \E t \in Tokens : Leave(t)
    \/ \E e \in Addresses : VerifyByHand(e) \/ DeleteSubscriber(e)
    \/ NukeUnverified

SubSpec == SubInit /\ [][SubNext]_subVars

-----------------------------------------------------------------------------
\* Nobody is on the verified list, and nobody is sent a message, who never
\* opened a confirmation link of their own address and was not verified by
\* hand: a confirmation that races a removal and a new sign-up
\* (ConfirmSubscriber looks up by token and updates by address) stays within
\* the address, and a broadcast reads only verified rows.
OptIn ==
    /\ \A e \in Addresses : Listed(e) /\ row[e].verified => e \in opted
    /\ \A t \in leavable : issued[t] \in opted

\* A row that is on the list keeps its token, so every link mailed for it goes
\* on working, and a confirmed row never becomes unconfirmed: two sign-ups of
\* one address, or a sign-up of a known one, leave the row that won alone
\* (AddSubscriber).
RowKept ==
    [][\A e \in Addresses : Listed(e) /\ Listed(e)' =>
          /\ row'[e].token = row[e].token
          /\ row[e].verified => row'[e].verified]_subVars
=============================================================================
