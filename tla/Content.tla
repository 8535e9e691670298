------------------------------ MODULE Content ------------------------------
(***************************************************************************)
(* Entries as things with an address: the alias the editor checks before   *)
(* it saves (admin/entries.go), the one XML-RPC makes from the title and   *)
(* does not check (xmlrpc/methods.go), the permalink that finds an entry   *)
(* by alias and date (web/handlers.go), and the delete of an author who    *)
(* may only delete drafts.                                                 *)
(*                                                                         *)
(* Module Release has what a save does to the world; here is what it does  *)
(* to the entry's name.  entries.alias has a plain key, not a unique one.  *)
(* The date is left out: when the lookup answers with another entry, the   *)
(* comparison that follows only turns the wrong page into a 404.           *)
(***************************************************************************)

CONSTANTS
    Posts,          \* ids an entry may get, each once
    Aliases,        \* what a title or the alias field gives
    Blank,          \* the alias of a title without a letter or a digit
    Writers         \* requests in flight, reused when they end

ASSUME ContentAssumption == Blank \notin Aliases /\ "new" \notin Posts

VARIABLES
    post,           \* the table entries
    work,           \* where a request is, and what it holds
    shared          \* history: aliases XML-RPC took, or two requests held at once

conVars == <<post, work, shared>>

Unborn == [is |-> "unborn"]
Gone == [is |-> "gone"]
PostRow == [is : {"stored"}, alias : Aliases \union {Blank}, released : BOOLEAN]
InTable(i) == post[i].is = "stored"
\* The id is Unborn's for a new entry: the store draws one at the INSERT.
NewId == "new"

ConFree == [at |-> "idle"]
ConJob ==
    {ConFree}
    \union [at : {"check", "write"}, id : Posts \union {NewId}, copy : PostRow]
    \union [at : {"sift"}, marked : SUBSET Posts, pass : SUBSET Posts, turned : SUBSET Posts]

ConTypeOK ==
    /\ post \in [Posts -> PostRow \union {Unborn, Gone}]
    /\ work \in [Writers -> ConJob]
    /\ shared \subseteq Aliases

ConInit ==
    /\ post = [i \in Posts |-> Unborn]
    /\ work = [w \in Writers |-> ConFree]
    /\ shared = {}

Holds(w, job) == work' = [work EXCEPT ![w] = job]
Saving(w) == work[w].at \in {"check", "write"}
HeldAliases == {work[w].copy.alias : w \in {v \in Writers : Saving(v)}}

\* A request that will write alias a starts: note who else is about to.
Notes(a) == shared' = shared \union ({a} \intersect HeldAliases \intersect Aliases)

-----------------------------------------------------------------------------
(* entrySave *)

\* The row is read, if there is one, and the form says the rest.
OpenEditor(w, i, row) ==
    /\ work[w] = ConFree
    /\ i # NewId => InTable(i)
    /\ Holds(w, [at |-> "check", id |-> i, copy |-> row])
    /\ Notes(row.alias)
    /\ UNCHANGED post

\* GetEntryByAlias: any one of the rows with that alias.
Answers(a) == {i \in Posts : InTable(i) /\ post[i].alias = a}

\* Mutant: only a new entry's alias is looked up.
Mutant_Clashes(w, found) == work[w].id = NewId

\* Whether the row that was found is another entry's.
Clashes(w, found) == found # work[w].id

CheckAlias(w) ==
    /\ work[w].at = "check"
    /\ LET a == work[w].copy.alias IN
       \/ /\ a = Blank \/ Answers(a) = {}
          /\ Holds(w, [work[w] EXCEPT !.at = "write"])
       \/ \E found \in Answers(a) :
             /\ a # Blank
             /\ Holds(w, IF Clashes(w, found) THEN ConFree ELSE [work[w] EXCEPT !.at = "write"])
    /\ UNCHANGED <<post, shared>>

(* savePost: a new post takes the alias its title gives, an edit keeps the
   one it read. *)
OpenXmlrpcNew(w, row) ==
    /\ work[w] = ConFree
    /\ Holds(w, [at |-> "write", id |-> NewId, copy |-> row])
    /\ shared' = shared \union ({row.alias} \intersect Aliases)
    /\ UNCHANGED post

OpenXmlrpcEdit(w, i, row) ==
    /\ work[w] = ConFree
    /\ InTable(i)
    /\ row.alias = post[i].alias
    /\ Holds(w, [at |-> "write", id |-> i, copy |-> row])
    /\ Notes(row.alias)
    /\ UNCHANGED post

(* CreateEntry, or UpdateEntry if the row is still there.  An author's delete
   that has read the row meanwhile does not see the release. *)
WritePost(w) ==
    /\ work[w].at = "write"
    /\ \E i \in Posts :
          /\ IF work[w].id = NewId THEN post[i] = Unborn ELSE i = work[w].id
          /\ post' = IF post[i] = Gone THEN post ELSE [post EXCEPT ![i] = work[w].copy]
          /\ work' = [v \in Writers |->
                CASE v = w -> ConFree
                  [] v # w /\ work[v].at = "sift" /\ work[w].copy.released ->
                        [work[v] EXCEPT !.turned = @ \union {i}]
                  [] OTHER -> work[v]]
    /\ UNCHANGED shared

-----------------------------------------------------------------------------
(* entriesDelete *)

\* Someone who may release, or XML-RPC's deletePost: whatever was marked.
DeleteMarked(marked) ==
    /\ post' = [i \in Posts |-> IF i \in marked /\ InTable(i) THEN Gone ELSE post[i]]
    /\ UNCHANGED <<work, shared>>

\* An author: each marked id is read, and only drafts stay on the list.
OpenDraftDelete(w, marked) ==
    /\ work[w] = ConFree
    /\ Holds(w, [at |-> "sift", marked |-> marked, pass |-> {}, turned |-> {}])
    /\ UNCHANGED <<post, shared>>

\* Mutant: an author may delete whatever is there.
Mutant_MayGo(i) == InTable(i)

MayGo(i) == InTable(i) /\ ~post[i].released

Sift(w, i) ==
    /\ work[w].at = "sift"
    /\ i \in work[w].marked
    /\ Holds(w, [work[w] EXCEPT !.marked = @ \ {i},
                                !.pass = IF MayGo(i) THEN @ \union {i} ELSE @])
    /\ UNCHANGED <<post, shared>>

DeleteDrafts(w) ==
    /\ work[w].at = "sift"
    /\ work[w].marked = {}
    /\ post' = [i \in Posts |-> IF i \in work[w].pass /\ InTable(i) THEN Gone ELSE post[i]]
    /\ Holds(w, ConFree)
    /\ UNCHANGED shared

\* Refused for another reason, failed, or the process died.
ConAbandon(w) ==
    /\ work[w] # ConFree
    /\ Holds(w, ConFree)
    /\ UNCHANGED <<post, shared>>

ConNext ==
    \/ \E w \in Writers :
          \/ \E i \in Posts \union {NewId}, row \in PostRow : OpenEditor(w, i, row)
          \/ CheckAlias(w)
          \/ \E row \in PostRow : OpenXmlrpcNew(w, row)
          \/ \E i \in Posts, row \in PostRow : OpenXmlrpcEdit(w, i, row)
          \/ WritePost(w)
          \/ \E marked \in SUBSET Posts \ {{}} : OpenDraftDelete(w, marked)
          \/ \E i \in Posts : Sift(w, i)
          \/ DeleteDrafts(w)
          \/ ConAbandon(w)
    \/ \E marked \in SUBSET Posts \ {{}} : DeleteMarked(marked)

ConSpec == ConInit /\ [][ConNext]_conVars

-----------------------------------------------------------------------------
\* The editor's lookup keeps aliases apart as long as saves do not meet: two
\* entries have one alias only if XML-RPC gave it to one of them, or two
\* requests were about to write it at the same time (entrySave, "Another entry
\* already uses the alias").
AliasUniqueWhenAlone ==
    \A i, j \in Posts :
        InTable(i) /\ InTable(j) /\ i # j /\ post[i].alias = post[j].alias
        => post[i].alias \in shared \union {Blank}

\* An author's delete takes only drafts, and what was released between his
\* request's reading and its DELETE (entriesDelete).
AuthorDeletesDrafts ==
    [][\A w \in Writers, i \in Posts :
         /\ work[w].at = "sift" /\ work'[w] = ConFree
         /\ InTable(i) /\ ~InTable(i)'
         => ~post[i].released \/ i \in work[w].turned]_conVars
=============================================================================
