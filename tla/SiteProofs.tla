------------------------------ MODULE SiteProofs ------------------------------
(***************************************************************************)
(* Theorems about the parts of the blog side by side (Site), each on its   *)
(* own and then together: what is kept of the entries, which is their      *)
(* addresses (Content), views (Views) and relations (Related), for any     *)
(* number of entries, aliases and requests, of visitors and cookies, of    *)
(* editors; then Uploads, Slideshows, Subscribers and Taxonomy, for any    *)
(* number of names, uploads and requests, of slideshows and pictures, of   *)
(* addresses and tokens, of categories and pages.                          *)
(***************************************************************************)
EXTENDS Site, FiniteSetTheorems, SequenceTheorems, TLAPS

-----------------------------------------------------------------------------
(* Addresses, and editing clashes. *)

\* An alias that may be found twice.
Loose(a) == a \in shared \union {Blank}

\* Two requests about to write one alias were noticed.
HeldApart ==
    \A v, w \in Writers :
        v # w /\ Saving(v) /\ Saving(w) /\ work[v].copy.alias = work[w].copy.alias
        => Loose(work[w].copy.alias)

\* Whoever is past the lookup has the alias to itself, or on its own row.
ClearToWrite ==
    \A w \in Writers, i \in Posts :
        work[w].at = "write" /\ InTable(i) /\ post[i].alias = work[w].copy.alias
        => work[w].id = i \/ Loose(post[i].alias)

\* What passed an author's sieve was a draft and stayed one, or was turned.
SievedDrafts ==
    \A w \in Writers, i \in Posts :
        work[w].at = "sift" /\ i \in work[w].pass /\ InTable(i) /\ post[i].released
        => i \in work[w].turned

\* An id that was looked at is not free any more.
SievedBorn ==
    \A w \in Writers, i \in Posts : work[w].at = "sift" /\ i \in work[w].pass => post[i] # Unborn

ConInv ==
    /\ ConTypeOK
    /\ HeldApart /\ ClearToWrite /\ AliasUniqueWhenAlone
    /\ SievedDrafts /\ SievedBorn

-----------------------------------------------------------------------------
\* What a request holds.
LEMMA WorkFacts ==
    /\ ConFree \in ConJob /\ ConFree.at = "idle"
    /\ \A a \in {"check", "write"}, i \in Posts \union {NewId}, c \in PostRow :
          [at |-> a, id |-> i, copy |-> c] \in ConJob
    /\ \A M, P, T \in SUBSET Posts :
          [at |-> "sift", marked |-> M, pass |-> P, turned |-> T] \in ConJob
    /\ \A j \in ConJob :
          /\ j.at \in {"idle", "check", "write", "sift"}
          /\ j.at \in {"check", "write"} =>
                /\ j.id \in Posts \union {NewId} /\ j.copy \in PostRow
                /\ j = [at |-> j.at, id |-> j.id, copy |-> j.copy]
          /\ j.at = "sift" =>
                /\ j.marked \in SUBSET Posts /\ j.pass \in SUBSET Posts /\ j.turned \in SUBSET Posts
                /\ j = [at |-> "sift", marked |-> j.marked, pass |-> j.pass, turned |-> j.turned]
          /\ j.at = "idle" => j = ConFree
  BY DEF ConFree, ConJob

\* A row of the table is told from what is not there.
LEMMA RowFacts ==
    /\ Unborn.is = "unborn" /\ Gone.is = "gone" /\ Unborn # Gone
    /\ \A x \in PostRow : x.is = "stored" /\ x.alias \in Aliases \union {Blank} /\ x.released \in BOOLEAN
    /\ \A x \in PostRow : x # Unborn /\ x # Gone
<1>1. Unborn.is = "unborn" /\ Gone.is = "gone"
  BY DEF Unborn, Gone
<1>2. \A x \in PostRow : x.is = "stored" /\ x.alias \in Aliases \union {Blank} /\ x.released \in BOOLEAN
  BY DEF PostRow
<1> QED
  BY <1>1, <1>2

LEMMA StoredRow ==
    ASSUME ConTypeOK, NEW i \in Posts
    PROVE  /\ InTable(i) <=> post[i] \in PostRow
           /\ InTable(i) => post[i] # Unborn /\ post[i] # Gone
  BY RowFacts DEF ConTypeOK, InTable

-----------------------------------------------------------------------------
LEMMA InitConInv == ConInit => ConInv
<1> SUFFICES ASSUME ConInit PROVE ConInv
  OBVIOUS
<1>1. \A i \in Posts : ~InTable(i)
  BY RowFacts DEF ConInit, InTable
<1>2. \A w \in Writers : work[w].at = "idle"
  BY WorkFacts DEF ConInit
<1>3. ConTypeOK
  BY WorkFacts DEF ConInit, ConTypeOK
<1> QED
  BY <1>1, <1>2, <1>3 DEF ConInv, HeldApart, ClearToWrite, AliasUniqueWhenAlone, SievedDrafts,
     SievedBorn, Saving

\* A request that takes up a copy of a row: nothing is written yet.
LEMMA TakesUp ==
    ASSUME ConInv, NEW w \in Writers, work[w] = ConFree,
           NEW a \in {"check", "write"}, NEW i \in Posts \union {NewId}, NEW kept \in PostRow,
           work' = [work EXCEPT ![w] = [at |-> a, id |-> i, copy |-> kept]],
           post' = post, shared \subseteq shared', shared' \subseteq Aliases,
           kept.alias \in HeldAliases => kept.alias \in shared' \union {Blank},
           a = "write" => \A j \in Posts : InTable(j) /\ post[j].alias = kept.alias
                              => i = j \/ kept.alias \in shared' \union {Blank}
    PROVE  ConInv'
<1>1. work'[w] = [at |-> a, id |-> i, copy |-> kept] /\ \A v \in Writers \ {w} : work'[v] = work[v]
  BY DEF ConInv, ConTypeOK
<1>2. ConTypeOK'
  BY WorkFacts DEF ConInv, ConTypeOK
<1>3. \A v \in Writers \ {w} : Saving(v) /\ work[v].copy.alias = kept.alias => kept.alias \in shared' \union {Blank}
  BY DEF HeldAliases
<1>4. HeldApart'
  BY <1>1, <1>3 DEF ConInv, HeldApart, Saving, Loose
<1>5. ClearToWrite'
  BY <1>1 DEF ConInv, ClearToWrite, InTable, Loose
<1>6. AliasUniqueWhenAlone'
  BY DEF ConInv, AliasUniqueWhenAlone, InTable
<1>7. SievedDrafts' /\ SievedBorn'
  BY <1>1 DEF ConInv, SievedDrafts, SievedBorn, InTable
<1> QED
  BY <1>2, <1>4, <1>5, <1>6, <1>7 DEF ConInv

\* Rows that go, and requests that end, or go on as they are.
LEMMA RowsGo ==
    ASSUME ConInv, NEW S \in SUBSET Posts,
           post' = [i \in Posts |-> IF i \in S /\ InTable(i) THEN Gone ELSE post[i]],
           work' \in [Writers -> ConJob],
           \A v \in Writers : work'[v] = work[v] \/ work'[v] = ConFree,
           shared' = shared
    PROVE  ConInv'
<1>1. \A i \in Posts : post'[i] = post[i] \/ (post'[i] = Gone /\ post'[i].is # "stored")
  BY RowFacts
<1>2. ConTypeOK'
  BY DEF ConInv, ConTypeOK
<1>3. HeldApart'
  BY WorkFacts DEF ConInv, HeldApart, Saving, Loose
<1>4. ClearToWrite'
  BY <1>1, WorkFacts DEF ConInv, ClearToWrite, InTable, Loose
<1>5. AliasUniqueWhenAlone'
  BY <1>1 DEF ConInv, AliasUniqueWhenAlone, InTable
<1>6. SievedDrafts' /\ SievedBorn'
  BY <1>1, WorkFacts, RowFacts DEF ConInv, SievedDrafts, SievedBorn, InTable
<1> QED
  BY <1>2, <1>3, <1>4, <1>5, <1>6 DEF ConInv

\* One step per action.
LEMMA NextConInv == ConInv /\ [ConNext]_conVars => ConInv'
<1> SUFFICES ASSUME ConInv, [ConNext]_conVars PROVE ConInv'
  OBVIOUS
<1>0. CASE UNCHANGED conVars
  BY <1>0 DEF conVars, ConInv, ConTypeOK, HeldApart, ClearToWrite, AliasUniqueWhenAlone,
     SievedDrafts, SievedBorn, Saving, InTable, Loose
<1>1. ASSUME NEW w \in Writers, NEW i \in Posts \union {NewId}, NEW kept \in PostRow, OpenEditor(w, i, kept)
      PROVE  ConInv'
  <2>1. shared' = shared \union ({kept.alias} \intersect HeldAliases \intersect Aliases)
    BY <1>1 DEF OpenEditor, Notes
  <2>2. kept.alias \in HeldAliases => kept.alias \in shared' \union {Blank}
    BY <2>1, RowFacts
  <2>3. shared \subseteq shared' /\ shared' \subseteq Aliases
    BY <2>1 DEF ConInv, ConTypeOK
  <2> QED
    BY <1>1, <2>2, <2>3, TakesUp DEF OpenEditor, Holds
<1>2. ASSUME NEW w \in Writers, CheckAlias(w)
      PROVE  ConInv'
  <2> DEFINE a == work[w].copy.alias
  <2>1. work[w].at = "check" /\ work[w] \in ConJob
    BY <1>2 DEF CheckAlias, ConInv, ConTypeOK
  <2>2. PICK i \in Posts \union {NewId}, kept \in PostRow :
            work[w] = [at |-> "check", id |-> i, copy |-> kept]
    BY <2>1, WorkFacts
  <2>3. UNCHANGED <<post, shared>>
    BY <1>2 DEF CheckAlias
  <2>4. \A v \in Writers \ {w} : work'[v] = work[v]
    BY <1>2 DEF CheckAlias, Holds, ConInv, ConTypeOK
  <2> DEFINE Clear == \A j \in Posts : InTable(j) /\ post[j].alias = kept.alias => i = j \/ Loose(kept.alias)
             Passed == work'[w] = [at |-> "write", id |-> i, copy |-> kept] /\ Clear
  <2>5. work'[w] = ConFree \/ Passed
    <3>1. CASE a = Blank \/ Answers(a) = {}
      <4>1. work' = [work EXCEPT ![w] = [work[w] EXCEPT !.at = "write"]]
            \/ \E found \in Answers(a) : a # Blank
        BY <1>2, <3>1 DEF CheckAlias, Holds
      <4>2. work' = [work EXCEPT ![w] = [work[w] EXCEPT !.at = "write"]]
        BY <3>1, <4>1
      <4>3. work'[w] = [at |-> "write", id |-> i, copy |-> kept]
        BY <2>2, <4>2 DEF ConInv, ConTypeOK
      <4> QED
        BY <2>2, <3>1, <4>3 DEF Answers, Loose
    <3>2. ASSUME NEW found \in Answers(a), a # Blank,
                 Holds(w, IF Clashes(w, found) THEN ConFree ELSE [work[w] EXCEPT !.at = "write"])
          PROVE  work'[w] = ConFree \/ Passed
      <4>1. CASE found # i
        BY <2>2, <3>2, <4>1 DEF Holds, Clashes, ConInv, ConTypeOK
      <4>2. CASE found = i
        <5>1. work'[w] = [at |-> "write", id |-> i, copy |-> kept]
          BY <2>2, <3>2, <4>2 DEF Holds, Clashes, ConInv, ConTypeOK
        <5>2. found \in Posts /\ InTable(found) /\ post[found].alias = kept.alias
          BY <2>2, <3>2 DEF Answers
        <5> QED
          BY <4>2, <5>1, <5>2 DEF ConInv, AliasUniqueWhenAlone, Loose
      <4> QED
        BY <4>1, <4>2
    <3> QED
      BY <1>2, <3>1, <3>2 DEF CheckAlias
  <2>6. work' \in [Writers -> ConJob]
    BY <1>2, <2>4, <2>5, WorkFacts DEF CheckAlias, Holds, ConInv, ConTypeOK
  <2>7. ConTypeOK'
    BY <2>3, <2>6 DEF ConInv, ConTypeOK
  <2>8. HeldApart'
    BY <2>2, <2>3, <2>4, <2>5, WorkFacts DEF ConInv, HeldApart, Saving, Loose
  <2>9. ClearToWrite'
    BY <2>3, <2>4, <2>5, WorkFacts DEF ConInv, ClearToWrite, InTable, Loose
  <2>10. AliasUniqueWhenAlone'
    BY <2>3 DEF ConInv, AliasUniqueWhenAlone, InTable
  <2>11. SievedDrafts' /\ SievedBorn'
    BY <2>3, <2>4, <2>5, WorkFacts DEF ConInv, SievedDrafts, SievedBorn, InTable
  <2> QED
    BY <2>7, <2>8, <2>9, <2>10, <2>11 DEF ConInv
<1>3. ASSUME NEW w \in Writers, NEW kept \in PostRow, OpenXmlrpcNew(w, kept)
      PROVE  ConInv'
  <2>1. shared' = shared \union ({kept.alias} \intersect Aliases)
    BY <1>3 DEF OpenXmlrpcNew
  <2>2. kept.alias \in shared' \union {Blank}
    BY <2>1, RowFacts
  <2>3. shared \subseteq shared' /\ shared' \subseteq Aliases
    BY <2>1 DEF ConInv, ConTypeOK
  <2> QED
    BY <1>3, <2>2, <2>3, TakesUp DEF OpenXmlrpcNew, Holds
<1>4. ASSUME NEW w \in Writers, NEW i \in Posts, NEW kept \in PostRow, OpenXmlrpcEdit(w, i, kept)
      PROVE  ConInv'
  <2>1. shared' = shared \union ({kept.alias} \intersect HeldAliases \intersect Aliases)
    BY <1>4 DEF OpenXmlrpcEdit, Notes
  <2>2. kept.alias \in HeldAliases => kept.alias \in shared' \union {Blank}
    BY <2>1, RowFacts
  <2>3. shared \subseteq shared' /\ shared' \subseteq Aliases
    BY <2>1 DEF ConInv, ConTypeOK
  <2>4. \A j \in Posts : InTable(j) /\ post[j].alias = kept.alias => i = j \/ kept.alias \in shared' \union {Blank}
    BY <1>4, <2>3 DEF OpenXmlrpcEdit, ConInv, AliasUniqueWhenAlone
  <2> QED
    BY <1>4, <2>2, <2>3, <2>4, TakesUp DEF OpenXmlrpcEdit, Holds
<1>5. ASSUME NEW w \in Writers, WritePost(w)
      PROVE  ConInv'
  <2> DEFINE a == work[w].copy.alias
  <2>1. work[w].at = "write" /\ work[w].copy \in PostRow /\ work[w].id \in Posts \union {NewId}
    BY <1>5, WorkFacts DEF WritePost, ConInv, ConTypeOK
  <2>2. PICK i \in Posts :
          /\ IF work[w].id = NewId THEN post[i] = Unborn ELSE i = work[w].id
          /\ post' = IF post[i] = Gone THEN post ELSE [post EXCEPT ![i] = work[w].copy]
          /\ work' = [v \in Writers |->
                CASE v = w -> ConFree
                  [] v # w /\ work[v].at = "sift" /\ work[w].copy.released ->
                        [work[v] EXCEPT !.turned = @ \union {i}]
                  [] OTHER -> work[v]]
          /\ shared' = shared
    BY <1>5 DEF WritePost
  <2>3. work'[w] = ConFree
    BY <2>2
  <2>4. \A v \in Writers \ {w} :
            \/ work'[v] = work[v] /\ ~(work[v].at = "sift" /\ work[w].copy.released)
            \/ /\ work[v].at = "sift" /\ work'[v].at = "sift"
               /\ work'[v] \in ConJob
               /\ work'[v].pass = work[v].pass /\ work'[v].turned = work[v].turned \union {i}
    <3> SUFFICES ASSUME NEW v \in Writers, v # w, work[v].at = "sift", work[w].copy.released
                 PROVE  /\ work'[v].at = "sift" /\ work'[v] \in ConJob
                        /\ work'[v].pass = work[v].pass /\ work'[v].turned = work[v].turned \union {i}
      BY <2>2
    <3>1. work'[v] = [work[v] EXCEPT !.turned = @ \union {i}]
      BY <2>2
    <3>2. work[v] = [at |-> "sift", marked |-> work[v].marked, pass |-> work[v].pass, turned |-> work[v].turned]
          /\ work[v].marked \in SUBSET Posts /\ work[v].pass \in SUBSET Posts /\ work[v].turned \in SUBSET Posts
      BY WorkFacts DEF ConInv, ConTypeOK
    <3>3. work'[v] = [at |-> "sift", marked |-> work[v].marked, pass |-> work[v].pass,
                      turned |-> work[v].turned \union {i}]
      BY <3>1, <3>2
    <3> QED
      BY <3>2, <3>3, WorkFacts
  <2>5. \/ post' = post
        \/ /\ post[i] # Gone /\ post'[i] = work[w].copy
           /\ \A j \in Posts \ {i} : post'[j] = post[j]
    BY <2>2 DEF ConInv, ConTypeOK
  <2>6. ConTypeOK'
    <3>1. work' \in [Writers -> ConJob]
      BY <2>2, <2>3, <2>4, WorkFacts DEF ConInv, ConTypeOK
    <3>2. post' \in [Posts -> PostRow \union {Unborn, Gone}]
      BY <2>1, <2>2 DEF ConInv, ConTypeOK
    <3> QED
      BY <2>2, <3>1, <3>2 DEF ConInv, ConTypeOK
  <2>7. \A v \in Writers : Saving(v)' => v # w /\ Saving(v) /\ work'[v] = work[v]
    BY <2>3, <2>4, WorkFacts DEF Saving
  <2>8. HeldApart'
    BY <2>2, <2>7 DEF ConInv, HeldApart, Saving, Loose
  <2>9. \A v \in Writers : Saving(v)' /\ work'[v].copy.alias = a => Loose(a)
    BY <2>1, <2>7 DEF ConInv, HeldApart, Saving
  <2>10. ClearToWrite'
    <3> SUFFICES ASSUME NEW v \in Writers, NEW j \in Posts, work'[v].at = "write",
                        InTable(j)', post'[j].alias = work'[v].copy.alias
                 PROVE  work'[v].id = j \/ post'[j].alias \in shared' \union {Blank}
      BY DEF ClearToWrite, Loose
    <3>1. Saving(v)' /\ work'[v] = work[v]
      BY <2>7 DEF Saving
    <3>2. CASE post'[j] = post[j]
      BY <2>2, <3>1, <3>2 DEF ConInv, ClearToWrite, InTable, Loose
    <3>3. CASE post'[j] # post[j]
      BY <2>2, <2>5, <2>9, <3>1, <3>3 DEF Loose
    <3> QED
      BY <3>2, <3>3
  <2>11. AliasUniqueWhenAlone'
    <3> SUFFICES ASSUME NEW j \in Posts, NEW k \in Posts, InTable(j)', InTable(k)', j # k,
                        post'[j].alias = post'[k].alias
                 PROVE  post'[j].alias \in shared' \union {Blank}
      BY DEF AliasUniqueWhenAlone
    <3>1. CASE post' = post
      BY <2>2, <3>1 DEF ConInv, AliasUniqueWhenAlone, InTable
    <3>2. CASE post'[i] = work[w].copy /\ \A m \in Posts \ {i} : post'[m] = post[m]
      <4>1. CASE j # i /\ k # i
        BY <2>2, <3>2, <4>1 DEF ConInv, AliasUniqueWhenAlone, InTable
      <4>2. ASSUME NEW m \in Posts, m # i, InTable(m), post[m].alias = a PROVE Loose(a)
        <5>1. work[w].id # m
          <6>1. CASE work[w].id = NewId
            BY <6>1, ContentAssumption DEF NewId
          <6>2. CASE work[w].id # NewId
            BY <2>2, <4>2, <6>2
          <6> QED
            BY <6>1, <6>2
        <5> QED
          BY <2>1, <4>2, <5>1 DEF ConInv, ClearToWrite
      <4> QED
        BY <2>2, <3>2, <4>1, <4>2 DEF InTable, Loose
    <3> QED
      BY <2>5, <3>1, <3>2
  <2>12. SievedBorn'
    BY <2>1, <2>3, <2>4, <2>5, WorkFacts, RowFacts DEF ConInv, SievedBorn
  <2>13. SievedDrafts'
    <3> SUFFICES ASSUME NEW v \in Writers, NEW j \in Posts, work'[v].at = "sift", j \in work'[v].pass,
                        InTable(j)', post'[j].released
                 PROVE  j \in work'[v].turned
      BY DEF SievedDrafts
    <3>1. v # w /\ work[v].at = "sift" /\ work'[v].pass = work[v].pass /\ work[v].turned \subseteq work'[v].turned
      BY <2>3, <2>4, WorkFacts
    <3>2. CASE post'[j] = post[j]
      BY <3>1, <3>2 DEF ConInv, SievedDrafts, InTable
    <3>3. CASE post'[j] # post[j]
      <4>1. j = i /\ work[w].copy.released
        BY <2>5, <3>3
      <4> QED
        BY <2>4, <3>1, <4>1
    <3> QED
      BY <3>2, <3>3
  <2> QED
    BY <2>6, <2>8, <2>10, <2>11, <2>12, <2>13 DEF ConInv
<1>6. ASSUME NEW w \in Writers, NEW marked \in SUBSET Posts, OpenDraftDelete(w, marked)
      PROVE  ConInv'
  <2>1. /\ work'[w] = [at |-> "sift", marked |-> marked, pass |-> {}, turned |-> {}]
        /\ \A v \in Writers \ {w} : work'[v] = work[v]
        /\ UNCHANGED <<post, shared>>
    BY <1>6 DEF OpenDraftDelete, Holds, ConInv, ConTypeOK
  <2>2. ConTypeOK'
    BY <1>6, WorkFacts DEF OpenDraftDelete, Holds, ConInv, ConTypeOK
  <2>3. HeldApart' /\ ClearToWrite'
    BY <2>1 DEF ConInv, HeldApart, ClearToWrite, Saving, InTable, Loose
  <2>4. AliasUniqueWhenAlone' /\ SievedDrafts' /\ SievedBorn'
    BY <2>1 DEF ConInv, AliasUniqueWhenAlone, SievedDrafts, SievedBorn, InTable
  <2> QED
    BY <2>2, <2>3, <2>4 DEF ConInv
<1>7. ASSUME NEW w \in Writers, NEW i \in Posts, Sift(w, i)
      PROVE  ConInv'
  <2>1. /\ work[w] = [at |-> "sift", marked |-> work[w].marked, pass |-> work[w].pass, turned |-> work[w].turned]
        /\ work[w].marked \in SUBSET Posts /\ work[w].pass \in SUBSET Posts /\ work[w].turned \in SUBSET Posts
    BY <1>7, WorkFacts DEF Sift, ConInv, ConTypeOK
  <2>2. /\ work'[w] = [at |-> "sift", marked |-> work[w].marked \ {i},
                       pass |-> IF MayGo(i) THEN work[w].pass \union {i} ELSE work[w].pass,
                       turned |-> work[w].turned]
        /\ \A v \in Writers \ {w} : work'[v] = work[v]
        /\ UNCHANGED <<post, shared>>
    BY <1>7, <2>1 DEF Sift, Holds, ConInv, ConTypeOK
  <2>3. work' \in [Writers -> ConJob]
    BY <1>7, <2>1, <2>2, WorkFacts DEF Sift, Holds, ConInv, ConTypeOK
  <2>4. ConTypeOK'
    BY <2>2, <2>3 DEF ConInv, ConTypeOK
  <2>5. HeldApart' /\ ClearToWrite'
    BY <2>2 DEF ConInv, HeldApart, ClearToWrite, Saving, InTable, Loose
  <2>6. AliasUniqueWhenAlone'
    BY <2>2 DEF ConInv, AliasUniqueWhenAlone, InTable
  <2>7. SievedDrafts' /\ SievedBorn'
    BY <2>1, <2>2, StoredRow DEF ConInv, SievedDrafts, SievedBorn, InTable, MayGo
  <2> QED
    BY <2>4, <2>5, <2>6, <2>7 DEF ConInv
<1>8. ASSUME NEW w \in Writers, DeleteDrafts(w)
      PROVE  ConInv'
  <2>1. work[w].pass \in SUBSET Posts
    BY <1>8, WorkFacts DEF DeleteDrafts, ConInv, ConTypeOK
  <2>2. work' \in [Writers -> ConJob] /\ \A v \in Writers : work'[v] = work[v] \/ work'[v] = ConFree
    BY <1>8, WorkFacts DEF DeleteDrafts, Holds, ConInv, ConTypeOK
  <2> QED
    BY <1>8, <2>1, <2>2, RowsGo DEF DeleteDrafts
<1>9. ASSUME NEW marked \in SUBSET Posts, DeleteMarked(marked)
      PROVE  ConInv'
  <2>1. work' \in [Writers -> ConJob] /\ \A v \in Writers : work'[v] = work[v]
    BY <1>9 DEF DeleteMarked, ConInv, ConTypeOK
  <2> QED
    BY <1>9, <2>1, RowsGo DEF DeleteMarked
<1>10. ASSUME NEW w \in Writers, ConAbandon(w)
       PROVE  ConInv'
  <2>1. work' \in [Writers -> ConJob] /\ \A v \in Writers : work'[v] = work[v] \/ work'[v] = ConFree
    BY <1>10, WorkFacts DEF ConAbandon, Holds, ConInv, ConTypeOK
  <2>2. post' = [i \in Posts |-> IF i \in {} /\ InTable(i) THEN Gone ELSE post[i]]
    BY <1>10 DEF ConAbandon, ConInv, ConTypeOK
  <2>3. {} \in SUBSET Posts
    OBVIOUS
  <2> QED
    BY <1>10, <2>1, <2>2, <2>3, RowsGo DEF ConAbandon
<1> QED
  BY <1>0, <1>1, <1>2, <1>3, <1>4, <1>5, <1>6, <1>7, <1>8, <1>9, <1>10 DEF ConNext

-----------------------------------------------------------------------------
\* Entries and requests keep their types.
THEOREM ContentTypeCorrect == ConSpec => []ConTypeOK
<1>1. ConInv => ConTypeOK
  BY DEF ConInv
<1> QED
  BY <1>1, InitConInv, NextConInv, PTL DEF ConSpec

\* Two entries share an alias only if XML-RPC gave it to one of them, or two
\* requests were about to write it at once (entrySave, savePost).
THEOREM AliasesAreApart == ConSpec => []AliasUniqueWhenAlone
<1>1. ConInv => AliasUniqueWhenAlone
  BY DEF ConInv
<1> QED
  BY <1>1, InitConInv, NextConInv, PTL DEF ConSpec

\* An author's delete takes drafts only, and what was released under it
\* (entriesDelete).
THEOREM AuthorsDeleteDrafts == ConSpec => AuthorDeletesDrafts
<1> DEFINE OnlyDrafts == \A w \in Writers, i \in Posts :
                /\ work[w].at = "sift" /\ work'[w] = ConFree
                /\ InTable(i) /\ ~InTable(i)'
                => ~post[i].released \/ i \in work[w].turned
<1>1. ConInv /\ [ConNext]_conVars => [OnlyDrafts]_conVars
  <2> SUFFICES ASSUME ConInv, ConNext, NEW w \in Writers, NEW i \in Posts,
                      work[w].at = "sift", work'[w] = ConFree, InTable(i), ~InTable(i)'
               PROVE  ~post[i].released \/ i \in work[w].turned
    OBVIOUS
  <2>1. post' # post /\ work' # work
    BY WorkFacts DEF InTable
  <2>2. CASE \E v \in Writers : DeleteDrafts(v)
    <3>1. PICK v \in Writers : DeleteDrafts(v)
      BY <2>2
    <3>2. v = w
      BY <3>1, WorkFacts DEF DeleteDrafts, Holds, ConInv, ConTypeOK
    <3>3. i \in work[w].pass
      BY <3>1, <3>2 DEF DeleteDrafts, InTable
    <3> QED
      BY <3>3 DEF ConInv, SievedDrafts, ConTypeOK, PostRow, InTable
  <2>3. CASE \E v \in Writers : WritePost(v)
    BY <2>3, WorkFacts, RowFacts DEF WritePost, InTable, ConInv, ConTypeOK
  <2> QED
    BY <2>1, <2>2, <2>3 DEF ConNext, OpenEditor, CheckAlias, OpenXmlrpcNew, OpenXmlrpcEdit,
       OpenDraftDelete, Sift, ConAbandon, DeleteMarked
<1>2. ConSpec => [][OnlyDrafts]_conVars
  BY <1>1, InitConInv, NextConInv, PTL DEF ConSpec
<1> QED
  BY <1>2 DEF AuthorDeletesDrafts

-----------------------------------------------------------------------------
(* Views. *)

\* The counted views of an entry have numbers up to how many there are: the
\* next one is new.
Numbered ==
    \A e \in Articles :
        /\ IsFiniteSet(counted[e])
        /\ \A x \in counted[e] : x[2] <= Cardinality(counted[e])

\* A counter, and the copy of it that a save holds.
AddedUp ==
    \A e \in Articles \ overwritten :
        /\ views[e] = Counts(e)
        /\ draft[e] # NoSave => draft[e] = views[e]

Busy(t, v) == tab[t] # VieFree /\ tab[t].by = v
Answering(t, v) == tab[t].at = "answer" /\ tab[t].by = v

\* A visitor who opens one page at a time sends the cookie they have.
OneAtATime(v) ==
    /\ \A t, u \in Tabs : Busy(t, v) /\ Busy(u, v) => t = u
    /\ \A t \in Tabs : Busy(t, v) => tab[t].sent = seen[v]

CountedOnceEach(v) ==
    \A e \in Articles : \A x, y \in counted[e] : x[1] = v /\ y[1] = v => x = y

\* The cookie holds what the visitor has read, or lacks the one entry whose
\* answer is on its way.
CookieFull(v) ==
    /\ Len(seen[v]) = Cardinality(ReadBy(v))
    /\ \A f \in Articles : f \in ReadBy(v) <=> Contains(seen[v], f)
CookieLacks(v, e) ==
    /\ Len(seen[v]) + 1 = Cardinality(ReadBy(v))
    /\ \A f \in Articles : f \in ReadBy(v) <=> Contains(seen[v], f) \/ f = e

Remembered(v) ==
    /\ CountedOnceEach(v)
    /\ \A t \in Tabs : Answering(t, v) => CookieLacks(v, tab[t].of)
    /\ (\A t \in Tabs : ~Answering(t, v)) => CookieFull(v)

VisitorOK(v) ==
    /\ IsFiniteSet(ReadBy(v))
    /\ v \notin unsteady =>
          /\ OneAtATime(v)
          /\ Cardinality(ReadBy(v)) <= SeenMax => Remembered(v)

VieInv == VieTypeOK /\ Numbered /\ AddedUp /\ \A v \in Visitors : VisitorOK(v)

-----------------------------------------------------------------------------
\* Cookies.
Cookie == BoundedSeq(Articles, SeenMax)

LEMMA Cookies ==
    \A s : s \in Cookie <=> s \in Seq(Articles) /\ Len(s) <= SeenMax
<1>1. ASSUME NEW s, s \in Cookie
      PROVE  s \in Seq(Articles) /\ Len(s) <= SeenMax
  <2>1. PICK m \in 0..SeenMax : s \in [1..m -> Articles]
    BY <1>1 DEF Cookie, BoundedSeq, SeqOf
  <2>2. m \in Nat /\ m <= SeenMax
    BY ViewsAssumption
  <2>3. s \in Seq(Articles) /\ Len(s) = m
    BY <2>1, <2>2, IsASeq, LenProperties
  <2> QED
    BY <2>2, <2>3
<1>2. ASSUME NEW s \in Seq(Articles), Len(s) <= SeenMax
      PROVE  s \in Cookie
  <2>1. Len(s) \in 0..SeenMax /\ s \in [1..Len(s) -> Articles]
    BY <1>2, ViewsAssumption, LenProperties
  <2> QED
    BY <2>1 DEF Cookie, BoundedSeq, SeqOf
<1> QED
  BY <1>1, <1>2

\* A cookie after an entry was added to it.
LEMMA PushedFacts ==
    ASSUME NEW s \in Cookie, NEW e \in Articles
    PROVE  /\ Pushed(s, e) \in Cookie
           /\ Len(s) + 1 <= SeenMax =>
                 /\ Len(Pushed(s, e)) = Len(s) + 1
                 /\ \A f \in Articles : Contains(Pushed(s, e), f) <=> Contains(s, f) \/ f = e
<1>1. s \in Seq(Articles) /\ Len(s) <= SeenMax /\ Len(s) \in Nat
  BY Cookies, LenProperties
<1> DEFINE all == Append(s, e)
<1>2. /\ all \in Seq(Articles) /\ all # << >>
      /\ Len(all) = Len(s) + 1
      /\ \A i \in 1..Len(s) : all[i] = s[i]
      /\ all[Len(s) + 1] = e
  BY <1>1, AppendProperties
<1>3. CASE Len(all) > SeenMax
  <2>1. Tail(all) \in Seq(Articles) /\ Len(Tail(all)) = Len(all) - 1
    BY <1>2, HeadTailProperties
  <2>2. Pushed(s, e) = Tail(all)
    BY <1>3 DEF Pushed
  <2>3. Len(Tail(all)) <= SeenMax /\ ~(Len(s) + 1 <= SeenMax)
    BY <1>1, <1>2, <1>3, <2>1, ViewsAssumption
  <2> HIDE DEF all
  <2>4. Pushed(s, e) \in Cookie
    BY <2>1, <2>2, <2>3, Cookies
  <2> QED
    BY <2>3, <2>4
<1>4. CASE ~(Len(all) > SeenMax)
  <2>1. Pushed(s, e) = all
    BY <1>4 DEF Pushed
  <2> HIDE DEF all
  <2>2. all \in Cookie
    BY <1>1, <1>2, <1>4, Cookies, ViewsAssumption
  <2>3. \A f \in Articles : Contains(all, f) <=> Contains(s, f) \/ f = e
    BY <1>1, <1>2 DEF Contains
  <2> QED
    BY <1>2, <2>1, <2>2, <2>3
<1> QED
  BY <1>3, <1>4

\* What a tab holds.
LEMMA TabFacts ==
    /\ VieFree \in VieJob /\ VieFree.at = "idle"
    /\ \A k \in {"count", "answer"}, v \in Visitors, e \in Articles, s \in Cookie :
          [at |-> k, by |-> v, of |-> e, sent |-> s] \in VieJob
    /\ \A j \in VieJob :
          /\ j.at \in {"idle", "count", "answer"}
          /\ j.at = "idle" <=> j = VieFree
          /\ j # VieFree =>
                /\ j.by \in Visitors /\ j.of \in Articles /\ j.sent \in Cookie
                /\ j = [at |-> j.at, by |-> j.by, of |-> j.of, sent |-> j.sent]
<1>1. VieFree.at = "idle"
  BY DEF VieFree
<1>2. ASSUME NEW j \in VieJob
      PROVE  /\ j.at \in {"idle", "count", "answer"}
             /\ j.at = "idle" <=> j = VieFree
             /\ j # VieFree =>
                   /\ j.by \in Visitors /\ j.of \in Articles /\ j.sent \in Cookie
                   /\ j = [at |-> j.at, by |-> j.by, of |-> j.of, sent |-> j.sent]
  <2>1. CASE j = VieFree
    BY <1>1, <2>1
  <2>2. CASE j \in [at : {"count", "answer"}, by : Visitors, of : Articles, sent : Cookie]
    BY <1>1, <2>2
  <2> QED
    BY <2>1, <2>2 DEF VieJob, Cookie
<1>3. /\ VieFree \in VieJob
      /\ \A k \in {"count", "answer"}, v \in Visitors, e \in Articles, s \in Cookie :
            [at |-> k, by |-> v, of |-> e, sent |-> s] \in VieJob
  BY DEF VieJob, Cookie
<1> QED
  BY <1>1, <1>2, <1>3

LEMMA LoadsFacts ==
    ASSUME VieTypeOK, NEW t \in Tabs, NEW j \in VieJob, Loads(t, j)
    PROVE  /\ tab' \in [Tabs -> VieJob]
           /\ tab'[t] = j /\ \A u \in Tabs \ {t} : tab'[u] = tab[u]
  BY DEF Loads, VieTypeOK

\* The next view of an entry.
LEMMA NextView ==
    ASSUME VieTypeOK, Numbered, NEW e \in Articles, NEW v \in Visitors, Counts(e) < MaxViews
    PROVE  LET C == counted[e] \union {<<v, Counts(e) + 1>>} IN
           /\ IsFiniteSet(C) /\ Cardinality(C) = Counts(e) + 1
           /\ C \in SUBSET (Visitors \X (1..MaxViews))
           /\ \A x \in C : x[2] <= Cardinality(C)
           /\ Counts(e) \in Nat
<1> DEFINE n == Counts(e) + 1
           C == counted[e] \union {<<v, n>>}
<1>1. IsFiniteSet(counted[e]) /\ Counts(e) \in Nat
  BY FS_CardinalityType DEF Numbered, Counts
<1>2. n \in 1..MaxViews
  BY <1>1, ViewsAssumption
<1>3. \A x \in counted[e] : x \in Visitors \X (1..MaxViews) /\ x[2] <= Counts(e)
  BY DEF VieTypeOK, Numbered, Counts
<1>4. <<v, n>> \notin counted[e]
  BY <1>1, <1>3
<1>5. IsFiniteSet(C) /\ Cardinality(C) = n
  BY <1>1, <1>4, FS_AddElement DEF Counts
<1>6. \A x \in C : x[2] <= n
  BY <1>1, <1>3
<1>7. C \in SUBSET (Visitors \X (1..MaxViews))
  BY <1>2, <1>3
<1> QED
  BY <1>1, <1>5, <1>6, <1>7

-----------------------------------------------------------------------------
LEMMA InitVieInv == VieInit => VieInv
<1> SUFFICES ASSUME VieInit PROVE VieInv
  OBVIOUS
<1>1. << >> \in Cookie
  <2>1. << >> \in Seq(Articles) /\ Len(<< >>) = 0
    BY EmptySeq
  <2>2. 0 <= SeenMax
    BY ViewsAssumption
  <2> QED
    BY <2>1, <2>2, Cookies
<1>2. VieTypeOK
  BY <1>1, TabFacts, ViewsAssumption DEF VieInit, VieTypeOK, Cookie, NoSave
<1>3. Numbered /\ AddedUp
  BY FS_EmptySet DEF VieInit, Numbered, AddedUp, Counts
<1>4. ASSUME NEW v \in Visitors PROVE VisitorOK(v)
  <2>1. ReadBy(v) = {}
    BY DEF VieInit, ReadBy
  <2>2. \A t \in Tabs : ~Busy(t, v) /\ ~Answering(t, v)
    BY TabFacts DEF VieInit, Busy, Answering
  <2>3. CookieFull(v)
    BY <2>1, FS_EmptySet, EmptySeq DEF VieInit, CookieFull, Contains
  <2> QED
    BY <2>1, <2>2, <2>3, FS_EmptySet
    DEF VisitorOK, OneAtATime, Remembered, CountedOnceEach, VieInit
<1> QED
  BY <1>2, <1>3, <1>4 DEF VieInv

\* A visitor is as before when nothing of theirs changes.
LEMMA VisitorStays ==
    ASSUME NEW v \in Visitors, VisitorOK(v), v \notin unsteady' => v \notin unsteady,
           seen'[v] = seen[v],
           \A e \in Articles : \A x : x[1] = v => (x \in counted'[e] <=> x \in counted[e]),
           \A t \in Tabs : \/ tab'[t] = tab[t]
                           \/ ~Busy(t, v)' /\ ~Answering(t, v)' /\ ~Answering(t, v)
    PROVE  VisitorOK(v)'
<1>1. ReadBy(v)' = ReadBy(v)
  BY DEF ReadBy
<1>2. CountedOnceEach(v) => CountedOnceEach(v)'
  BY DEF CountedOnceEach
<1>3. OneAtATime(v) => OneAtATime(v)'
  BY DEF OneAtATime, Busy
<1>4. \A t \in Tabs : Answering(t, v)' <=> Answering(t, v)
  BY DEF Answering
<1>5. \A t \in Tabs : Answering(t, v) /\ CookieLacks(v, tab[t].of) => CookieLacks(v, tab[t].of)'
  <2> SUFFICES ASSUME NEW t \in Tabs, Answering(t, v), CookieLacks(v, tab[t].of)
               PROVE  CookieLacks(v, tab[t].of)'
    OBVIOUS
  <2>1. tab'[t] = tab[t]
    OBVIOUS
  <2> QED
    BY <1>1, <2>1 DEF CookieLacks
<1>6. CookieFull(v) => CookieFull(v)'
  BY <1>1 DEF CookieFull
<1>7. Remembered(v) => Remembered(v)'
  BY <1>2, <1>4, <1>5, <1>6 DEF Remembered
<1> QED
  BY <1>1, <1>3, <1>7 DEF VisitorOK

LEMMA OpenEntryInv ==
    ASSUME VieInv, NEW t \in Tabs, NEW v \in Visitors, NEW e \in Articles, OpenEntry(t, v, e)
    PROVE  VieInv'
<1>1. /\ tab[t] = VieFree /\ UNCHANGED <<views, seen, draft, counted, overwritten>>
      /\ Loads(t, [at |-> "count", by |-> v, of |-> e, sent |-> seen[v]])
      /\ unsteady' = IF \E u \in Tabs : Busy(u, v) THEN unsteady \union {v} ELSE unsteady
  BY DEF OpenEntry, Busy
<1>2. PICK j \in VieJob : /\ j = [at |-> "count", by |-> v, of |-> e, sent |-> seen[v]]
                         /\ j.at = "count" /\ j.by = v /\ j.sent = seen[v] /\ j # VieFree
  <2>1. seen[v] \in Cookie
    BY DEF VieInv, VieTypeOK, Cookie
  <2>2. [at |-> "count", by |-> v, of |-> e, sent |-> seen[v]] \in VieJob
    BY <2>1, TabFacts
  <2> QED
    BY <2>2, TabFacts
<1>3. tab' \in [Tabs -> VieJob] /\ tab'[t] = j /\ \A u \in Tabs \ {t} : tab'[u] = tab[u]
  BY <1>1, <1>2, LoadsFacts DEF VieInv
<1>4. VieTypeOK' /\ Numbered' /\ AddedUp'
  BY <1>1, <1>3 DEF VieInv, VieTypeOK, Numbered, AddedUp, Counts
<1>5. ASSUME NEW w \in Visitors, w # v PROVE VisitorOK(w)'
  <2>1. ~Busy(t, w)' /\ ~Answering(t, w)' /\ ~Answering(t, w)
    BY <1>1, <1>2, <1>3, <1>5, TabFacts DEF Busy, Answering
  <2> QED
    BY <1>1, <1>3, <1>5, <2>1, VisitorStays DEF VieInv
<1>6. VisitorOK(v)'
  <2>1. ReadBy(v)' = ReadBy(v) /\ (CountedOnceEach(v) <=> CountedOnceEach(v)')
        /\ (CookieFull(v) <=> CookieFull(v)')
    BY <1>1 DEF ReadBy, CountedOnceEach, CookieFull
  <2>2. CASE v \in unsteady'
    BY <2>1, <2>2 DEF VisitorOK, VieInv
  <2>3. CASE v \notin unsteady'
    <3>1. v \notin unsteady /\ \A u \in Tabs : ~Busy(u, v)
      BY <1>1, <2>3
    <3>2. OneAtATime(v)'
      BY <1>1, <1>2, <1>3, <3>1 DEF OneAtATime, Busy
    <3>3. \A u \in Tabs : ~Answering(u, v) /\ ~Answering(u, v)'
      BY <1>2, <1>3, <3>1, TabFacts DEF Answering, Busy
    <3>4. Remembered(v) => Remembered(v)'
      BY <2>1, <3>3 DEF Remembered
    <3> QED
      BY <2>1, <3>1, <3>2, <3>4 DEF VisitorOK, VieInv
  <2> QED
    BY <2>2, <2>3
<1> QED
  BY <1>4, <1>5, <1>6 DEF VieInv

LEMMA SkipCountInv ==
    ASSUME VieInv, NEW t \in Tabs, SkipCount(t)
    PROVE  VieInv'
<1>1. /\ tab[t].at = "count" /\ Loads(t, VieFree)
      /\ UNCHANGED <<views, seen, draft, counted, unsteady, overwritten>>
  BY DEF SkipCount
<1>2. tab' \in [Tabs -> VieJob] /\ tab'[t] = VieFree /\ \A u \in Tabs \ {t} : tab'[u] = tab[u]
  BY <1>1, LoadsFacts, TabFacts DEF VieInv
<1>3. VieTypeOK' /\ Numbered' /\ AddedUp'
  BY <1>1, <1>2 DEF VieInv, VieTypeOK, Numbered, AddedUp, Counts
<1>4. ASSUME NEW v \in Visitors PROVE VisitorOK(v)'
  <2>1. ~Busy(t, v)' /\ ~Answering(t, v)' /\ ~Answering(t, v)
    BY <1>1, <1>2, TabFacts DEF Busy, Answering
  <2> QED
    BY <1>1, <1>2, <2>1, VisitorStays DEF VieInv
<1> QED
  BY <1>3, <1>4 DEF VieInv

LEMMA CountInv ==
    ASSUME VieInv, NEW t \in Tabs, Count(t)
    PROVE  VieInv'
<1>1. PICK h \in VieJob, e \in Articles, v \in Visitors :
        /\ h = tab[t] /\ h.at = "count" /\ h.of = e /\ h.by = v /\ h.sent \in Cookie /\ h # VieFree
        /\ h = [at |-> "count", by |-> v, of |-> e, sent |-> h.sent]
  BY TabFacts DEF Count, VieInv, VieTypeOK
<1>2. /\ ~Contains(h.sent, e)
      /\ views[e] < MaxViews /\ Counts(e) < MaxViews
      /\ views' = [views EXCEPT ![e] = @ + 1]
      /\ counted' = [counted EXCEPT ![e] = @ \union {<<v, Counts(e) + 1>>}]
      /\ overwritten' = IF draft[e] = NoSave THEN overwritten ELSE overwritten \union {e}
      /\ Loads(t, [h EXCEPT !.at = "answer"])
      /\ UNCHANGED <<seen, draft, unsteady>>
  BY <1>1 DEF Count, AlreadyCounted
<1>3. PICK j \in VieJob : /\ j = [h EXCEPT !.at = "answer"]
                         /\ j.at = "answer" /\ j.by = v /\ j.of = e /\ j.sent = h.sent /\ j # VieFree
  <2>1. [h EXCEPT !.at = "answer"] = [at |-> "answer", by |-> v, of |-> e, sent |-> h.sent]
    BY <1>1
  <2> QED
    BY <1>1, <2>1, TabFacts
<1>4. tab' \in [Tabs -> VieJob] /\ tab'[t] = j /\ \A u \in Tabs \ {t} : tab'[u] = tab[u]
  BY <1>2, <1>3, LoadsFacts DEF VieInv
<1>5. PICK C \in SUBSET (Visitors \X (1..MaxViews)), n \in Nat :
        /\ n = Counts(e) /\ C = counted[e] \union {<<v, n + 1>>}
        /\ IsFiniteSet(C) /\ Cardinality(C) = n + 1 /\ \A x \in C : x[2] <= Cardinality(C)
  BY <1>2, NextView DEF VieInv
<1>6. /\ counted' \in [Articles -> SUBSET (Visitors \X (1..MaxViews))]
      /\ counted'[e] = C /\ \A f \in Articles \ {e} : counted'[f] = counted[f]
  BY <1>2, <1>5 DEF VieInv, VieTypeOK
<1>7. VieTypeOK'
  <2>1. views' \in [Articles -> 0..MaxViews]
    BY <1>2, ViewsAssumption DEF VieInv, VieTypeOK
  <2> QED
    BY <1>2, <1>4, <1>6, <2>1 DEF VieInv, VieTypeOK
<1>8. Numbered'
  BY <1>5, <1>6 DEF VieInv, Numbered
<1>9. AddedUp'
  <2> SUFFICES ASSUME NEW f \in Articles, f \notin overwritten'
               PROVE  views'[f] = Counts(f)' /\ (draft'[f] # NoSave => draft'[f] = views'[f])
    BY DEF AddedUp, NoSave
  <2>1. f \notin overwritten /\ (f = e => draft[e] = NoSave)
    BY <1>2
  <2>2. CASE f = e
    <3>1. views'[e] = n + 1
      BY <1>2, <1>5, <2>1, <2>2 DEF VieInv, VieTypeOK, AddedUp
    <3> QED
      BY <1>2, <1>5, <1>6, <2>1, <2>2, <3>1 DEF Counts
  <2>3. CASE f # e
    BY <1>2, <1>6, <2>1, <2>3 DEF VieInv, VieTypeOK, AddedUp, Counts
  <2> QED
    BY <2>2, <2>3
<1>10. ASSUME NEW w \in Visitors, w # v PROVE VisitorOK(w)'
  <2>1. ~Busy(t, w)' /\ ~Answering(t, w)' /\ ~Answering(t, w)
    BY <1>1, <1>3, <1>4, <1>10 DEF Busy, Answering
  <2>2. \A f \in Articles : \A x : x[1] = w => (x \in counted'[f] <=> x \in counted[f])
    BY <1>5, <1>6, <1>10
  <2> QED
    BY <1>2, <1>4, <2>1, <2>2, VisitorStays DEF VieInv
<1>11. VisitorOK(v)'
  <2>1. VisitorOK(v)
    BY DEF VieInv
  <2>2. ReadBy(v)' = ReadBy(v) \union {e}
    <3>1. <<v, n + 1>> \in counted'[e] /\ <<v, n + 1>>[1] = v
      BY <1>5, <1>6
    <3>2. \A f \in Articles \ {e} : (\E x \in counted'[f] : x[1] = v) <=> (\E x \in counted[f] : x[1] = v)
      BY <1>6
    <3>3. e \in ReadBy(v)'
      BY <3>1 DEF ReadBy
    <3> QED
      BY <3>2, <3>3 DEF ReadBy
  <2>3. /\ IsFiniteSet(ReadBy(v)) /\ IsFiniteSet(ReadBy(v)')
        /\ Cardinality(ReadBy(v)') =
              IF e \in ReadBy(v) THEN Cardinality(ReadBy(v)) ELSE Cardinality(ReadBy(v)) + 1
        /\ Cardinality(ReadBy(v)) \in Nat
    BY <2>1, <2>2, FS_AddElement, FS_CardinalityType DEF VisitorOK
  <2>4. CASE v \in unsteady
    BY <1>2, <2>3, <2>4 DEF VisitorOK
  <2>5. CASE v \notin unsteady
    <3>1. OneAtATime(v) /\ Busy(t, v)
      BY <1>1, <2>1, <2>5 DEF VisitorOK, Busy
    <3>2. h.sent = seen[v]
      BY <1>1, <3>1 DEF OneAtATime
    <3>3. \A u \in Tabs \ {t} : ~Busy(u, v) /\ ~Busy(u, v)' /\ ~Answering(u, v) /\ ~Answering(u, v)'
      BY <1>4, <3>1, TabFacts DEF OneAtATime, Busy, Answering
    <3>4. OneAtATime(v)'
      BY <1>2, <1>3, <1>4, <3>2, <3>3 DEF OneAtATime
    <3>5. ASSUME Cardinality(ReadBy(v)') <= SeenMax
          PROVE  Remembered(v)'
      <4>1. Remembered(v)
        BY <2>1, <2>3, <2>5, <3>5, ViewsAssumption DEF VisitorOK
      <4>2. CookieFull(v)
        BY <1>1, <3>3, <4>1 DEF Remembered, Answering
      <4>3. e \notin ReadBy(v)
        BY <1>2, <3>2, <4>2 DEF CookieFull
      <4>4. CookieLacks(v, e)'
        <5>1. Len(seen[v])' + 1 = Cardinality(ReadBy(v)')
          BY <1>2, <2>3, <4>2, <4>3 DEF CookieFull
        <5>2. \A f \in Articles : f \in ReadBy(v)' <=> Contains(seen'[v], f) \/ f = e
          BY <1>2, <2>2, <4>2 DEF CookieFull
        <5> QED
          BY <5>1, <5>2 DEF CookieLacks
      <4>5. CountedOnceEach(v)'
        <5>1. \A x \in counted[e] : x[1] # v
          BY <4>3 DEF ReadBy
        <5>2. \A x, y \in C : x[1] = v /\ y[1] = v => x = y
          BY <1>5, <5>1
        <5> QED
          BY <1>6, <4>1, <5>2 DEF Remembered, CountedOnceEach
      <4>6. \A u \in Tabs : Answering(u, v)' => CookieLacks(v, tab[u].of)'
        BY <1>3, <1>4, <3>3, <4>4 DEF CookieLacks
      <4>7. Answering(t, v)'
        BY <1>3, <1>4 DEF Answering
      <4> QED
        BY <4>5, <4>6, <4>7 DEF Remembered
    <3> QED
      BY <1>2, <2>3, <3>4, <3>5 DEF VisitorOK
  <2> QED
    BY <2>4, <2>5
<1> QED
  BY <1>7, <1>8, <1>9, <1>10, <1>11 DEF VieInv

\* The answer arrives, or does not.
LEMMA AnswersInv ==
    ASSUME VieInv, NEW t \in Tabs, Answer(t) \/ LoseAnswer(t)
    PROVE  VieInv'
<1>1. PICK h \in VieJob, e \in Articles, v \in Visitors :
        /\ h = tab[t] /\ h.at = "answer" /\ h.of = e /\ h.by = v /\ h.sent \in Cookie /\ h # VieFree
  BY TabFacts DEF Answer, LoseAnswer, VieInv, VieTypeOK
<1>2. /\ Loads(t, VieFree) /\ UNCHANGED <<views, draft, counted, overwritten>>
      /\ \/ seen' = [seen EXCEPT ![v] = Pushed(h.sent, e)] /\ UNCHANGED unsteady
         \/ unsteady' = unsteady \union {v} /\ UNCHANGED seen
  BY <1>1 DEF Answer, LoseAnswer
<1>3. tab' \in [Tabs -> VieJob] /\ tab'[t] = VieFree /\ \A u \in Tabs \ {t} : tab'[u] = tab[u]
  BY <1>2, LoadsFacts, TabFacts DEF VieInv
<1>4. seen' \in [Visitors -> Cookie] /\ unsteady' \subseteq Visitors
  <2>1. Pushed(h.sent, e) \in Cookie
    BY <1>1, PushedFacts
  <2>2. seen \in [Visitors -> Cookie] /\ unsteady \subseteq Visitors
    BY DEF VieInv, VieTypeOK, Cookie
  <2> QED
    BY <1>2, <2>1, <2>2
<1>5. VieTypeOK' /\ Numbered' /\ AddedUp'
  BY <1>2, <1>3, <1>4 DEF VieInv, VieTypeOK, Numbered, AddedUp, Counts, Cookie
<1>6. ASSUME NEW w \in Visitors, w # v PROVE VisitorOK(w)'
  <2>1. ~Busy(t, w)' /\ ~Answering(t, w)' /\ ~Answering(t, w)
    BY <1>1, <1>3, <1>6, TabFacts DEF Busy, Answering
  <2>2. seen'[w] = seen[w] /\ (w \notin unsteady' => w \notin unsteady)
    BY <1>2, <1>6 DEF VieInv, VieTypeOK
  <2> QED
    BY <1>2, <1>3, <2>1, <2>2, VisitorStays DEF VieInv
<1>7. VisitorOK(v)'
  <2>1. VisitorOK(v)
    BY DEF VieInv
  <2>2. ReadBy(v)' = ReadBy(v) /\ (CountedOnceEach(v) <=> CountedOnceEach(v)')
    BY <1>2 DEF ReadBy, CountedOnceEach
  <2>3. CASE v \in unsteady'
    BY <2>1, <2>2, <2>3 DEF VisitorOK
  <2>4. CASE v \notin unsteady'
    <3>1. v \notin unsteady /\ seen'[v] = Pushed(h.sent, e)
      BY <1>2, <2>4 DEF VieInv, VieTypeOK
    <3>2. OneAtATime(v) /\ Busy(t, v) /\ Answering(t, v)
      BY <1>1, <2>1, <3>1 DEF VisitorOK, Busy, Answering
    <3>3. h.sent = seen[v]
      BY <1>1, <3>2 DEF OneAtATime
    <3>4. \A u \in Tabs : ~Busy(u, v)' /\ ~Answering(u, v)'
      BY <1>3, <3>2, TabFacts DEF OneAtATime, Busy, Answering
    <3>5. OneAtATime(v)'
      BY <3>4 DEF OneAtATime
    <3>6. ASSUME Cardinality(ReadBy(v)) <= SeenMax
          PROVE  Remembered(v)'
      <4>1. CountedOnceEach(v) /\ CookieLacks(v, e)
        BY <1>1, <2>1, <3>1, <3>2, <3>6 DEF VisitorOK, Remembered
      <4>2. Len(h.sent) + 1 <= SeenMax
        BY <3>3, <3>6, <4>1 DEF CookieLacks
      <4>3. /\ Len(seen'[v]) = Len(h.sent) + 1
            /\ \A f \in Articles : Contains(seen'[v], f) <=> Contains(h.sent, f) \/ f = e
        BY <1>1, <3>1, <4>2, PushedFacts
      <4>4. CookieFull(v)'
        BY <2>2, <3>3, <4>1, <4>3 DEF CookieLacks, CookieFull
      <4> QED
        BY <2>2, <3>4, <4>1, <4>4 DEF Remembered
    <3> QED
      BY <2>1, <2>2, <3>5, <3>6 DEF VisitorOK
  <2> QED
    BY <2>3, <2>4
<1> QED
  BY <1>5, <1>6, <1>7 DEF VieInv

LEMMA LoseCookieInv ==
    ASSUME VieInv, NEW v \in Visitors, LoseCookie(v)
    PROVE  VieInv'
<1>1. /\ seen' = [seen EXCEPT ![v] = << >>] /\ unsteady' = unsteady \union {v}
      /\ UNCHANGED <<views, tab, draft, counted, overwritten>>
  BY DEF LoseCookie
<1>2. << >> \in Cookie
  <2>1. << >> \in Seq(Articles) /\ Len(<< >>) = 0
    BY EmptySeq
  <2>2. 0 <= SeenMax
    BY ViewsAssumption
  <2> QED
    BY <2>1, <2>2, Cookies
<1>3. VieTypeOK' /\ Numbered' /\ AddedUp'
  BY <1>1, <1>2 DEF VieInv, VieTypeOK, Numbered, AddedUp, Counts, Cookie
<1>4. ASSUME NEW w \in Visitors PROVE VisitorOK(w)'
  <2>1. CASE w = v
    <3>1. ReadBy(v)' = ReadBy(v) /\ v \in unsteady'
      BY <1>1 DEF ReadBy
    <3> QED
      BY <2>1, <3>1 DEF VieInv, VisitorOK
  <2>2. CASE w # v
    <3>1. seen'[w] = seen[w] /\ (w \notin unsteady' => w \notin unsteady)
      BY <1>1, <2>2 DEF VieInv, VieTypeOK
    <3> QED
      BY <1>1, <3>1, VisitorStays DEF VieInv
  <2> QED
    BY <2>1, <2>2
<1> QED
  BY <1>3, <1>4 DEF VieInv

\* A save changes the counter and its copy.
LEMMA SaveInv ==
    ASSUME VieInv, NEW e \in Articles, OpenSave(e) \/ EndSave(e)
    PROVE  VieInv'
<1>1. UNCHANGED <<seen, tab, counted, unsteady, overwritten>>
  BY DEF OpenSave, EndSave
<1>2. ASSUME NEW v \in Visitors PROVE VisitorOK(v)'
  BY <1>1, VisitorStays DEF VieInv
<1>3. MaxViews \in Nat /\ NoSave = MaxViews + 1
  BY ViewsAssumption DEF NoSave
<1>4. CASE OpenSave(e)
  <2>1. draft[e] = NoSave /\ draft' = [draft EXCEPT ![e] = views[e]] /\ UNCHANGED views
    BY <1>4 DEF OpenSave
  <2>2. draft' \in [Articles -> 0..NoSave]
    BY <1>3, <2>1 DEF VieInv, VieTypeOK
  <2>3. VieTypeOK' /\ Numbered'
    BY <1>1, <2>1, <2>2 DEF VieInv, VieTypeOK, Numbered
  <2>4. AddedUp'
    BY <1>1, <2>1 DEF VieInv, VieTypeOK, AddedUp, Counts, NoSave
  <2> QED
    BY <1>2, <2>3, <2>4 DEF VieInv
<1>5. CASE EndSave(e)
  <2>1. /\ draft[e] # NoSave
        /\ views' = [views EXCEPT ![e] = draft[e]] /\ draft' = [draft EXCEPT ![e] = NoSave]
    BY <1>5 DEF EndSave
  <2>2. draft' \in [Articles -> 0..NoSave] /\ views' \in [Articles -> 0..MaxViews]
    BY <1>3, <2>1 DEF VieInv, VieTypeOK
  <2>3. VieTypeOK' /\ Numbered'
    BY <1>1, <2>1, <2>2 DEF VieInv, VieTypeOK, Numbered
  <2>4. AddedUp'
    BY <1>1, <2>1 DEF VieInv, VieTypeOK, AddedUp, Counts, NoSave
  <2> QED
    BY <1>2, <2>3, <2>4 DEF VieInv
<1> QED
  BY <1>4, <1>5

LEMMA NextVieInv == VieInv /\ [VieNext]_vieVars => VieInv'
<1> SUFFICES ASSUME VieInv, [VieNext]_vieVars PROVE VieInv'
  OBVIOUS
<1>1. CASE UNCHANGED vieVars
  <2>1. UNCHANGED <<views, seen, tab, draft, counted, unsteady, overwritten>>
    BY <1>1 DEF vieVars
  <2>2. VieTypeOK' /\ Numbered' /\ AddedUp'
    BY <2>1 DEF VieInv, VieTypeOK, Numbered, AddedUp, Counts
  <2>3. \A v \in Visitors : VisitorOK(v)'
    BY <2>1, VisitorStays DEF VieInv
  <2> QED
    BY <2>2, <2>3 DEF VieInv
<1> QED
  BY <1>1, OpenEntryInv, SkipCountInv, CountInv, AnswersInv, LoseCookieInv, SaveInv DEF VieNext

\* The counters, the cookies and the requests that read them are well formed,
\* and a cookie holds at most so many ids (countView, writeSeen).
THEOREM ViewsTypeCorrect == VieSpec => []VieTypeOK
<1>1. VieInv => VieTypeOK
  BY DEF VieInv
<1> QED
  BY <1>1, InitVieInv, NextVieInv, PTL DEF VieSpec

\* A visitor who keeps the cookie, opens one page at a time and has read no more
\* entries than it holds is counted once on each of them, however many visitors
\* and entries there are (countView).
THEOREM VisitorsCountOnce == VieSpec => []CountedOnce
<1>1. VieInv => CountedOnce
  BY DEF VieInv, VisitorOK, Remembered, CountedOnceEach, CountedOnce
<1> QED
  BY <1>1, InitVieInv, NextVieInv, PTL DEF VieSpec

\* The counter of an entry is the number of views that were counted, unless one
\* was counted while a save was open (IncrementViews, UpdateEntry).
THEOREM CountersAddUp == VieSpec => []ViewsAddUp
<1>1. VieInv => ViewsAddUp
  BY DEF VieInv, AddedUp, ViewsAddUp
<1> QED
  BY <1>1, InitVieInv, NextVieInv, PTL DEF VieSpec

-----------------------------------------------------------------------------
(* Related entries. *)

\* Nothing names an entry that is not there yet.
Born(e) == life[e] # "unborn"
RowsBorn == \A r \in rows : Born(r[1]) /\ Born(r[2])
FormBorn(g) ==
    g # NoForm =>
        /\ g.at = "relate" => g.of \in Entries
        /\ g.of \in Entries => Born(g.of)
        /\ g.at \in {"save", "relate"} => \A f \in g.list : Born(f)

\* A form whose author took nothing off knows every relation its entry wrote,
\* or another request wrote it since.
FormKnows(g) ==
    g # NoForm /\ g.of \in Entries /\ (g.at = "open" \/ g.took = "nothing") =>
        \A f \in Entries \ {g.of} :
            Exists(g.of) /\ Exists(f) /\ <<g.of, f>> \in rows
            => f \in g.list \/ <<g.of, f>> \in g.since

RelInv ==
    /\ RelTypeOK
    /\ RowsBorn
    /\ \A w \in Editors : FormBorn(form[w]) /\ FormKnows(form[w])

\* What a form holds.
LEMMA FormFacts ==
    /\ NoForm \in RelForm /\ NoForm.at = "closed"
    /\ \A e \in Entries \union {NewEntry}, L \in SUBSET Entries, S \in SUBSET (Entries \X Entries) :
          /\ [at |-> "open", of |-> e, list |-> L, since |-> S] \in RelForm
          /\ \A k \in {"save", "relate"}, t \in {"nothing", "some"} :
                [at |-> k, of |-> e, list |-> L, took |-> t, since |-> S] \in RelForm
    /\ \A g \in RelForm :
          /\ g.at \in {"closed", "open", "save", "relate"}
          /\ g.at = "closed" <=> g = NoForm
          /\ g # NoForm => /\ g.of \in Entries \union {NewEntry} /\ g.list \in SUBSET Entries
                           /\ g.since \in SUBSET (Entries \X Entries)
          /\ g.at = "open" => g = [at |-> "open", of |-> g.of, list |-> g.list, since |-> g.since]
          /\ g.at \in {"save", "relate"} =>
                /\ g.took \in {"nothing", "some"}
                /\ g = [at |-> g.at, of |-> g.of, list |-> g.list, took |-> g.took, since |-> g.since]
<1>1. NoForm.at = "closed"
  BY DEF NoForm
<1>2. ASSUME NEW g \in RelForm
      PROVE  /\ g.at \in {"closed", "open", "save", "relate"}
             /\ g.at = "closed" <=> g = NoForm
             /\ g # NoForm => /\ g.of \in Entries \union {NewEntry} /\ g.list \in SUBSET Entries
                              /\ g.since \in SUBSET (Entries \X Entries)
             /\ g.at = "open" => g = [at |-> "open", of |-> g.of, list |-> g.list, since |-> g.since]
             /\ g.at \in {"save", "relate"} =>
                   /\ g.took \in {"nothing", "some"}
                   /\ g = [at |-> g.at, of |-> g.of, list |-> g.list, took |-> g.took, since |-> g.since]
  <2>1. CASE g = NoForm
    BY <1>1, <2>1
  <2>2. CASE g \in [at : {"open"}, of : Entries \union {NewEntry}, list : SUBSET Entries,
                    since : SUBSET (Entries \X Entries)]
    BY <1>1, <2>2
  <2>3. CASE g \in [at : {"save", "relate"}, of : Entries \union {NewEntry}, list : SUBSET Entries,
                    took : {"nothing", "some"}, since : SUBSET (Entries \X Entries)]
    BY <1>1, <2>3
  <2> QED
    BY <2>1, <2>2, <2>3 DEF RelForm
<1>3. /\ NoForm \in RelForm
      /\ \A e \in Entries \union {NewEntry}, L \in SUBSET Entries, S \in SUBSET (Entries \X Entries) :
            /\ [at |-> "open", of |-> e, list |-> L, since |-> S] \in RelForm
            /\ \A k \in {"save", "relate"}, t \in {"nothing", "some"} :
                  [at |-> k, of |-> e, list |-> L, took |-> t, since |-> S] \in RelForm
  BY DEF RelForm
<1> QED
  BY <1>1, <1>2, <1>3

LEMMA FormTurns ==
    ASSUME RelTypeOK, NEW w \in Editors, NEW g \in RelForm, Turns(w, g)
    PROVE  /\ form' \in [Editors -> RelForm]
           /\ form'[w] = g /\ \A v \in Editors \ {w} : form'[v] = form[v]
  BY DEF Turns, RelTypeOK

\* What a form knows it knows when rows and entries go; and an entry that is new
\* has no rows.
LEMMA FormsStay ==
    ASSUME RelInv,
           \A e \in Entries : Born(e) => Born(e)' /\ (Exists(e)' => Exists(e)),
           rows' \subseteq rows
    PROVE  /\ RowsBorn'
           /\ \A g \in RelForm : FormBorn(g) => FormBorn(g)'
           /\ \A g \in RelForm : FormBorn(g) /\ FormKnows(g) => FormKnows(g)'
<1>1. RowsBorn'
  BY DEF RelInv, RelTypeOK, RowsBorn
<1>2. \A g \in RelForm : FormBorn(g) => FormBorn(g)'
  BY FormFacts DEF FormBorn
<1>3. ASSUME NEW g \in RelForm, FormBorn(g), FormKnows(g)
      PROVE  FormKnows(g)'
  <2> SUFFICES ASSUME g # NoForm, g.of \in Entries, g.at = "open" \/ g.took = "nothing",
                      NEW f \in Entries \ {g.of}, Exists(g.of)', Exists(f)', <<g.of, f>> \in rows'
               PROVE  f \in g.list \/ <<g.of, f>> \in g.since
    BY DEF FormKnows
  <2>1. <<g.of, f>> \in rows /\ Born(g.of) /\ Born(f)
    BY DEF RelInv, RowsBorn
  <2>2. Exists(g.of) /\ Exists(f)
    BY <2>1
  <2> QED
    BY <1>3, <2>1, <2>2 DEF FormKnows
<1> QED
  BY <1>1, <1>2, <1>3

LEMMA InitRelInv == RelInit => RelInv
  BY FormFacts DEF RelInit, RelInv, RelTypeOK, RowsBorn, FormBorn, FormKnows

\* One form turns into another and nothing else changes.
LEMMA TurnInv ==
    ASSUME RelInv, NEW w \in Editors, NEW g \in RelForm, Turns(w, g), UNCHANGED <<life, rows>>,
           FormBorn(g), FormKnows(g)
    PROVE  RelInv'
<1>1. RelTypeOK'
  BY FormTurns DEF RelInv, RelTypeOK
<1>2. /\ RowsBorn'
      /\ \A h \in RelForm : FormBorn(h) => FormBorn(h)'
      /\ \A h \in RelForm : FormBorn(h) /\ FormKnows(h) => FormKnows(h)'
  BY FormsStay DEF Born, Exists
<1>3. ASSUME NEW v \in Editors
      PROVE  FormBorn(form[v])' /\ FormKnows(form[v])'
  <2>1. PICK h \in RelForm : h = form'[v] /\ FormBorn(h) /\ FormKnows(h)
    BY FormTurns DEF RelInv, RelTypeOK
  <2>2. FormBorn(h)' /\ FormKnows(h)'
    BY <1>2, <2>1
  <2> QED
    BY <2>1, <2>2 DEF FormBorn, FormKnows, Born, Exists
<1> QED
  BY <1>1, <1>2, <1>3 DEF RelInv

LEMMA SaveRowInv ==
    ASSUME RelInv, NEW w \in Editors, SaveRow(w)
    PROVE  RelInv'
<1>1. PICK h \in RelForm : /\ h = form[w] /\ h.at = "save" /\ h # NoForm
                           /\ h.of \in Entries \union {NewEntry} /\ h.list \in SUBSET Entries
                           /\ h.since \in SUBSET (Entries \X Entries) /\ h.took \in {"nothing", "some"}
                           /\ h = [at |-> "save", of |-> h.of, list |-> h.list, took |-> h.took, since |-> h.since]
                           /\ FormBorn(h) /\ FormKnows(h)
  BY FormFacts DEF SaveRow, RelInv, RelTypeOK
<1>2. PICK e \in Entries :
          IF h.of = NewEntry
          THEN /\ life[e] = "unborn"
               /\ life' = [life EXCEPT ![e] = "stored"]
               /\ Turns(w, [h EXCEPT !.at = "relate", !.of = e])
          ELSE /\ e = h.of
               /\ Turns(w, IF Exists(e) THEN [h EXCEPT !.at = "relate"] ELSE NoForm)
               /\ UNCHANGED life
  BY <1>1 DEF SaveRow
<1>3. UNCHANGED rows
  BY DEF SaveRow
<1>4. CASE h.of = NewEntry
  <2>1. life[e] = "unborn" /\ life' = [life EXCEPT ![e] = "stored"]
    BY <1>2, <1>4
  <2>2. PICK g \in RelForm : g = [at |-> "relate", of |-> e, list |-> h.list, took |-> h.took, since |-> h.since]
    BY <1>1, FormFacts
  <2>3. [h EXCEPT !.at = "relate", !.of = e] = g
    <3>1. [h EXCEPT !.at = "relate"]
            = [at |-> "relate", of |-> h.of, list |-> h.list, took |-> h.took, since |-> h.since]
      BY <1>1
    <3> DEFINE k == [at |-> "relate", of |-> h.of, list |-> h.list, took |-> h.took, since |-> h.since]
    <3>2. [h EXCEPT !.at = "relate", !.of = e] = [[h EXCEPT !.at = "relate"] EXCEPT !.of = e]
      OBVIOUS
    <3>3. [k EXCEPT !.of = e] = [at |-> "relate", of |-> e, list |-> h.list, took |-> h.took, since |-> h.since]
      OBVIOUS
    <3> HIDE DEF k
    <3> QED
      BY <2>2, <3>1, <3>2, <3>3 DEF k
  <2>4. Turns(w, g) /\ g.of = e /\ g.list = h.list /\ g.at = "relate"
    BY <1>2, <1>4, <2>2, <2>3
  <2>5. /\ life' \in [Entries -> {"unborn", "stored", "gone"}]
        /\ \A x \in Entries : Born(x) => Born(x)' /\ (Exists(x)' => Exists(x))
        /\ Born(e)'
    BY <2>1 DEF RelInv, RelTypeOK, Born, Exists
  <2>6. RelTypeOK'
    BY <1>3, <2>4, <2>5, FormTurns DEF RelInv, RelTypeOK
  <2>7. /\ RowsBorn'
        /\ \A x \in RelForm : FormBorn(x) => FormBorn(x)'
        /\ \A x \in RelForm : FormBorn(x) /\ FormKnows(x) => FormKnows(x)'
    BY <1>3, <2>5, FormsStay
  <2>8. FormBorn(g)'
    BY <1>1, <2>4, <2>5 DEF FormBorn
  <2>9. FormKnows(g)'
    <3>1. \A f \in Entries : <<e, f>> \notin rows'
      BY <1>3, <2>1 DEF RelInv, RowsBorn, Born
    <3> QED
      BY <2>4, <3>1 DEF FormKnows
  <2>10. ASSUME NEW v \in Editors
         PROVE  FormBorn(form[v])' /\ FormKnows(form[v])'
    <3>1. PICK x \in RelForm : x = form'[v] /\ FormBorn(x)' /\ FormKnows(x)'
      <4>1. CASE v = w
        BY <2>4, <2>8, <2>9, <4>1, FormTurns DEF RelInv
      <4>2. CASE v # w
        <5>1. form'[v] = form[v] /\ form[v] \in RelForm /\ FormBorn(form[v]) /\ FormKnows(form[v])
          BY <2>4, <4>2, FormTurns DEF RelInv, RelTypeOK
        <5>2. PICK x \in RelForm : x = form[v]
          BY <5>1
        <5>3. FormBorn(x)' /\ FormKnows(x)'
          BY <2>7, <5>1, <5>2
        <5> QED
          BY <5>1, <5>2, <5>3
      <4> QED
        BY <4>1, <4>2
    <3> QED
      BY <3>1 DEF FormBorn, FormKnows, Born, Exists
  <2> QED
    BY <2>6, <2>7, <2>10 DEF RelInv
<1>5. CASE h.of # NewEntry
  <2>1. h.of \in Entries /\ Turns(w, IF Exists(h.of) THEN [h EXCEPT !.at = "relate"] ELSE NoForm)
        /\ UNCHANGED <<life, rows>>
    BY <1>1, <1>2, <1>3, <1>5
  <2>2. CASE Exists(h.of)
    <3>1. PICK g \in RelForm : g = [at |-> "relate", of |-> h.of, list |-> h.list, took |-> h.took, since |-> h.since]
      BY <1>1, FormFacts
    <3>2. [h EXCEPT !.at = "relate"] = g
      BY <1>1, <3>1
    <3>3. Turns(w, g)
      BY <2>1, <2>2, <3>2
    <3>4. g.of = h.of /\ g.list = h.list /\ g.at = "relate" /\ g.took = h.took /\ g.since = h.since
      BY <3>1
    <3>5. FormBorn(g) /\ FormKnows(g)
      BY <1>1, <2>1, <3>4 DEF FormBorn, FormKnows
    <3> QED
      BY <2>1, <3>3, <3>5, TurnInv
  <2>3. CASE ~Exists(h.of)
    BY <2>1, <2>3, TurnInv, FormFacts DEF FormBorn, FormKnows
  <2> QED
    BY <2>2, <2>3
<1> QED
  BY <1>4, <1>5

LEMMA RelateInv ==
    ASSUME RelInv, NEW w \in Editors, Relate(w)
    PROVE  RelInv'
<1>1. PICK h \in RelForm : /\ h = form[w] /\ h.at = "relate" /\ h # NoForm
                           /\ h.of \in Entries \union {NewEntry} /\ h.list \in SUBSET Entries
                           /\ FormBorn(h)
  BY FormFacts DEF Relate, RelInv, RelTypeOK
<1>2. h.of \in Entries /\ Born(h.of) /\ \A f \in h.list : Born(f)
  BY <1>1 DEF FormBorn
<1>3. PICK e \in Entries, W \in SUBSET (Entries \X Entries) : e = h.of /\ W = {e} \X h.list
  BY <1>1, <1>2
<1>4. /\ rows' = {r \in rows : r[1] # e} \union W
      /\ form' = [v \in Editors |->
              CASE v = w -> NoForm
                [] v # w /\ form[v] # NoForm /\ form[v].of = e ->
                      [form[v] EXCEPT !.since = @ \union W]
                [] OTHER -> form[v]]
      /\ UNCHANGED life
  BY <1>1, <1>3 DEF Relate
<1>5. ASSUME NEW v \in Editors
      PROVE  form'[v] \in RelForm /\ FormBorn(form[v])' /\ FormKnows(form[v])'
  <2>1. CASE v = w
    <3>1. form'[v] = NoForm
      BY <1>4, <2>1
    <3> QED
      BY <3>1, FormFacts DEF FormBorn, FormKnows
  <2>2. CASE v # w /\ form[v] # NoForm /\ form[v].of = e
    <3>1. PICK x \in RelForm : /\ x = form[v] /\ x # NoForm /\ x.of = e /\ FormBorn(x) /\ FormKnows(x)
                               /\ x.list \in SUBSET Entries /\ x.since \in SUBSET (Entries \X Entries)
      BY <2>2, FormFacts DEF RelInv, RelTypeOK
    <3>2. PICK y \in RelForm : /\ y = [x EXCEPT !.since = @ \union W]
                               /\ y # NoForm /\ y.at = x.at /\ y.of = x.of /\ y.list = x.list
                               /\ y.since = x.since \union W
                               /\ y.at \in {"save", "relate"} => y.took = x.took
      <4>1. x.since \union W \in SUBSET (Entries \X Entries)
        BY <3>1
      <4>2. CASE x.at = "open"
        <5>1. [x EXCEPT !.since = @ \union W] = [at |-> "open", of |-> x.of, list |-> x.list, since |-> x.since \union W]
          <6>1. x = [at |-> "open", of |-> x.of, list |-> x.list, since |-> x.since]
            BY <4>2, FormFacts
          <6> QED
            BY <6>1
        <5>2. [at |-> "open", of |-> x.of, list |-> x.list, since |-> x.since \union W] \in RelForm
          BY <3>1, <4>1, FormFacts
        <5> QED
          BY <4>2, <5>1, <5>2, FormFacts
      <4>3. CASE x.at \in {"save", "relate"}
        <5>1. [x EXCEPT !.since = @ \union W]
                = [at |-> x.at, of |-> x.of, list |-> x.list, took |-> x.took, since |-> x.since \union W]
          <6>1. x = [at |-> x.at, of |-> x.of, list |-> x.list, took |-> x.took, since |-> x.since]
            BY <4>3, FormFacts
          <6> QED
            BY <6>1
        <5>2. [at |-> x.at, of |-> x.of, list |-> x.list, took |-> x.took, since |-> x.since \union W] \in RelForm
          BY <3>1, <4>1, <4>3, FormFacts
        <5> QED
          BY <4>3, <5>1, <5>2, FormFacts
      <4> QED
        BY <3>1, <4>2, <4>3, FormFacts
    <3>3. form'[v] = y
      BY <1>4, <2>2, <3>1, <3>2
    <3>4. FormBorn(y)'
      BY <1>4, <3>1, <3>2 DEF FormBorn, Born
    <3>5. FormKnows(y)'
      <4> SUFFICES ASSUME y.at = "open" \/ y.took = "nothing", NEW f \in Entries \ {e},
                          Exists(e), Exists(f), <<e, f>> \in rows'
                   PROVE  f \in y.list \/ <<e, f>> \in y.since
        BY <1>4, <3>1, <3>2 DEF FormKnows, Exists
      <4>1. <<e, f>> \in W
        BY <1>4
      <4> QED
        BY <3>2, <4>1
    <3> QED
      BY <3>3, <3>4, <3>5 DEF FormBorn, FormKnows, Born, Exists
  <2>3. CASE v # w /\ ~(form[v] # NoForm /\ form[v].of = e)
    <3>1. form'[v] = form[v]
      BY <1>4, <2>3
    <3>2. PICK x \in RelForm : /\ x = form[v] /\ (x # NoForm => x.of # e) /\ FormBorn(x) /\ FormKnows(x)
      BY <2>3 DEF RelInv, RelTypeOK
    <3>3. FormBorn(x)'
      BY <1>4, <3>2 DEF FormBorn, Born
    <3>4. x # NoForm => \A f : <<x.of, f>> \in rows' => <<x.of, f>> \in rows
      BY <1>3, <1>4, <3>2
    <3>5. FormKnows(x)'
      BY <1>4, <3>2, <3>4 DEF FormKnows, Exists
    <3> QED
      BY <3>1, <3>2, <3>3, <3>5 DEF FormBorn, FormKnows, Born, Exists
  <2> QED
    BY <2>1, <2>2, <2>3
<1>6. RelTypeOK'
  BY <1>4, <1>5 DEF RelInv, RelTypeOK
<1>7. RowsBorn'
  BY <1>2, <1>3, <1>4 DEF RelInv, RowsBorn, Born
<1> QED
  BY <1>5, <1>6, <1>7 DEF RelInv

LEMMA NextRelInv == RelInv /\ [RelNext]_relVars => RelInv'
<1> SUFFICES ASSUME RelInv, [RelNext]_relVars PROVE RelInv'
  OBVIOUS
<1>0. CASE UNCHANGED relVars
  BY <1>0 DEF relVars, RelInv, RelTypeOK, RowsBorn, FormBorn, FormKnows, Born, Exists
<1>1. ASSUME NEW w \in Editors, NEW e \in Entries \union {NewEntry}, OpenForm(w, e)
      PROVE  RelInv'
  <2> DEFINE L == IF e = NewEntry THEN {} ELSE RelatedForEditor(e)
  <2>1. L \in SUBSET Entries
    BY DEF RelatedForEditor
  <2>2. PICK g \in RelForm : g = [at |-> "open", of |-> e, list |-> L, since |-> {}]
    BY <2>1, FormFacts
  <2>3. [at |-> "open", of |-> e, since |-> {}, list |-> L] = [at |-> "open", of |-> e, list |-> L, since |-> {}]
    OBVIOUS
  <2>4. Turns(w, g) /\ UNCHANGED <<life, rows>> /\ (e # NewEntry => Exists(e))
    BY <1>1, <2>2, <2>3 DEF OpenForm
  <2>5. g.at = "open" /\ g.of = e /\ g.list = L
    BY <2>2
  <2>6. FormBorn(g)
    BY <2>4, <2>5, RelatedAssumption DEF FormBorn, Born, Exists, NewEntry
  <2>7. FormKnows(g)
    <3> SUFFICES ASSUME g.of \in Entries, NEW f \in Entries \ {g.of}, Exists(f), <<g.of, f>> \in rows
                 PROVE  f \in g.list
      BY DEF FormKnows
    <3>1. e \in Entries /\ e # NewEntry /\ g.list = RelatedForEditor(e)
      BY <2>5, RelatedAssumption DEF NewEntry
    <3> QED
      BY <2>5, <3>1 DEF RelatedForEditor, Joined
  <2> QED
    BY <2>4, <2>6, <2>7, TurnInv
<1>2. ASSUME NEW w \in Editors, NEW ids \in SUBSET Entries, PostForm(w, ids)
      PROVE  RelInv'
  <2>1. PICK h \in RelForm : /\ h = form[w] /\ h.at = "open" /\ h # NoForm
                             /\ h.of \in Entries \union {NewEntry} /\ h.list \in SUBSET Entries
                             /\ h.since \in SUBSET (Entries \X Entries)
                             /\ FormBorn(h) /\ FormKnows(h)
    BY <1>2, FormFacts DEF PostForm, RelInv, RelTypeOK
  <2> DEFINE L == {f \in ids \ {h.of} : Exists(f)}
             T == IF h.list \subseteq ids THEN "nothing" ELSE "some"
  <2>2. L \in SUBSET Entries /\ T \in {"nothing", "some"}
    OBVIOUS
  <2>3. [at |-> "save", of |-> h.of, list |-> L, took |-> T, since |-> h.since] \in RelForm
    BY <2>1, <2>2, FormFacts
  <2>4. PICK g \in RelForm : g = [at |-> "save", of |-> h.of, list |-> L, took |-> T, since |-> h.since]
    BY <2>3
  <2>5. [at |-> "save", of |-> h.of, since |-> h.since, list |-> L, took |-> T]
          = [at |-> "save", of |-> h.of, list |-> L, took |-> T, since |-> h.since]
    OBVIOUS
  <2>6. Turns(w, g) /\ UNCHANGED <<life, rows>>
    BY <1>2, <2>1, <2>4, <2>5 DEF PostForm
  <2>7. g.at = "save" /\ g.of = h.of /\ g.list = L /\ g.took = T /\ g.since = h.since
    BY <2>4
  <2>8. FormBorn(g)
    BY <2>1, <2>7 DEF FormBorn, Born, Exists
  <2>9. FormKnows(g)
    <3> SUFFICES ASSUME g.of \in Entries, g.took = "nothing", NEW f \in Entries \ {g.of},
                        Exists(g.of), Exists(f), <<g.of, f>> \in rows
                 PROVE  f \in g.list \/ <<g.of, f>> \in g.since
      BY <2>7 DEF FormKnows
    <3>1. f \in h.list \/ <<g.of, f>> \in h.since
      BY <2>1, <2>7 DEF FormKnows
    <3>2. h.list \subseteq ids
      BY <2>7
    <3> QED
      BY <2>7, <3>1, <3>2
  <2> QED
    BY <2>6, <2>8, <2>9, TurnInv
<1>3. ASSUME NEW w \in Editors, SaveRow(w)
      PROVE  RelInv'
  BY <1>3, SaveRowInv
<1>4. ASSUME NEW w \in Editors, Relate(w)
      PROVE  RelInv'
  BY <1>4, RelateInv
<1>5. ASSUME NEW w \in Editors, CloseForm(w)
      PROVE  RelInv'
  BY <1>5, TurnInv, FormFacts DEF CloseForm, FormBorn, FormKnows
<1>6. ASSUME NEW gone \in SUBSET Entries \ {{}}, DeleteEntries(gone)
      PROVE  RelInv'
  <2>1. /\ life' = [e \in Entries |-> IF e \in gone /\ Exists(e) THEN "gone" ELSE life[e]]
        /\ rows' \subseteq rows /\ UNCHANGED form
    BY <1>6 DEF DeleteEntries
  <2>2. \A e \in Entries : (Born(e) => Born(e)') /\ (Exists(e)' => Exists(e))
    BY <2>1 DEF Born, Exists
  <2>3. RelTypeOK'
    BY <2>1 DEF RelInv, RelTypeOK
  <2>4. /\ RowsBorn'
        /\ \A h \in RelForm : FormBorn(h) => FormBorn(h)'
        /\ \A h \in RelForm : FormBorn(h) /\ FormKnows(h) => FormKnows(h)'
    BY <2>1, <2>2, FormsStay
  <2>5. ASSUME NEW v \in Editors
        PROVE  FormBorn(form[v])' /\ FormKnows(form[v])'
    <3>1. PICK h \in RelForm : h = form[v] /\ FormBorn(h) /\ FormKnows(h)
      BY DEF RelInv, RelTypeOK
    <3>2. FormBorn(h)' /\ FormKnows(h)' /\ h = form'[v]
      BY <2>1, <2>4, <3>1
    <3> QED
      BY <3>2 DEF FormBorn, FormKnows, Born, Exists
  <2> QED
    BY <2>3, <2>4, <2>5 DEF RelInv
<1> QED
  BY <1>0, <1>1, <1>2, <1>3, <1>4, <1>5, <1>6 DEF RelNext

\* The entries, the relations and the forms are well formed (store/related.go,
\* admin/entries.go).
THEOREM RelatedTypeCorrect == RelSpec => []RelTypeOK
<1>1. RelInv => RelTypeOK
  BY DEF RelInv
<1> QED
  BY <1>1, InitRelInv, NextRelInv, PTL DEF RelSpec

\* A save whose author took nothing off the list takes no relation away from an
\* entry, however many editors write: only one that another save of the same
\* entry wrote after the form was opened goes (SetRelatedEntries,
\* RelatedEntriesForEditor).
THEOREM RelationsStay == RelSpec => RelationsKept
<1> DEFINE StillJoined ==
      \A w \in Editors :
         /\ form[w].at = "relate" /\ form[w].took = "nothing"
         /\ rows' # rows /\ form'[w] = NoForm
         => \A e, f \in Entries :
               Exists(e) /\ Exists(f) /\ e # f /\ Joined(e, f)
               => Joined(e, f)' \/ {<<e, f>>, <<f, e>>} \intersect form[w].since # {}
<1>1. RelInv /\ [RelNext]_relVars => [StillJoined]_relVars
  <2> SUFFICES ASSUME RelInv, [RelNext]_relVars, NEW w \in Editors,
                      form[w].at = "relate", form[w].took = "nothing",
                      rows' # rows, form'[w] = NoForm,
                      NEW e \in Entries, NEW f \in Entries,
                      Exists(e), Exists(f), e # f, Joined(e, f)
               PROVE  Joined(e, f)' \/ {<<e, f>>, <<f, e>>} \intersect form[w].since # {}
    OBVIOUS
  <2>1. Relate(w)
    <3>1. form[w] # NoForm /\ form[w] \in RelForm
      BY FormFacts DEF RelInv, RelTypeOK
    <3>2. ASSUME NEW v \in Editors, v # w, Relate(v) PROVE FALSE
      <4>1. form'[w] = form[w] \/ form'[w] = [form[w] EXCEPT !.since = @ \union ({form[v].of} \X form[v].list)]
        BY <3>2 DEF Relate
      <4>2. [form[w] EXCEPT !.since = @ \union ({form[v].of} \X form[v].list)].at = "relate"
        BY <3>1, FormFacts
      <4> QED
        BY <4>1, <4>2, FormFacts
    <3> QED
      BY <3>1, <3>2 DEF RelNext, relVars, OpenForm, PostForm, SaveRow, CloseForm, DeleteEntries
  <2>2. form[w].of \in Entries /\ FormKnows(form[w]) /\ form[w] # NoForm
    BY FormFacts DEF RelInv, RelTypeOK, FormBorn
  <2>3. rows' = {r \in rows : r[1] # form[w].of} \union ({form[w].of} \X form[w].list)
    BY <2>1 DEF Relate
  <2>4. ASSUME NEW x \in Entries, NEW y \in Entries, Exists(x), Exists(y), x # y, <<x, y>> \in rows
        PROVE  <<x, y>> \in rows' \/ <<x, y>> \in form[w].since
    <3>1. CASE x # form[w].of
      BY <2>3, <2>4, <3>1
    <3>2. CASE x = form[w].of
      <4>1. y \in form[w].list \/ <<x, y>> \in form[w].since
        BY <2>2, <2>4, <3>2 DEF FormKnows
      <4> QED
        BY <2>3, <3>2, <4>1
    <3> QED
      BY <3>1, <3>2
  <2> QED
    BY <2>4 DEF Joined
<1>2. RelationsKept <=> [][StillJoined]_relVars
  BY DEF RelationsKept
<1> HIDE DEF StillJoined
<1> QED
  BY <1>1, <1>2, InitRelInv, NextRelInv, PTL DEF RelSpec

-----------------------------------------------------------------------------
(* Uploads. *)

\* While an upload copies, the file under its name is the one it created,
\* unless somebody deleted it.
CopiesOwn ==
    \A u \in Senders :
        sender[u].at = "copy"
        => \/ disk[sender[u].name] = [is |-> "growing", by |-> u]
           \/ sender[u].name \in orphaned

\* Only an upload that is done was told a name.
ToldWhenDone == \A u \in Senders : answered[u] # NoAnswer => sender[u].at = "done"

UplInv == UplTypeOK /\ CopiesOwn /\ ToldWhenDone /\ UploadsKept

-----------------------------------------------------------------------------
\* What a folder holds under a name, and what an upload holds.
LEMMA DiskFacts ==
    /\ \A f \in OneFile : f # NoFile /\ f.by \in Senders /\ f.is \in {"growing", "whole"}
    /\ \A u \in Senders, k \in {"growing", "whole"} :
          /\ [is |-> k, by |-> u] \in OneFile
          /\ [is |-> k, by |-> u].is = k /\ [is |-> k, by |-> u].by = u
    /\ \A u, v \in Senders : [is |-> "growing", by |-> u] # [is |-> "whole", by |-> v]
    /\ \A u, v \in Senders : [is |-> "growing", by |-> u] = [is |-> "growing", by |-> v] => u = v
    /\ \A u \in Senders : [[is |-> "growing", by |-> u] EXCEPT !.is = "whole"] = [is |-> "whole", by |-> u]
<1>1. NoFile.is = "none"
  BY DEF NoFile
<1>2. \A f \in OneFile : f # NoFile /\ f.by \in Senders /\ f.is \in {"growing", "whole"}
  BY <1>1 DEF OneFile
<1>3. \A u \in Senders, k \in {"growing", "whole"} :
          /\ [is |-> k, by |-> u] \in OneFile
          /\ [is |-> k, by |-> u].is = k /\ [is |-> k, by |-> u].by = u
  BY DEF OneFile
<1>4. \A u \in Senders : [[is |-> "growing", by |-> u] EXCEPT !.is = "whole"] = [is |-> "whole", by |-> u]
  OBVIOUS
<1>5. \A u, v \in Senders : [is |-> "growing", by |-> u] # [is |-> "whole", by |-> v]
  BY <1>3
<1>6. \A u, v \in Senders : [is |-> "growing", by |-> u] = [is |-> "growing", by |-> v] => u = v
  BY <1>3
<1> QED
  BY <1>2, <1>3, <1>4, <1>5, <1>6

\* Each step of an upload gives it one of the jobs there are.
LEMMA SenderFacts ==
    ASSUME UplTypeOK, NEW u \in Senders
    PROVE  /\ sender[u].at \in {"look", "create", "try", "copy"} => sender[u].name \in FileNames
           /\ \A h \in {"done", "failed"} : Ends(u, h) =>
                 /\ sender'[u].at = h
                 /\ \A v \in Senders \ {u} : sender'[v] = sender[v]
           /\ \A h \in {"look", "create", "try", "copy"}, n \in Nat : Steps(u, h, n) =>
                 /\ \/ sender'[u].at = "failed"
                    \/ n \in FileNames /\ sender'[u].at = h /\ sender'[u].name = n
                 /\ \A v \in Senders \ {u} : sender'[v] = sender[v]
  BY UploadsAssumption DEF UplTypeOK, Ends, Steps, Sends, FileNames

\* The types that every step keeps.
LEMMA SenderType ==
    ASSUME UplTypeOK, NEW u \in Senders
    PROVE  LET job == [at : {"new", "done", "failed"}]
                      \union [at : {"look", "create", "try", "copy"}, name : FileNames]
           IN /\ \A h \in {"done", "failed"} : Ends(u, h) => sender' \in [Senders -> job]
              /\ \A h \in {"look", "create", "try", "copy"}, n \in Nat :
                    Steps(u, h, n) => sender' \in [Senders -> job]
<1> DEFINE job == [at : {"new", "done", "failed"}]
                  \union [at : {"look", "create", "try", "copy"}, name : FileNames]
<1>1. /\ \A h \in {"done", "failed"} : [at |-> h] \in job
      /\ \A h \in {"look", "create", "try", "copy"}, n \in FileNames : [at |-> h, name |-> n] \in job
  OBVIOUS
<1>2. sender \in [Senders -> job]
  BY DEF UplTypeOK
<1>3. ASSUME NEW h \in {"done", "failed"}, Ends(u, h) PROVE sender' \in [Senders -> job]
  BY <1>1, <1>2, <1>3 DEF Ends, Sends
<1>4. ASSUME NEW h \in {"look", "create", "try", "copy"}, NEW n \in Nat, Steps(u, h, n)
      PROVE  sender' \in [Senders -> job]
  <2>1. CASE n > LastName
    BY <1>1, <1>2, <1>4, <2>1 DEF Steps, Ends, Sends
  <2>2. CASE n \in FileNames
    BY <1>1, <1>2, <1>4, <2>2, UploadsAssumption DEF Steps, Sends, FileNames
  <2> QED
    BY <2>1, <2>2, UploadsAssumption DEF FileNames
<1> QED
  BY <1>3, <1>4

-----------------------------------------------------------------------------
LEMMA InitUplInv == UplInit => UplInv
<1> SUFFICES ASSUME UplInit PROVE UplInv
  OBVIOUS
<1>1. UplTypeOK
  BY UploadsAssumption DEF UplInit, UplTypeOK, NoAnswer, FileNames
<1>2. CopiesOwn /\ ToldWhenDone /\ UploadsKept
  BY DEF UplInit, CopiesOwn, ToldWhenDone, UploadsKept
<1> QED
  BY <1>1, <1>2 DEF UplInv

\* One step per action, and under it the parts it can disturb.
LEMMA NextUplInv == UplInv /\ [UplNext]_uplVars => UplInv'
<1> SUFFICES ASSUME UplInv, [UplNext]_uplVars PROVE UplInv'
  OBVIOUS
<1> USE DEF UplInv
<1>0. CASE UNCHANGED uplVars
  BY <1>0 DEF uplVars, UplTypeOK, CopiesOwn, ToldWhenDone, UploadsKept
<1>1. ASSUME NEW u \in Senders, Upload(u) \/ Look(u)
      PROVE  UplInv'
  <2>1. PICK h \in {"look", "create", "try"}, n \in Nat : Steps(u, h, n)
    BY <1>1, SenderFacts, UploadsAssumption DEF Upload, Look, FileNames
  <2>2. sender[u].at \in {"new", "look"} /\ UNCHANGED <<disk, answered, struck, orphaned>>
    BY <1>1 DEF Upload, Look
  <2>3. sender'[u].at \in {"failed", "look", "create", "try"}
        /\ \A v \in Senders \ {u} : sender'[v] = sender[v]
    <3>1. h \in {"look", "create", "try", "copy"}
      OBVIOUS
    <3> QED
      BY <2>1, <3>1, SenderFacts
  <2>4. UplTypeOK'
    BY <2>1, <2>2, SenderType DEF UplTypeOK
  <2>5. CopiesOwn' /\ ToldWhenDone' /\ UploadsKept'
    BY <2>2, <2>3 DEF CopiesOwn, ToldWhenDone, UploadsKept
  <2> QED
    BY <2>4, <2>5
<1>2. ASSUME NEW u \in Senders, CreateFile(u)
      PROVE  UplInv'
  <2> DEFINE n == sender[u].name
  <2>1. sender[u].at \in {"create", "try"} /\ n \in FileNames /\ n \in Nat /\ n + 1 \in Nat
        /\ UNCHANGED <<answered, struck, orphaned>>
    BY <1>2, SenderFacts, UploadsAssumption DEF CreateFile, FileNames
  <2>2. answered[u] = NoAnswer
    BY <2>1 DEF ToldWhenDone
  <2>3. CASE disk[n] = NoFile /\ Steps(u, "copy", n)
             /\ disk' = [disk EXCEPT ![n] = [is |-> "growing", by |-> u]]
    <3>1. UplTypeOK'
      BY <2>1, <2>3, SenderType, DiskFacts DEF UplTypeOK
    <3>2. /\ sender'[u] = [at |-> "copy", name |-> n]
          /\ \A v \in Senders \ {u} : sender'[v] = sender[v]
      BY <2>1, <2>3, SenderFacts, UploadsAssumption DEF Steps, Sends, UplTypeOK, FileNames
    <3>3. /\ disk'[n] = [is |-> "growing", by |-> u]
          /\ \A m \in FileNames \ {n} : disk'[m] = disk[m]
      BY <2>1, <2>3 DEF UplTypeOK
    <3>4. \A v \in Senders, k \in {"growing", "whole"} : disk[n] # [is |-> k, by |-> v]
      BY <2>3, DiskFacts
    <3>5. CopiesOwn'
      <4>1. ASSUME NEW v \in Senders \ {u}, sender'[v].at = "copy"
            PROVE  \/ disk'[sender'[v].name] = [is |-> "growing", by |-> v]
                   \/ sender'[v].name \in orphaned'
        <5>1. sender'[v] = sender[v] /\ sender[v].name \in FileNames
          BY <3>2, <4>1, SenderFacts
        <5> QED
          BY <2>1, <3>3, <3>4, <4>1, <5>1 DEF CopiesOwn
      <4>2. disk'[sender'[u].name] = [is |-> "growing", by |-> u]
        BY <3>2, <3>3
      <4> QED
        BY <4>1, <4>2 DEF CopiesOwn
    <3>6. ToldWhenDone'
      BY <2>1, <2>2, <3>2 DEF ToldWhenDone
    <3>7. UploadsKept'
      BY <2>1, <3>3, <3>4 DEF UploadsKept, UplTypeOK, NoAnswer, FileNames
    <3> QED
      BY <3>1, <3>5, <3>6, <3>7
  <2>4. CASE disk' = disk /\ (Ends(u, "failed") \/ Steps(u, "try", n + 1))
    <3>1. UplTypeOK'
      BY <2>1, <2>4, SenderType DEF UplTypeOK
    <3>2. sender'[u].at \in {"failed", "try"} /\ \A v \in Senders \ {u} : sender'[v] = sender[v]
      BY <2>1, <2>4, SenderFacts
    <3>3. CopiesOwn' /\ ToldWhenDone' /\ UploadsKept'
      BY <2>1, <2>2, <2>4, <3>2 DEF CopiesOwn, ToldWhenDone, UploadsKept
    <3> QED
      BY <3>1, <3>3
  <2> QED
    BY <1>2, <2>3, <2>4 DEF CreateFile, Creates, Taken
<1>3. ASSUME NEW u \in Senders, FinishCopy(u)
      PROVE  UplInv'
  <2> DEFINE n == sender[u].name
  <2>1. sender[u].at = "copy" /\ n \in FileNames /\ Ends(u, "done")
        /\ answered' = [answered EXCEPT ![u] = n]
        /\ UNCHANGED <<struck, orphaned>>
    BY <1>3, SenderFacts DEF FinishCopy
  <2>2. sender'[u].at = "done" /\ \A v \in Senders \ {u} : sender'[v] = sender[v]
    BY <2>1, SenderFacts
  <2>3. CASE disk[n] = [is |-> "growing", by |-> u]
             /\ disk' = [disk EXCEPT ![n] = [is |-> "whole", by |-> u]]
    <3>1. UplTypeOK'
      BY <2>1, <2>3, SenderType, DiskFacts DEF UplTypeOK
    <3>2. /\ disk'[n] = [is |-> "whole", by |-> u]
          /\ \A m \in FileNames \ {n} : disk'[m] = disk[m]
      BY <2>1, <2>3 DEF UplTypeOK
    <3>3. \A v \in Senders \ {u} : disk[n] # [is |-> "growing", by |-> v]
      BY <2>3, DiskFacts
    <3>4. \A v \in Senders : disk[n] # [is |-> "whole", by |-> v]
      BY <2>3, DiskFacts
    <3>5. CopiesOwn'
      BY <2>1, <2>2, <3>2, <3>3, SenderFacts DEF CopiesOwn
    <3>6. ToldWhenDone'
      BY <2>1, <2>2 DEF ToldWhenDone, UplTypeOK
    <3>7. UploadsKept'
      BY <2>1, <3>2, <3>4 DEF UploadsKept, UplTypeOK, NoAnswer, FileNames
    <3> QED
      BY <3>1, <3>5, <3>6, <3>7
  <2>4. CASE disk[n] # [is |-> "growing", by |-> u] /\ disk' = disk
    <3>1. UplTypeOK'
      BY <2>1, <2>4, SenderType, DiskFacts DEF UplTypeOK
    <3>2. n \in orphaned
      BY <2>1, <2>4 DEF CopiesOwn
    <3>3. CopiesOwn' /\ ToldWhenDone'
      BY <2>1, <2>2, <2>4 DEF CopiesOwn, ToldWhenDone, UplTypeOK
    <3>4. UploadsKept'
      BY <2>1, <2>4, <3>2 DEF UploadsKept, UplTypeOK
    <3> QED
      BY <3>1, <3>3, <3>4
  <2>5. disk[n] = [is |-> "growing", by |-> u] =>
            [disk EXCEPT ![n].is = "whole"] = [disk EXCEPT ![n] = [is |-> "whole", by |-> u]]
    BY DiskFacts
  <2>6. disk' = IF disk[n] = [is |-> "growing", by |-> u] THEN [disk EXCEPT ![n].is = "whole"] ELSE disk
    BY <1>3 DEF FinishCopy
  <2> QED
    BY <2>3, <2>4, <2>5, <2>6
<1>4. ASSUME NEW u \in Senders, BreakOff(u)
      PROVE  UplInv'
  <2> DEFINE n == sender[u].name
  <2>1. sender[u].at = "copy" /\ n \in FileNames /\ Ends(u, "failed")
        /\ disk' = [disk EXCEPT ![n] = NoFile]
        /\ UNCHANGED <<answered, struck, orphaned>>
    BY <1>4, SenderFacts DEF BreakOff
  <2>2. sender'[u].at = "failed" /\ \A v \in Senders \ {u} : sender'[v] = sender[v]
    BY <2>1, SenderFacts
  <2>3. \A m \in FileNames \ {n} : disk'[m] = disk[m]
    BY <2>1 DEF UplTypeOK
  <2>4. n \in orphaned \/ \A v \in Senders \ {u} : disk[n] # [is |-> "growing", by |-> v]
    <3>1. n \in orphaned \/ disk[n] = [is |-> "growing", by |-> u]
      BY <2>1 DEF CopiesOwn
    <3> QED
      BY <3>1, DiskFacts
  <2>5. n \in orphaned \/ \A v \in Senders : disk[n] # [is |-> "whole", by |-> v]
    <3>1. n \in orphaned \/ disk[n] = [is |-> "growing", by |-> u]
      BY <2>1 DEF CopiesOwn
    <3> QED
      BY <3>1, DiskFacts
  <2>6. UplTypeOK'
    BY <2>1, SenderType DEF UplTypeOK
  <2>7. CopiesOwn'
    BY <2>1, <2>2, <2>3, <2>4, SenderFacts DEF CopiesOwn
  <2>8. ToldWhenDone'
    BY <2>1, <2>2 DEF ToldWhenDone
  <2>9. UploadsKept'
    BY <2>1, <2>3, <2>5 DEF UploadsKept, UplTypeOK, NoAnswer, FileNames
  <2> QED
    BY <2>6, <2>7, <2>8, <2>9
<1>5. ASSUME NEW u \in Senders, LeavePart(u)
      PROVE  UplInv'
  <2>1. sender[u].at = "copy" /\ Ends(u, "failed") /\ UNCHANGED <<disk, answered, struck, orphaned>>
    BY <1>5 DEF LeavePart
  <2>2. sender'[u].at = "failed" /\ \A v \in Senders \ {u} : sender'[v] = sender[v]
    BY <2>1, SenderFacts
  <2>3. UplTypeOK'
    BY <2>1, SenderType DEF UplTypeOK
  <2>4. CopiesOwn' /\ ToldWhenDone' /\ UploadsKept'
    BY <2>1, <2>2 DEF CopiesOwn, ToldWhenDone, UploadsKept
  <2> QED
    BY <2>3, <2>4
<1>6. ASSUME NEW n \in FileNames, DeleteFile(n)
      PROVE  UplInv'
  <2>1. disk[n] \in OneFile /\ disk' = [disk EXCEPT ![n] = NoFile] /\ UNCHANGED <<sender, answered>>
    BY <1>6 DEF DeleteFile, Taken, UplTypeOK
  <2>2. \A m \in FileNames \ {n} : disk'[m] = disk[m]
    BY <2>1 DEF UplTypeOK
  <2>3. /\ struck \subseteq struck' /\ struck' \subseteq Senders
        /\ orphaned \subseteq orphaned' /\ orphaned' \subseteq FileNames
    BY <1>6, <2>1, DiskFacts DEF DeleteFile, UplTypeOK
  <2>4. disk[n].is = "whole" => disk[n].by \in struck'
    BY <1>6 DEF DeleteFile
  <2>5. disk[n].is = "growing" => n \in orphaned'
    BY <1>6 DEF DeleteFile
  <2>6. UplTypeOK'
    BY <2>1, <2>3 DEF UplTypeOK
  <2>7. CopiesOwn'
    <3> SUFFICES ASSUME NEW v \in Senders, sender[v].at = "copy"
                 PROVE  \/ disk'[sender[v].name] = [is |-> "growing", by |-> v]
                        \/ sender[v].name \in orphaned'
      BY <2>1 DEF CopiesOwn
    <3>1. disk[sender[v].name] = [is |-> "growing", by |-> v] \/ sender[v].name \in orphaned
      BY DEF CopiesOwn
    <3>2. sender[v].name \in FileNames
      BY SenderFacts
    <3>3. [is |-> "growing", by |-> v].is = "growing"
      OBVIOUS
    <3>4. CASE sender[v].name = n
      BY <2>3, <2>5, <3>1, <3>3, <3>4
    <3>5. CASE sender[v].name # n
      BY <2>2, <2>3, <3>1, <3>2, <3>5
    <3> QED
      BY <3>4, <3>5
  <2>8. ToldWhenDone'
    BY <2>1 DEF ToldWhenDone
  <2>9. UploadsKept'
    BY <2>1, <2>2, <2>3, <2>4, DiskFacts DEF UploadsKept, UplTypeOK, NoAnswer, FileNames
  <2> QED
    BY <2>6, <2>7, <2>8, <2>9
<1> QED
  BY <1>0, <1>1, <1>2, <1>3, <1>4, <1>5, <1>6 DEF UplNext

-----------------------------------------------------------------------------
\* The folder and the uploads keep their types.
THEOREM UploadsTypeCorrect == UplSpec => []UplTypeOK
<1>1. UplInv => UplTypeOK
  BY DEF UplInv
<1> QED
  BY <1>1, InitUplInv, NextUplInv, PTL DEF UplSpec

\* A file that an upload was told it has is that upload's, whole, until somebody
\* deletes it, however many uploads of one name meet or break (writeUpload,
\* storeEnclosure).
THEOREM FilesAreKept == UplSpec => []UploadsKept
<1>1. UplInv => UploadsKept
  BY DEF UplInv
<1> QED
  BY <1>1, InitUplInv, NextUplInv, PTL DEF UplSpec

-----------------------------------------------------------------------------
(* Slideshows. *)

\* A slideshow has the captions it should have.
HasItsOwn(s) == show[s].captions = given[s] /\ show[s].file = "whole"

\* What a request is about to make of a slideshow's captions is what they
\* should be.
Restores(h, s) ==
    /\ hand[h].at \in {"read", "truncate", "write"}
    /\ hand[h].dir = s
    /\ IF hand[h].at = "read"
       THEN show[s].file = "whole" /\ show[s].captions \ hand[h].gone = given[s]
       ELSE hand[h].captions = given[s]

\* Requests that come one after the other: at most one is in flight, its
\* slideshow is there, and all but what it is about to restore is as it should be.
InTurn ==
    /\ \A g, h \in Hands : hand[g] # HandFree /\ hand[h] # HandFree => g = h
    /\ \A h \in Hands : hand[h] # HandFree => ShowThere(hand[h].dir)
    /\ \A h \in Hands : hand[h].at \in {"read", "truncate", "write"} => Restores(h, hand[h].dir)
    /\ \A s \in Shows : ShowThere(s) => HasItsOwn(s) \/ \E h \in Hands : Restores(h, s)

\* No captions are due to what is not there, and a file that is being written
\* is somewhere.
Tidy ==
    /\ \A s \in Shows : ~ShowThere(s) => given[s] = {}
    /\ \A h \in Hands : hand[h].at = "write" => ShowThere(hand[h].dir)

SliInv == SliTypeOK /\ Tidy /\ (~met => InTurn)

-----------------------------------------------------------------------------
\* What a request holds.
LEMMA HandFacts ==
    /\ HandFree \in SliJob /\ HandFree.at = "idle"
    /\ \A s, t \in Shows : [at |-> "move", dir |-> s, to |-> t] \in SliJob
    /\ \A s \in Shows, p \in Pics : [at |-> "put", dir |-> s, pic |-> p] \in SliJob
    /\ \A s \in Shows, G \in SUBSET Pics : [at |-> "read", dir |-> s, gone |-> G] \in SliJob
    /\ \A k \in {"truncate", "write"}, s \in Shows, C \in SUBSET Pics :
          [at |-> k, dir |-> s, captions |-> C] \in SliJob
    /\ \A j \in SliJob :
          /\ j.at \in {"idle", "move", "put", "read", "truncate", "write"}
          /\ j.at = "idle" => j = HandFree
          /\ j # HandFree => j.dir \in Shows
          /\ j.at = "move" => j.to \in Shows
          /\ j.at = "put" => j.pic \in Pics
          /\ j.at = "read" => j = [at |-> "read", dir |-> j.dir, gone |-> j.gone] /\ j.gone \in SUBSET Pics
          /\ j.at \in {"truncate", "write"} =>
                j = [at |-> j.at, dir |-> j.dir, captions |-> j.captions] /\ j.captions \in SUBSET Pics
<1>1. HandFree.at = "idle"
  BY DEF HandFree
<1>2. \A j \in SliJob :
          /\ j.at \in {"idle", "move", "put", "read", "truncate", "write"}
          /\ j.at = "idle" => j = HandFree
          /\ j # HandFree => j.dir \in Shows
          /\ j.at = "move" => j.to \in Shows
          /\ j.at = "put" => j.pic \in Pics
          /\ j.at = "read" => j = [at |-> "read", dir |-> j.dir, gone |-> j.gone] /\ j.gone \in SUBSET Pics
          /\ j.at \in {"truncate", "write"} =>
                j = [at |-> j.at, dir |-> j.dir, captions |-> j.captions] /\ j.captions \in SUBSET Pics
  <2> SUFFICES ASSUME NEW j \in SliJob
               PROVE  /\ j.at \in {"idle", "move", "put", "read", "truncate", "write"}
                      /\ j.at = "idle" => j = HandFree
                      /\ j # HandFree => j.dir \in Shows
                      /\ j.at = "move" => j.to \in Shows
                      /\ j.at = "put" => j.pic \in Pics
                      /\ j.at = "read" => j = [at |-> "read", dir |-> j.dir, gone |-> j.gone] /\ j.gone \in SUBSET Pics
                      /\ j.at \in {"truncate", "write"} =>
                            j = [at |-> j.at, dir |-> j.dir, captions |-> j.captions] /\ j.captions \in SUBSET Pics
    OBVIOUS
  <2>1. CASE j = HandFree
    BY <1>1, <2>1
  <2>2. CASE j \in [at : {"move"}, dir : Shows, to : Shows]
    BY <2>2
  <2>3. CASE j \in [at : {"put"}, dir : Shows, pic : Pics]
    BY <2>3
  <2>4. CASE j \in [at : {"read"}, dir : Shows, gone : SUBSET Pics]
    BY <2>4
  <2>5. CASE j \in [at : {"truncate", "write"}, dir : Shows, captions : SUBSET Pics]
    BY <2>5
  <2> QED
    BY <2>1, <2>2, <2>3, <2>4, <2>5 DEF SliJob
<1>3. /\ HandFree \in SliJob
      /\ \A s, t \in Shows : [at |-> "move", dir |-> s, to |-> t] \in SliJob
      /\ \A s \in Shows, p \in Pics : [at |-> "put", dir |-> s, pic |-> p] \in SliJob
      /\ \A s \in Shows, G \in SUBSET Pics : [at |-> "read", dir |-> s, gone |-> G] \in SliJob
      /\ \A k \in {"truncate", "write"}, s \in Shows, C \in SUBSET Pics :
            [at |-> k, dir |-> s, captions |-> C] \in SliJob
  BY DEF SliJob
<1> QED
  BY <1>1, <1>2, <1>3

\* What a directory is.
LEMMA DirFacts ==
    /\ NoShow.is # "there" /\ NoShow \notin Directory
    /\ Empty \in Directory /\ Empty.is = "there" /\ Empty.captions = {} /\ Empty.file = "whole"
    /\ \A d \in Directory :
          /\ d.is = "there" /\ d.pics \in SUBSET Pics /\ d.captions \in SUBSET Pics /\ d.file \in {"whole", "torn"}
          /\ d = [is |-> "there", pics |-> d.pics, captions |-> d.captions, file |-> d.file]
    /\ \A P, C \in SUBSET Pics, b \in {"whole", "torn"} :
          [is |-> "there", pics |-> P, captions |-> C, file |-> b] \in Directory
<1>1. NoShow.is = "none"
  BY DEF NoShow
<1>2. \A d \in Directory :
          /\ d.is = "there" /\ d.pics \in SUBSET Pics /\ d.captions \in SUBSET Pics /\ d.file \in {"whole", "torn"}
          /\ d = [is |-> "there", pics |-> d.pics, captions |-> d.captions, file |-> d.file]
  BY DEF Directory
<1>3. NoShow \notin Directory
  BY <1>1, <1>2
<1>4. \A P, C \in SUBSET Pics, b \in {"whole", "torn"} :
          [is |-> "there", pics |-> P, captions |-> C, file |-> b] \in Directory
  BY DEF Directory
<1> QED
  BY <1>1, <1>2, <1>3, <1>4 DEF Empty

\* What a directory becomes when a field of it is written.
LEMMA DirWrites ==
    ASSUME NEW d \in Directory
    PROVE  /\ \A P \in SUBSET Pics :
                 [d EXCEPT !.pics = P] = [is |-> "there", pics |-> P, captions |-> d.captions, file |-> d.file]
           /\ [d EXCEPT !.file = "torn"] = [is |-> "there", pics |-> d.pics, captions |-> d.captions, file |-> "torn"]
           /\ \A C \in SUBSET Pics : [d EXCEPT !.captions = C, !.file = "whole"] =
                 [is |-> "there", pics |-> d.pics, captions |-> C, file |-> "whole"]
<1>1. \A P \in SUBSET Pics :
          [d EXCEPT !.pics = P] = [is |-> "there", pics |-> P, captions |-> d.captions, file |-> d.file]
  BY DEF Directory
<1>2. [d EXCEPT !.file = "torn"] = [is |-> "there", pics |-> d.pics, captions |-> d.captions, file |-> "torn"]
  BY DEF Directory
<1>3. \A C \in SUBSET Pics : [d EXCEPT !.captions = C] =
          [is |-> "there", pics |-> d.pics, captions |-> C, file |-> d.file]
  BY DEF Directory
<1>4. ASSUME NEW C \in SUBSET Pics
      PROVE  [d EXCEPT !.captions = C, !.file = "whole"] =
                 [is |-> "there", pics |-> d.pics, captions |-> C, file |-> "whole"]
  <2>1. [d EXCEPT !.captions = C, !.file = "whole"] = [[d EXCEPT !.captions = C] EXCEPT !.file = "whole"]
    OBVIOUS
  <2> DEFINE e == [is |-> "there", pics |-> d.pics, captions |-> C, file |-> d.file]
  <2>2. e \in Directory /\ e.pics = d.pics /\ e.captions = C /\ e.is = "there"
    BY DEF Directory
  <2>3. [d EXCEPT !.captions = C] = e
    BY <1>3
  <2> HIDE DEF e
  <2>4. [e EXCEPT !.file = "whole"] = [is |-> "there", pics |-> e.pics, captions |-> e.captions, file |-> "whole"]
    BY <2>2 DEF Directory
  <2> QED
    BY <2>1, <2>2, <2>3, <2>4
<1> QED
  BY <1>1, <1>2, <1>3, <1>4

-----------------------------------------------------------------------------
\* No request in flight, and one.
LEMMA Quiet ==
    ASSUME SliInv, ~met, \A h \in Hands : hand[h] = HandFree
    PROVE  \A s \in Shows : ShowThere(s) => HasItsOwn(s)
  BY HandFacts DEF SliInv, InTurn, Restores

LEMMA OneBusy ==
    ASSUME SliInv, ~met, NEW h \in Hands, hand[h] # HandFree
    PROVE  /\ \A g \in Hands \ {h} : hand[g] = HandFree
           /\ hand[h].dir \in Shows /\ ShowThere(hand[h].dir)
           /\ hand[h].at \in {"read", "truncate", "write"} => Restores(h, hand[h].dir)
           /\ \A s \in Shows : ShowThere(s) => HasItsOwn(s) \/ Restores(h, s)
  BY HandFacts DEF SliInv, SliTypeOK, InTurn, Restores

\* A request begins, in turn.
LEMMA BeginsInTurn ==
    ASSUME SliInv, NEW h \in Hands, NEW s \in Shows, NEW job \in SliJob, Begins(h, s, job),
           job # HandFree, job.dir = s
    PROVE  /\ hand[h] = HandFree /\ ShowThere(s)
           /\ hand' \in [Hands -> SliJob] /\ met' \in BOOLEAN
           /\ hand'[h] = job /\ \A g \in Hands \ {h} : hand'[g] = hand[g]
           /\ ~met' => ~met /\ \A g \in Hands : hand[g] = HandFree
<1>1. hand[h] = HandFree /\ ShowThere(s) /\ Moves(h, job) /\ Meets
  BY DEF Begins
<1>2. /\ hand' \in [Hands -> SliJob]
      /\ hand'[h] = job /\ \A g \in Hands \ {h} : hand'[g] = hand[g]
  BY <1>1 DEF Moves, SliInv, SliTypeOK
<1>3. met' \in BOOLEAN
  BY <1>1 DEF Meets
<1>4. ~met' => ~met /\ \A g \in Hands : hand[g] = HandFree
  BY <1>1 DEF Meets
<1> QED
  BY <1>1, <1>2, <1>3, <1>4

\* A request begins, and that is all that happens.
LEMMA BeginsOnly ==
    ASSUME SliInv, NEW h \in Hands, NEW s \in Shows, NEW job \in SliJob, Begins(h, s, job),
           job.at \in {"move", "put"}, job.dir = s, UNCHANGED <<show, given>>
    PROVE  SliInv'
<1>0. job # HandFree
  BY HandFacts
<1>1. SliTypeOK' /\ Tidy'
  BY <1>0, BeginsInTurn, HandFacts DEF SliInv, SliTypeOK, Tidy, ShowThere
<1>2. ASSUME ~met' PROVE InTurn'
  <2>1. \A t \in Shows : ShowThere(t)' => HasItsOwn(t)'
    BY <1>0, <1>2, BeginsInTurn, Quiet DEF ShowThere, HasItsOwn
  <2>2. ShowThere(s)'
    BY <1>0, BeginsInTurn DEF ShowThere
  <2>3. \A g \in Hands \ {h} : hand'[g] = HandFree
    BY <1>0, <1>2, BeginsInTurn
  <2>4. hand'[h] = job
    BY <1>0, BeginsInTurn
  <2> QED
    BY <2>1, <2>2, <2>3, <2>4, HandFacts DEF InTurn
<1> QED
  BY <1>1, <1>2 DEF SliInv

\* A job is done.
LEMMA HandMoves ==
    ASSUME SliTypeOK, NEW h \in Hands, NEW job \in SliJob, Moves(h, job)
    PROVE  /\ hand' \in [Hands -> SliJob]
           /\ hand'[h] = job /\ \A g \in Hands \ {h} : hand'[g] = hand[g]
  BY DEF Moves, SliTypeOK

LEMMA InitSliInv == SliInit => SliInv
<1> SUFFICES ASSUME SliInit PROVE SliInv
  OBVIOUS
<1>1. PICK pics \in SUBSET Pics : \E captions \in SUBSET pics :
          /\ show = [s \in Shows |-> IF s = First
                        THEN [Empty EXCEPT !.pics = pics, !.captions = captions] ELSE NoShow]
          /\ given = [s \in Shows |-> IF s = First THEN captions ELSE {}]
  BY DEF SliInit
<1>2. PICK captions \in SUBSET pics :
          /\ show = [s \in Shows |-> IF s = First
                        THEN [Empty EXCEPT !.pics = pics, !.captions = captions] ELSE NoShow]
          /\ given = [s \in Shows |-> IF s = First THEN captions ELSE {}]
  BY <1>1
<1>3. [Empty EXCEPT !.pics = pics, !.captions = captions] =
          [is |-> "there", pics |-> pics, captions |-> captions, file |-> "whole"]
  <2>1. Empty = [is |-> "there", pics |-> {}, captions |-> {}, file |-> "whole"]
    BY DEF Empty
  <2> DEFINE e == [is |-> "there", pics |-> pics, captions |-> {}, file |-> "whole"]
  <2>2. [Empty EXCEPT !.pics = pics] = e
    BY <2>1
  <2>3. [Empty EXCEPT !.pics = pics, !.captions = captions] = [[Empty EXCEPT !.pics = pics] EXCEPT !.captions = captions]
    OBVIOUS
  <2>4. [e EXCEPT !.captions = captions] = [is |-> "there", pics |-> pics, captions |-> captions, file |-> "whole"]
    OBVIOUS
  <2> HIDE DEF e
  <2> QED
    BY <2>2, <2>3, <2>4
<1> DEFINE D == [is |-> "there", pics |-> pics, captions |-> captions, file |-> "whole"]
<1>4. D \in Directory /\ D.is = "there" /\ D.captions = captions /\ D.file = "whole"
  BY DEF Directory
<1>5. show = [s \in Shows |-> IF s = First THEN D ELSE NoShow]
  BY <1>2, <1>3
<1> HIDE DEF D
<1>6. SliTypeOK
  BY <1>2, <1>4, <1>5, HandFacts DEF SliInit, SliTypeOK
<1>7. Tidy
  BY <1>2, <1>4, <1>5, HandFacts DEF SliInit, Tidy, ShowThere
<1>8. InTurn
  BY <1>2, <1>4, <1>5, DirFacts, HandFacts DEF SliInit, InTurn, ShowThere, HasItsOwn
<1> QED
  BY <1>6, <1>7, <1>8 DEF SliInv

\* A job of the one request in flight is done and nothing else changes but, may
\* be, what it holds.
LEMMA MoveInv ==
    ASSUME SliInv, NEW h \in Hands, Move(h)
    PROVE  SliInv'
<1>0. hand[h] # HandFree /\ hand[h].dir \in Shows /\ hand[h].to \in Shows /\ hand[h] \in SliJob
  BY HandFacts DEF Move, SliInv, SliTypeOK
<1>p. PICK s \in Shows, t \in Shows : s = hand[h].dir /\ t = hand[h].to
  BY <1>0
<1> DEFINE job == [at |-> "read", dir |-> t, gone |-> {}]
<1>1. hand[h] # HandFree /\ hand[h] \in SliJob /\ UNCHANGED met
  BY <1>0 DEF Move
<1>2. job \in SliJob /\ job.at = "read" /\ job.dir = t /\ job.gone = {} /\ job # HandFree
  BY <1>1, HandFacts
<1>3. hand[h].at = "move" /\ (s = t => Moves(h, job) /\ UNCHANGED <<show, given>>)
  BY <1>p DEF Move
<1>4. s # t /\ (ShowThere(t) \/ ~ShowThere(s)) => Moves(h, HandFree) /\ UNCHANGED <<show, given>>
  BY <1>p DEF Move
<1>5. s # t /\ ~ShowThere(t) /\ ShowThere(s) =>
        /\ show' = [show EXCEPT ![t] = show[s], ![s] = NoShow]
        /\ given' = [given EXCEPT ![t] = given[s], ![s] = {}]
        /\ hand' = [g \in Hands |->
              IF g = h THEN job
              ELSE IF hand[g].at = "write" /\ hand[g].dir = s THEN [hand[g] EXCEPT !.dir = t]
              ELSE hand[g]]
  BY <1>p DEF Move
<1> HIDE DEF job
<1>6. ~met => /\ \A g \in Hands \ {h} : hand[g] = HandFree
              /\ ShowThere(s)
              /\ \A u \in Shows : ShowThere(u) => HasItsOwn(u)
  BY <1>p, <1>1, <1>3, OneBusy DEF Restores
<1>7. CASE s = t
  <2>1. hand' \in [Hands -> SliJob] /\ hand'[h] = job /\ \A g \in Hands \ {h} : hand'[g] = hand[g]
    BY <1>2, <1>3, <1>7, HandMoves DEF SliInv
  <2>2. UNCHANGED <<show, given>>
    BY <1>3, <1>7
  <2>3. SliTypeOK' /\ Tidy'
    BY <1>1, <1>2, <2>1, <2>2, HandFacts DEF SliInv, SliTypeOK, Tidy, ShowThere
  <2>4. ~met => InTurn'
    <3> SUFFICES ASSUME ~met PROVE InTurn'
      OBVIOUS
    <3>1. \A u \in Shows : ShowThere(u)' => HasItsOwn(u)'
      BY <1>6, <2>2 DEF ShowThere, HasItsOwn
    <3>2. \A g \in Hands \ {h} : hand'[g] = HandFree
      BY <1>6, <2>1
    <3>3. ShowThere(t)'
      BY <1>6, <1>7, <2>2 DEF ShowThere
    <3>4. Restores(h, t)'
      BY <1>2, <1>6, <1>7, <2>1, <2>2 DEF Restores, HasItsOwn
    <3> QED
      BY <1>2, <2>1, <3>1, <3>2, <3>3, <3>4, HandFacts DEF InTurn
  <2> QED
    BY <1>1, <2>3, <2>4 DEF SliInv
<1>8. CASE s # t /\ (ShowThere(t) \/ ~ShowThere(s))
  <2>1. hand' \in [Hands -> SliJob] /\ hand'[h] = HandFree /\ \A g \in Hands \ {h} : hand'[g] = hand[g]
    BY <1>4, <1>8, HandMoves, HandFacts DEF SliInv
  <2>2. UNCHANGED <<show, given>>
    BY <1>4, <1>8
  <2>3. SliTypeOK' /\ Tidy'
    BY <1>1, <2>1, <2>2, HandFacts DEF SliInv, SliTypeOK, Tidy, ShowThere
  <2>4. ~met => InTurn'
    <3> SUFFICES ASSUME ~met PROVE InTurn'
      OBVIOUS
    <3>1. \A u \in Shows : ShowThere(u)' => HasItsOwn(u)'
      BY <1>6, <2>2 DEF ShowThere, HasItsOwn
    <3>2. \A g \in Hands : hand'[g] = HandFree
      BY <1>6, <2>1
    <3> QED
      BY <3>1, <3>2, HandFacts DEF InTurn
  <2> QED
    BY <1>1, <2>3, <2>4 DEF SliInv
<1>9. CASE s # t /\ ~ShowThere(t) /\ ShowThere(s)
  <2>1. /\ show'[t] = show[s] /\ show'[s] = NoShow /\ \A u \in Shows \ {s, t} : show'[u] = show[u]
        /\ show' \in [Shows -> Directory \union {NoShow}]
    BY <1>1, <1>5, <1>9 DEF SliInv, SliTypeOK
  <2>2. /\ given'[t] = given[s] /\ given'[s] = {} /\ \A u \in Shows \ {s, t} : given'[u] = given[u]
        /\ given' \in [Shows -> SUBSET Pics]
    BY <1>1, <1>5, <1>9 DEF SliInv, SliTypeOK
  <2>3. \A j \in SliJob : j.at = "write" => [j EXCEPT !.dir = t] \in SliJob /\ [j EXCEPT !.dir = t].dir = t
    <3> SUFFICES ASSUME NEW j \in SliJob, j.at = "write"
                 PROVE  [j EXCEPT !.dir = t] \in SliJob /\ [j EXCEPT !.dir = t].dir = t
      OBVIOUS
    <3>1. j = [at |-> "write", dir |-> j.dir, captions |-> j.captions] /\ j.captions \in SUBSET Pics
      BY HandFacts
    <3>2. [j EXCEPT !.dir = t] = [at |-> "write", dir |-> t, captions |-> j.captions]
      BY <3>1
    <3> QED
      BY <1>1, <3>1, <3>2, HandFacts
  <2>4. hand' \in [Hands -> SliJob] /\ hand'[h] = job
    BY <1>2, <1>5, <1>9, <2>3 DEF SliInv, SliTypeOK
  <2>5. ~met => \A g \in Hands \ {h} : hand'[g] = HandFree
    BY <1>5, <1>6, <1>9, HandFacts
  <2>6. SliTypeOK'
    BY <1>1, <2>1, <2>2, <2>4 DEF SliInv, SliTypeOK
  <2>7. Tidy'
    <3>1. \A u \in Shows : ~ShowThere(u)' => given'[u] = {}
      BY <1>9, <2>1, <2>2 DEF SliInv, Tidy, ShowThere
    <3>2. ASSUME NEW g \in Hands, hand'[g].at = "write"
          PROVE  show'[hand'[g].dir].is = "there"
      <4>1. g # h /\ hand[g] \in SliJob
        BY <1>2, <2>4, <3>2 DEF SliInv, SliTypeOK
      <4>2. CASE hand[g].at = "write" /\ hand[g].dir = s
        <5>1. hand'[g] = [hand[g] EXCEPT !.dir = t]
          BY <1>5, <1>9, <4>1, <4>2
        <5>2. hand'[g].dir = t
          BY <2>3, <4>1, <4>2, <5>1
        <5> QED
          BY <1>9, <2>1, <5>2 DEF ShowThere
      <4>3. CASE ~(hand[g].at = "write" /\ hand[g].dir = s)
        <5>1. hand'[g] = hand[g]
          BY <1>5, <1>9, <4>1, <4>3
        <5>2. ShowThere(hand[g].dir) /\ hand[g].dir \in Shows
          BY <3>2, <4>1, <5>1, HandFacts DEF SliInv, Tidy
        <5> QED
          BY <1>9, <2>1, <3>2, <4>3, <5>1, <5>2 DEF ShowThere
      <4> QED
        BY <4>2, <4>3
    <3> QED
      BY <3>1, <3>2 DEF Tidy, ShowThere
  <2>8. ~met => InTurn'
    <3> SUFFICES ASSUME ~met PROVE InTurn'
      OBVIOUS
    <3>1. \A u \in Shows : ShowThere(u)' => HasItsOwn(u)'
      BY <1>6, <1>9, <2>1, <2>2, DirFacts DEF ShowThere, HasItsOwn
    <3>2. ShowThere(t)'
      BY <1>9, <2>1 DEF ShowThere
    <3>3. Restores(h, t)'
      BY <1>2, <1>6, <1>9, <2>1, <2>2, <2>4 DEF Restores, HasItsOwn
    <3> QED
      BY <1>2, <2>4, <2>5, <3>1, <3>2, <3>3, HandFacts DEF InTurn
  <2> QED
    BY <1>1, <2>6, <2>7, <2>8 DEF SliInv
<1> QED
  BY <1>7, <1>8, <1>9

LEMMA PutInv ==
    ASSUME SliInv, NEW h \in Hands, PutPicture(h)
    PROVE  SliInv'
<1> DEFINE s == hand[h].dir
           p == hand[h].pic
           dir == IF ShowThere(s) THEN show[s] ELSE Empty
           D == [dir EXCEPT !.pics = @ \union {p}]
<1>1. hand[h] # HandFree /\ hand[h].at = "put" /\ s \in Shows /\ p \in Pics /\ UNCHANGED <<given, met>>
  BY HandFacts DEF PutPicture, SliInv, SliTypeOK
<1>2. show' = [show EXCEPT ![s] = D] /\ Moves(h, HandFree)
  BY DEF PutPicture
<1>3. dir \in Directory /\ (ShowThere(s) => dir = show[s]) /\ (~ShowThere(s) => dir.captions = {} /\ dir.file = "whole")
  BY <1>1, DirFacts DEF SliInv, SliTypeOK, ShowThere
<1> HIDE DEF s, p, dir
<1>4. D \in Directory /\ D.is = "there" /\ D.captions = dir.captions /\ D.file = dir.file
  <2> DEFINE P == dir.pics \union {p}
  <2>1. P \in SUBSET Pics
    BY <1>1, <1>3, DirFacts
  <2>2. D = [is |-> "there", pics |-> P, captions |-> dir.captions, file |-> dir.file]
    BY <1>3, <2>1, DirWrites
  <2> HIDE DEF P, D
  <2> QED
    BY <1>3, <2>1, <2>2, DirFacts
<1> HIDE DEF D
<1>5. /\ show'[s] = D /\ \A t \in Shows \ {s} : show'[t] = show[t]
      /\ show' \in [Shows -> Directory \union {NoShow}]
  BY <1>1, <1>2, <1>4 DEF SliInv, SliTypeOK
<1>6. hand' \in [Hands -> SliJob] /\ hand'[h] = HandFree /\ \A g \in Hands \ {h} : hand'[g] = hand[g]
  BY <1>2, HandMoves, HandFacts DEF SliInv
<1>7. SliTypeOK' /\ Tidy'
  BY <1>1, <1>4, <1>5, <1>6, HandFacts DEF SliInv, SliTypeOK, Tidy, ShowThere
<1>8. ~met => InTurn'
  <2> SUFFICES ASSUME ~met PROVE InTurn'
    OBVIOUS
  <2>1. \A t \in Shows : ShowThere(t) => HasItsOwn(t)
    BY <1>1, OneBusy DEF Restores
  <2>2. \A t \in Shows : ShowThere(t)' => HasItsOwn(t)'
    BY <1>1, <1>3, <1>4, <1>5, <2>1 DEF ShowThere, HasItsOwn, SliInv, Tidy
  <2>3. \A g \in Hands : hand'[g] = HandFree
    BY <1>1, <1>6, OneBusy
  <2> QED
    BY <2>2, <2>3, HandFacts DEF InTurn
<1> QED
  BY <1>1, <1>7, <1>8 DEF SliInv

LEMMA ReadInv ==
    ASSUME SliInv, NEW h \in Hands, ReadMeta(h)
    PROVE  SliInv'
<1>0. /\ hand[h] # HandFree /\ hand[h].at = "read" /\ hand[h].dir \in Shows /\ hand[h].gone \in SUBSET Pics
      /\ Kept(h) \in SUBSET Pics
  BY HandFacts, DirFacts DEF ReadMeta, Kept, Captions, ShowThere, SliInv, SliTypeOK
<1>p. PICK s \in Shows, C \in SUBSET Pics : s = hand[h].dir /\ C = Kept(h)
  BY <1>0
<1> DEFINE job == [at |-> "truncate", dir |-> s, captions |-> C]
<1>2. Moves(h, job) /\ UNCHANGED <<show, given, met>>
  BY <1>p DEF ReadMeta
<1>4. C = Captions(s) \ hand[h].gone
  BY <1>p DEF Kept
<1>5. job \in SliJob /\ job.at = "truncate" /\ job.dir = s /\ job.captions = C /\ job # HandFree
  BY HandFacts
<1> HIDE DEF job
<1>6. hand' \in [Hands -> SliJob] /\ hand'[h] = job /\ \A g \in Hands \ {h} : hand'[g] = hand[g]
  BY <1>2, <1>5, HandMoves DEF SliInv
<1>7. SliTypeOK' /\ Tidy'
  BY <1>2, <1>5, <1>6, HandFacts DEF SliInv, SliTypeOK, Tidy, ShowThere
<1>8. ~met => InTurn'
  <2> SUFFICES ASSUME ~met PROVE InTurn'
    OBVIOUS
  <2>1. /\ \A g \in Hands \ {h} : hand[g] = HandFree
        /\ ShowThere(s)
        /\ Restores(h, s)
        /\ \A t \in Shows : ShowThere(t) => HasItsOwn(t) \/ Restores(h, t)
    BY <1>0, <1>p, OneBusy
  <2>2. \A t \in Shows \ {s} : ShowThere(t) => HasItsOwn(t)
    BY <1>p, <2>1 DEF Restores
  <2>3. Restores(h, s)'
    BY <1>0, <1>2, <1>4, <1>5, <1>6, <2>1 DEF Restores, Captions
  <2>5. \A t \in Shows : ShowThere(t)' => HasItsOwn(t)' \/ Restores(h, t)'
    BY <1>2, <2>1, <2>2, <2>3 DEF ShowThere, HasItsOwn
  <2> QED
    BY <1>2, <1>5, <1>6, <2>1, <2>3, <2>5, HandFacts DEF InTurn, ShowThere
<1> QED
  BY <1>2, <1>7, <1>8 DEF SliInv

LEMMA TruncateInv ==
    ASSUME SliInv, NEW h \in Hands, Truncate(h)
    PROVE  SliInv'
<1>0. hand[h] # HandFree /\ hand[h].at = "truncate" /\ hand[h].dir \in Shows
  BY HandFacts DEF Truncate, SliInv, SliTypeOK
<1>p. PICK s \in Shows : s = hand[h].dir
  BY <1>0
<1> DEFINE job == [hand[h] EXCEPT !.at = "write"]
           D == [show[s] EXCEPT !.file = "torn"]
<1>1. UNCHANGED <<given, met>>
  BY DEF Truncate
<1>2. CASE ~ShowThere(s)
  <2>1. Moves(h, HandFree) /\ UNCHANGED show
    BY <1>p, <1>2 DEF Truncate
  <2>2. hand' \in [Hands -> SliJob] /\ hand'[h] = HandFree /\ \A g \in Hands \ {h} : hand'[g] = hand[g]
    BY <2>1, HandMoves, HandFacts DEF SliInv
  <2>3. met
    BY <1>0, <1>p, <1>2, OneBusy
  <2> QED
    BY <1>1, <2>1, <2>2, <2>3, HandFacts DEF SliInv, SliTypeOK, Tidy, ShowThere
<1>3. CASE ShowThere(s)
  <2>1. show' = [show EXCEPT ![s] = D] /\ Moves(h, job)
    BY <1>p, <1>3 DEF Truncate
  <2>2. show[s] \in Directory
    BY <1>1, <1>3, DirFacts DEF SliInv, SliTypeOK, ShowThere
  <2>3. D \in Directory /\ D.is = "there" /\ D.captions = show[s].captions
    <3>1. D = [is |-> "there", pics |-> show[s].pics, captions |-> show[s].captions, file |-> "torn"]
      BY <2>2, DirWrites
    <3> HIDE DEF D
    <3> QED
      BY <2>2, <3>1, DirFacts
  <2>4. job \in SliJob /\ job.at = "write" /\ job.dir = s /\ job.captions = hand[h].captions /\ job # HandFree
    <3>1. /\ hand[h] = [at |-> "truncate", dir |-> s, captions |-> hand[h].captions]
          /\ hand[h].captions \in SUBSET Pics
      BY <1>0, <1>p, HandFacts DEF SliInv, SliTypeOK
    <3>2. job = [at |-> "write", dir |-> s, captions |-> hand[h].captions]
      BY <3>1
    <3> HIDE DEF job
    <3> QED
      BY <1>1, <3>1, <3>2, HandFacts
  <2> HIDE DEF job, D
  <2>5. /\ show'[s] = D /\ \A t \in Shows \ {s} : show'[t] = show[t]
        /\ show' \in [Shows -> Directory \union {NoShow}]
    BY <1>1, <2>1, <2>3 DEF SliInv, SliTypeOK
  <2>6. hand' \in [Hands -> SliJob] /\ hand'[h] = job /\ \A g \in Hands \ {h} : hand'[g] = hand[g]
    BY <2>1, <2>4, HandMoves DEF SliInv
  <2>7. SliTypeOK' /\ Tidy'
    <3>1. SliTypeOK'
      BY <1>1, <2>5, <2>6 DEF SliInv, SliTypeOK
    <3>2. \A u \in Shows : ShowThere(u)' <=> ShowThere(u)
      BY <1>3, <2>3, <2>5 DEF ShowThere
    <3>3. \A u \in Shows : ~ShowThere(u)' => given'[u] = {}
      BY <1>1, <3>2 DEF SliInv, Tidy
    <3>4. ASSUME NEW g \in Hands, hand'[g].at = "write"
          PROVE  hand'[g].dir \in Shows /\ ShowThere(hand'[g].dir)
      <4>1. CASE g = h
        BY <1>0, <1>3, <2>4, <2>6, <4>1
      <4>2. CASE g # h
        BY <2>6, <3>4, <4>2, HandFacts DEF SliInv, SliTypeOK, Tidy
      <4> QED
        BY <4>1, <4>2
    <3>5. \A g \in Hands : hand'[g].at = "write" => ShowThere(hand[g].dir)'
      BY <3>2, <3>4 DEF ShowThere
    <3> QED
      BY <3>1, <3>3, <3>5 DEF Tidy
  <2>8. ~met => InTurn'
    <3> SUFFICES ASSUME ~met PROVE InTurn'
      OBVIOUS
    <3>1. /\ \A g \in Hands \ {h} : hand[g] = HandFree
          /\ Restores(h, s)
          /\ \A t \in Shows : ShowThere(t) => HasItsOwn(t) \/ Restores(h, t)
      BY <1>0, <1>p, OneBusy
    <3>2. \A t \in Shows \ {s} : ShowThere(t) => HasItsOwn(t)
      BY <1>p, <3>1 DEF Restores
    <3>3. \A t \in Shows \ {s} : ShowThere(t)' => HasItsOwn(t)'
      BY <1>1, <2>5, <3>2 DEF ShowThere, HasItsOwn
    <3>4. Restores(h, s)'
      BY <1>0, <1>1, <1>3, <2>4, <2>6, <3>1 DEF Restores
    <3>5. ShowThere(s)'
      BY <2>3, <2>5 DEF ShowThere
    <3> QED
      BY <2>4, <2>6, <3>1, <3>3, <3>4, <3>5, HandFacts DEF InTurn
  <2> QED
    BY <1>1, <2>7, <2>8 DEF SliInv
<1> QED
  BY <1>2, <1>3

LEMMA WriteInv ==
    ASSUME SliInv, NEW h \in Hands, WriteMeta(h)
    PROVE  SliInv'
<1> DEFINE s == hand[h].dir
           C == hand[h].captions
           D == [show[s] EXCEPT !.captions = C, !.file = "whole"]
<1>1. /\ hand[h] # HandFree /\ hand[h].at = "write" /\ s \in Shows /\ C \in SUBSET Pics
      /\ UNCHANGED <<given, met>> /\ Moves(h, HandFree)
  BY HandFacts DEF WriteMeta, SliInv, SliTypeOK
<1>2. show' = [show EXCEPT ![s] = D]
  BY <1>1 DEF WriteMeta, SliInv, SliTypeOK
<1>3. ShowThere(s) /\ show[s] \in Directory
  BY <1>1, DirFacts DEF SliInv, SliTypeOK, Tidy, ShowThere
<1>4. D \in Directory /\ D.is = "there" /\ D.captions = C /\ D.file = "whole"
  <2>1. D = [is |-> "there", pics |-> show[s].pics, captions |-> C, file |-> "whole"]
    BY <1>1, <1>3, DirWrites
  <2> HIDE DEF D
  <2> QED
    BY <1>1, <1>3, <2>1, DirFacts
<1> HIDE DEF s, C, D
<1>5. /\ show'[s] = D /\ \A t \in Shows \ {s} : show'[t] = show[t]
      /\ show' \in [Shows -> Directory \union {NoShow}]
  BY <1>1, <1>2, <1>4 DEF SliInv, SliTypeOK
<1>6. hand' \in [Hands -> SliJob] /\ hand'[h] = HandFree /\ \A g \in Hands \ {h} : hand'[g] = hand[g]
  BY <1>1, HandMoves, HandFacts DEF SliInv
<1>7. SliTypeOK' /\ Tidy'
  BY <1>1, <1>4, <1>5, <1>6, HandFacts DEF SliInv, SliTypeOK, Tidy, ShowThere
<1>8. ~met => InTurn'
  <2> SUFFICES ASSUME ~met PROVE InTurn'
    OBVIOUS
  <2>1. /\ \A g \in Hands \ {h} : hand[g] = HandFree
        /\ Restores(h, s)
        /\ \A t \in Shows : ShowThere(t) => HasItsOwn(t) \/ Restores(h, t)
    BY <1>1, OneBusy DEF s
  <2>2. \A t \in Shows : ShowThere(t)' => HasItsOwn(t)'
    BY <1>1, <1>4, <1>5, <2>1 DEF ShowThere, HasItsOwn, Restores, s, C
  <2>3. \A g \in Hands : hand'[g] = HandFree
    BY <1>6, <2>1
  <2> QED
    BY <2>2, <2>3, HandFacts DEF InTurn
<1> QED
  BY <1>1, <1>7, <1>8 DEF SliInv
\* One step per action, and under it the parts it can disturb.
LEMMA NextSliInv == SliInv /\ [SliNext]_sliVars => SliInv'
<1> SUFFICES ASSUME SliInv, [SliNext]_sliVars PROVE SliInv'
  OBVIOUS
<1>0. CASE UNCHANGED sliVars
  BY <1>0 DEF sliVars, SliInv, SliTypeOK, Tidy, InTurn, ShowThere, HasItsOwn, Restores
<1>1. ASSUME NEW s \in Shows, CreateShow(s)
      PROVE  SliInv'
  <2>1. /\ show'[s] = Empty /\ \A t \in Shows \ {s} : show'[t] = show[t]
        /\ show' \in [Shows -> Directory \union {NoShow}]
        /\ ~ShowThere(s) /\ UNCHANGED <<hand, given>>
    BY <1>1, DirFacts DEF CreateShow, SliInv, SliTypeOK
  <2>2. met' \in BOOLEAN /\ (~met' => ~met /\ \A h \in Hands : hand[h] = HandFree)
    BY <1>1 DEF CreateShow, Meets
  <2>3. SliTypeOK'
    BY <2>1, <2>2 DEF SliInv, SliTypeOK
  <2>0. Empty.is = "there" /\ Empty.captions = {} /\ Empty.file = "whole"
    BY DirFacts
  <2>4. Tidy'
    <3>1. \A u \in Shows : ~ShowThere(u)' => given'[u] = {}
      BY <2>0, <2>1 DEF SliInv, Tidy, ShowThere
    <3>2. \A g \in Hands : hand[g].at = "write" => hand[g].dir \in Shows /\ ShowThere(hand[g].dir)
      BY HandFacts DEF SliInv, SliTypeOK, Tidy
    <3> QED
      BY <2>0, <2>1, <3>1, <3>2 DEF Tidy, ShowThere
  <2>5. ~met' => InTurn'
    <3> SUFFICES ASSUME ~met' PROVE InTurn'
      OBVIOUS
    <3>1. \A t \in Shows : ShowThere(t) => HasItsOwn(t)
      BY <2>2, Quiet
    <3>2. \A t \in Shows : ShowThere(t)' => HasItsOwn(t)'
      BY <2>0, <2>1, <3>1 DEF ShowThere, HasItsOwn, SliInv, Tidy
    <3> QED
      BY <2>1, <2>2, <3>2, HandFacts DEF InTurn
  <2> QED
    BY <2>3, <2>4, <2>5 DEF SliInv
<1>2. ASSUME NEW s \in Shows, DeleteShow(s)
      PROVE  SliInv'
  <2>1. /\ show'[s] = NoShow /\ \A t \in Shows \ {s} : show'[t] = show[t]
        /\ show' \in [Shows -> Directory \union {NoShow}]
        /\ given'[s] = {} /\ \A t \in Shows \ {s} : given'[t] = given[t]
        /\ given' \in [Shows -> SUBSET Pics]
    BY <1>2 DEF DeleteShow, SliInv, SliTypeOK
  <2>2. met' \in BOOLEAN /\ (~met' => ~met /\ \A h \in Hands : hand[h] = HandFree)
    BY <1>2 DEF DeleteShow, Meets
  <2>3. hand' \in [Hands -> SliJob] /\ \A h \in Hands : hand'[h] \in {hand[h], HandFree}
    BY <1>2, HandFacts DEF DeleteShow, SliInv, SliTypeOK
  <2>4. SliTypeOK'
    BY <2>1, <2>2, <2>3 DEF SliTypeOK
  <2>5. Tidy'
    <3>1. \A u \in Shows : ~ShowThere(u)' => given'[u] = {}
      BY <2>1 DEF SliInv, Tidy, ShowThere
    <3>2. ASSUME NEW g \in Hands, hand'[g].at = "write"
          PROVE  hand'[g] = hand[g] /\ hand[g].dir \in Shows \ {s} /\ ShowThere(hand[g].dir)
      <4>1. hand'[g] = hand[g]
        BY <2>3, <3>2, HandFacts
      <4>2. hand[g].dir # s
        BY <1>2, <3>2, <4>1, HandFacts DEF DeleteShow
      <4> QED
        BY <3>2, <4>1, <4>2, HandFacts DEF SliInv, SliTypeOK, Tidy
    <3> QED
      BY <2>1, <3>1, <3>2 DEF Tidy, ShowThere
  <2>6. ~met' => InTurn'
    <3> SUFFICES ASSUME ~met' PROVE InTurn'
      OBVIOUS
    <3>1. \A t \in Shows : ShowThere(t) => HasItsOwn(t)
      BY <2>2, Quiet
    <3>2. \A t \in Shows : ShowThere(t)' => HasItsOwn(t)'
      BY <2>1, <3>1, DirFacts DEF ShowThere, HasItsOwn
    <3> QED
      BY <2>2, <2>3, <3>2, HandFacts DEF InTurn
  <2> QED
    BY <2>4, <2>5, <2>6 DEF SliInv
<1>3. ASSUME NEW h \in Hands, NEW s \in Shows, NEW t \in Shows, OpenRename(h, s, t)
      PROVE  SliInv'
  <2> DEFINE job == [at |-> "move", dir |-> s, to |-> t]
  <2>1. job \in SliJob /\ job.dir = s /\ job.at \in {"move", "put"} /\ Begins(h, s, job) /\ UNCHANGED <<show, given>>
    BY <1>3, HandFacts DEF OpenRename
  <2> HIDE DEF job
  <2> QED
    BY <2>1, BeginsOnly, HandFacts
<1>4. ASSUME NEW h \in Hands, NEW s \in Shows, NEW p \in Pics, OpenUpload(h, s, p)
      PROVE  SliInv'
  <2> DEFINE job == [at |-> "put", dir |-> s, pic |-> p]
  <2>1. job \in SliJob /\ job.dir = s /\ job.at \in {"move", "put"} /\ Begins(h, s, job) /\ UNCHANGED <<show, given>>
    BY <1>4, HandFacts DEF OpenUpload
  <2> HIDE DEF job
  <2> QED
    BY <2>1, BeginsOnly, HandFacts
<1>5. ASSUME NEW h \in Hands, NEW s \in Shows, NEW p \in Pics, DeletePicture(h, s, p)
      PROVE  SliInv'
  <2> DEFINE job == [at |-> "read", dir |-> s, gone |-> {p}]
  <2>1. /\ job \in SliJob /\ job.dir = s /\ job.at = "read" /\ job.gone = {p}
        /\ job # HandFree /\ Begins(h, s, job)
    BY <1>5, HandFacts DEF DeletePicture
  <2> HIDE DEF job
  <2>2. /\ hand' \in [Hands -> SliJob] /\ met' \in BOOLEAN /\ ShowThere(s)
        /\ hand'[h] = job /\ \A g \in Hands \ {h} : hand'[g] = hand[g]
        /\ ~met' => ~met /\ \A g \in Hands : hand[g] = HandFree
    BY <2>1, BeginsInTurn
  <2>3. /\ show' = [show EXCEPT ![s] = [show[s] EXCEPT !.pics = @ \ {p}]]
        /\ given' = [given EXCEPT ![s] = @ \ {p}]
    BY <1>5 DEF DeletePicture
  <2>4. show[s] \in Directory
    BY <2>2, DirFacts DEF SliInv, SliTypeOK, ShowThere
  <2> DEFINE d == [show[s] EXCEPT !.pics = @ \ {p}]
  <2>5. d \in Directory /\ d.is = "there" /\ d.captions = show[s].captions /\ d.file = show[s].file
    <3> DEFINE P == show[s].pics \ {p}
    <3>1. P \in SUBSET Pics
      BY <2>4, DirFacts
    <3>2. d = [is |-> "there", pics |-> P, captions |-> show[s].captions, file |-> show[s].file]
      BY <2>4, <3>1, DirWrites
    <3> HIDE DEF P, d
    <3> QED
      BY <2>4, <3>1, <3>2, DirFacts
  <2> HIDE DEF d
  <2>6. /\ show'[s] = d /\ \A t \in Shows \ {s} : show'[t] = show[t]
        /\ show' \in [Shows -> Directory \union {NoShow}]
    BY <2>3, <2>5 DEF SliInv, SliTypeOK, d
  <2>7. /\ given'[s] = given[s] \ {p} /\ \A t \in Shows \ {s} : given'[t] = given[t]
        /\ given' \in [Shows -> SUBSET Pics]
    BY <2>3 DEF SliInv, SliTypeOK
  <2>8. SliTypeOK' /\ Tidy'
    <3>1. SliTypeOK'
      BY <2>2, <2>6, <2>7 DEF SliTypeOK
    <3>2. \A u \in Shows : ShowThere(u)' <=> ShowThere(u)
      BY <2>2, <2>5, <2>6 DEF ShowThere
    <3>3. \A u \in Shows : ~ShowThere(u)' => given'[u] = {}
      BY <2>7, <3>2 DEF SliInv, Tidy
    <3>4. \A g \in Hands : hand'[g].at = "write" => hand'[g] = hand[g] /\ hand[g].dir \in Shows /\ ShowThere(hand[g].dir)
      BY <2>1, <2>2, HandFacts DEF SliInv, SliTypeOK, Tidy
    <3> QED
      BY <3>1, <3>2, <3>3, <3>4 DEF Tidy, ShowThere
  <2>9. ASSUME ~met' PROVE InTurn'
    <3>1. \A t \in Shows : ShowThere(t) => HasItsOwn(t)
      BY <2>2, <2>9, Quiet
    <3>2. Restores(h, s)'
      BY <2>1, <2>2, <2>5, <2>6, <2>7, <3>1 DEF Restores, HasItsOwn
    <3>3. \A t \in Shows \ {s} : ShowThere(t)' => HasItsOwn(t)'
      BY <2>6, <2>7, <3>1 DEF ShowThere, HasItsOwn
    <3>4. \A g \in Hands \ {h} : hand'[g] = HandFree
      BY <2>2, <2>9
    <3>5. ShowThere(s)' /\ hand'[h].dir = s
      BY <2>1, <2>2, <2>5, <2>6 DEF ShowThere
    <3> QED
      BY <2>1, <2>2, <3>2, <3>3, <3>4, <3>5, HandFacts DEF InTurn
  <2> QED
    BY <2>8, <2>9 DEF SliInv
<1>6. ASSUME NEW h \in Hands, Move(h)
      PROVE  SliInv'
  BY <1>6, MoveInv
<1>7. ASSUME NEW h \in Hands, PutPicture(h)
      PROVE  SliInv'
  BY <1>7, PutInv
<1>8. ASSUME NEW h \in Hands, ReadMeta(h)
      PROVE  SliInv'
  BY <1>8, ReadInv
<1>9. ASSUME NEW h \in Hands, Truncate(h)
      PROVE  SliInv'
  BY <1>9, TruncateInv
<1>10. ASSUME NEW h \in Hands, WriteMeta(h)
       PROVE  SliInv'
  BY <1>10, WriteInv
<1>11. ASSUME NEW h \in Hands, DropHand(h)
       PROVE  SliInv'
  BY <1>11, HandMoves, HandFacts DEF DropHand, SliInv, SliTypeOK, Tidy, ShowThere
<1> QED
  BY <1>0, <1>1, <1>2, <1>3, <1>4, <1>5, <1>6, <1>7, <1>8, <1>9, <1>10, <1>11 DEF SliNext

\* What the slideshow screens keep is well formed: directories, requests in
\* flight, and the captions that should be there (admin/slideshows.go).
THEOREM SlideshowsTypeCorrect == SliSpec => []SliTypeOK
<1>1. SliInv => SliTypeOK
  BY DEF SliInv
<1> QED
  BY <1>1, InitSliInv, NextSliInv, PTL DEF SliSpec

\* As long as requests come one after the other, the captions of every
\* slideshow follow its pictures through renames and removals, whatever the
\* slideshows and the pictures (slideshowImageDelete, slideshowRename).
THEOREM CaptionsStay == SliSpec => []CaptionsFollow
<1>1. SliInv => CaptionsFollow
  BY Quiet DEF CaptionsFollow, HasItsOwn
<1> QED
  BY <1>1, InitSliInv, NextSliInv, PTL DEF SliSpec

-----------------------------------------------------------------------------
(* The mailing list. *)

\* A token on a row, in a request or in a link was drawn for that address.
Drawn ==
    /\ \A e \in Addresses : Listed(e) => issued[row[e].token] = e
    /\ \A r \in Readers : req[r].at \in {"insert", "mail", "confirm"} =>
          issued[req[r].token] = req[r].email
    /\ \A t \in confirmable : issued[t] \in Addresses

\* Whoever is verified, about to be, or on the list of a message opted in.
Opted ==
    /\ \A e \in Addresses : row[e].verified => e \in opted
    /\ \A r \in Readers : req[r].at = "confirm" => req[r].email \in opted
    /\ \A r \in Readers : req[r].at = "send" => \A t \in req[r].left : issued[t] \in opted
    /\ \A t \in leavable : issued[t] \in opted

SubInv == SubTypeOK /\ Drawn /\ Opted

-----------------------------------------------------------------------------
\* What a row is, and what it is not.
LEMMA ListFacts ==
    /\ Missing.token = "none" /\ Missing.verified = FALSE
    /\ \A x \in SubRow : x.token \in Tokens /\ x.verified \in BOOLEAN /\ x # Missing
    /\ \A t \in Tokens, b \in BOOLEAN : [token |-> t, verified |-> b] \in SubRow
<1>1. Missing.token = "none" /\ Missing.verified = FALSE
  BY DEF Missing
<1>2. ASSUME NEW x \in SubRow
      PROVE  x.token \in Tokens /\ x.verified \in BOOLEAN /\ x # Missing
  BY <1>1, SubscribersAssumption DEF SubRow
<1>3. \A t \in Tokens, b \in BOOLEAN : [token |-> t, verified |-> b] \in SubRow
  BY DEF SubRow
<1> QED
  BY <1>1, <1>2, <1>3

\* What a request holds.
LEMMA RequestFacts ==
    /\ SubFree \in SubJob /\ SubFree.at = "idle"
    /\ \A e \in Addresses, t \in Tokens, a \in {"insert", "mail", "confirm"} :
          [at |-> a, email |-> e, token |-> t] \in SubJob
    /\ \A L \in SUBSET Tokens : [at |-> "send", left |-> L] \in SubJob
    /\ \A j \in SubJob :
          /\ j.at \in {"insert", "mail", "confirm"} =>
                /\ j.email \in Addresses /\ j.token \in Tokens
                /\ j = [at |-> j.at, email |-> j.email, token |-> j.token]
          /\ j.at = "send" => j.left \in SUBSET Tokens /\ j = [at |-> "send", left |-> j.left]
  BY DEF SubFree, SubJob

\* Making an address verified keeps its token and touches no other row.
LEMMA VerifiedRow ==
    ASSUME SubTypeOK, NEW e \in Addresses, Listed(e)
    PROVE  /\ Verified(e) \in [Addresses -> SubRow \union {Missing}]
           /\ Verified(e)[e] \in SubRow /\ Verified(e)[e].token = row[e].token
           /\ Verified(e)[e].verified
           /\ \A f \in Addresses \ {e} : Verified(e)[f] = row[f]
<1>1. row[e] \in SubRow
  BY DEF SubTypeOK, Listed
<1>2. row[e] = [token |-> row[e].token, verified |-> row[e].verified]
  BY <1>1 DEF SubRow
<1>3. Verified(e)[e] = [token |-> row[e].token, verified |-> TRUE]
  BY <1>2 DEF Verified, SubTypeOK
<1>4. row[e].token \in Tokens
  BY <1>1, ListFacts
<1> QED
  BY <1>3, <1>4, ListFacts DEF Verified, SubTypeOK

\* A listed row is a row of the table, the others are not verified.
LEMMA ListedRow ==
    ASSUME SubTypeOK, NEW e \in Addresses
    PROVE  /\ Listed(e) <=> row[e] \in SubRow
           /\ Listed(e) <=> row[e].token \in Tokens
           /\ ~Listed(e) => row[e] = Missing /\ ~row[e].verified
           /\ row[e].verified \in BOOLEAN
  BY ListFacts, SubscribersAssumption DEF SubTypeOK, Listed

-----------------------------------------------------------------------------
LEMMA InitSubInv == SubInit => SubInv
<1> SUFFICES ASSUME SubInit PROVE SubInv
  OBVIOUS
<1>1. SubTypeOK
  BY RequestFacts DEF SubInit, SubTypeOK, NotIssued
<1>2. Drawn
  BY RequestFacts DEF SubInit, Drawn, Listed
<1>3. Opted
  BY RequestFacts, ListFacts DEF SubInit, Opted
<1> QED
  BY <1>1, <1>2, <1>3 DEF SubInv

\* One step per action, and under it the parts it can disturb.
LEMMA NextSubInv == SubInv /\ [SubNext]_subVars => SubInv'
<1> SUFFICES ASSUME SubInv, [SubNext]_subVars PROVE SubInv'
  OBVIOUS
<1> USE DEF SubInv
<1>0. CASE UNCHANGED subVars
  BY <1>0 DEF subVars, SubTypeOK, Drawn, Opted, Listed
<1>1. ASSUME NEW r \in Readers, NEW e \in Addresses, NEW t \in Tokens, SignUp(r, e, t)
      PROVE  SubInv'
  <2>1. \A u \in Tokens \ {t} : issued'[u] = issued[u]
    BY <1>1 DEF SignUp, SubTypeOK
  <2>2. issued'[t] = e /\ issued[t] \notin Addresses
    BY <1>1, SubscribersAssumption DEF SignUp, SubTypeOK, NotIssued
  <2>3. req'[r] = [at |-> "insert", email |-> e, token |-> t]
        /\ \A q \in Readers \ {r} : req'[q] = req[q]
    BY <1>1 DEF SignUp, Becomes, SubTypeOK
  <2>4. SubTypeOK'
    BY <1>1, RequestFacts DEF SignUp, Becomes, SubTypeOK
  <2>5. Drawn'
    <3>1. \A f \in Addresses : Listed(f)' => issued'[row'[f].token] = f
      BY <1>1, <2>1, <2>2, ListedRow DEF SignUp, Drawn, Listed
    <3>2. \A q \in Readers : req'[q].at \in {"insert", "mail", "confirm"} =>
              issued'[req'[q].token] = req'[q].email
      BY <2>1, <2>2, <2>3, RequestFacts DEF Drawn, SubTypeOK
    <3>3. \A u \in confirmable' : issued'[u] \in Addresses
      BY <1>1, <2>1, <2>2 DEF SignUp, Drawn, SubTypeOK
    <3> QED
      BY <3>1, <3>2, <3>3 DEF Drawn
  <2>6. Opted'
    <3>1. \A q \in Readers : req'[q].at = "confirm" => req'[q].email \in opted
      BY <2>3 DEF Opted
    <3>2. ASSUME NEW q \in Readers, req'[q].at = "send", NEW u \in req'[q].left
          PROVE  issued'[u] \in opted
      <4>1. q # r /\ req'[q] = req[q]
        BY <2>3, <3>2
      <4>2. u \in Tokens /\ issued[u] \in opted
        BY <3>2, <4>1, RequestFacts DEF Opted, SubTypeOK
      <4> QED
        BY <4>2, <2>1, <2>2 DEF SubTypeOK
    <3>3. \A u \in leavable : issued'[u] \in opted
      BY <2>1, <2>2 DEF Opted, SubTypeOK
    <3> QED
      BY <1>1, <3>1, <3>2, <3>3 DEF Opted, SignUp
  <2> QED
    BY <2>4, <2>5, <2>6
<1>2. ASSUME NEW r \in Readers, SubInsert(r)
      PROVE  SubInv'
  <2> DEFINE e == req[r].email
             t == req[r].token
  <2>1. e \in Addresses /\ t \in Tokens /\ issued[t] = e
    BY <1>2, RequestFacts DEF SubInsert, Drawn, SubTypeOK
  <2>2. row' \in [Addresses -> SubRow \union {Missing}]
    BY <1>2, <2>1, ListFacts DEF SubInsert, Inserted, SubTypeOK
  <2>3. \A f \in Addresses : row'[f] = row[f] \/ (f = e /\ row'[f] = [token |-> t, verified |-> FALSE])
    BY <1>2, <2>1 DEF SubInsert, Inserted, SubTypeOK
  <2>4. req[r] = [at |-> "insert", email |-> e, token |-> t]
    BY <1>2, RequestFacts DEF SubInsert, SubTypeOK
  <2>5. req'[r] = SubFree \/ req'[r] = [at |-> "mail", email |-> e, token |-> t]
    BY <1>2, <2>4 DEF SubInsert, Becomes, SubTypeOK
  <2>6. \A q \in Readers \ {r} : req'[q] = req[q]
    BY <1>2 DEF SubInsert, Becomes, SubTypeOK
  <2>7. req' \in [Readers -> SubJob]
    <3>1. req'[r] \in SubJob
      BY <2>1, <2>5, RequestFacts
    <3>2. req' = [req EXCEPT ![r] = req'[r]]
      BY <1>2 DEF SubInsert, Becomes, SubTypeOK
    <3> QED
      BY <3>1, <3>2 DEF SubTypeOK
  <2>8. SubTypeOK'
    BY <1>2, <2>2, <2>7 DEF SubInsert, SubTypeOK
  <2>9. Drawn'
    BY <1>2, <2>1, <2>3, <2>5, <2>6, RequestFacts DEF SubInsert, Drawn, Listed
  <2>10. Opted'
    BY <1>2, <2>3, <2>5, <2>6, RequestFacts DEF SubInsert, Opted
  <2> QED
    BY <2>8, <2>9, <2>10
<1>3. ASSUME NEW r \in Readers, SendConfirmation(r)
      PROVE  SubInv'
  <2>1. req[r].token \in Tokens /\ issued[req[r].token] \in Addresses
    BY <1>3, RequestFacts DEF SendConfirmation, Drawn, SubTypeOK
  <2>2. SubTypeOK'
    BY <1>3, <2>1, RequestFacts DEF SendConfirmation, Becomes, SubTypeOK
  <2>3. Drawn'
    BY <1>3, <2>1, RequestFacts DEF SendConfirmation, Becomes, Drawn, Listed, SubTypeOK
  <2>4. Opted'
    BY <1>3, RequestFacts DEF SendConfirmation, Becomes, Opted, SubTypeOK
  <2> QED
    BY <2>2, <2>3, <2>4
<1>4. ASSUME NEW r \in Readers, NEW t \in Tokens, OpenConfirmation(r, t)
      PROVE  SubInv'
  <2>1. issued[t] \in Addresses /\ opted' = opted \union {issued[t]}
    BY <1>4 DEF OpenConfirmation, Drawn
  <2>2. \/ req' = req
        \/ \E e \in Addresses : e = issued[t] /\ req' = [req EXCEPT ![r] = [at |-> "confirm", email |-> e, token |-> t]]
    BY <1>4, ListedRow DEF OpenConfirmation, Drawn, Becomes
  <2>3. SubTypeOK'
    <3>1. opted' \subseteq Addresses
      BY <2>1 DEF SubTypeOK
    <3>2. t \in Tokens
      OBVIOUS
    <3>3. req' \in [Readers -> SubJob]
      BY <2>2, RequestFacts DEF SubTypeOK
    <3> QED
      BY <1>4, <3>1, <3>3 DEF OpenConfirmation, SubTypeOK
  <2>4. Drawn'
    BY <1>4, <2>2 DEF OpenConfirmation, Drawn, Listed, SubTypeOK
  <2>5. Opted'
    BY <1>4, <2>1, <2>2 DEF OpenConfirmation, Opted, SubTypeOK
  <2> QED
    BY <2>3, <2>4, <2>5
<1>5. ASSUME NEW r \in Readers, Confirm(r)
      PROVE  SubInv'
  <2> DEFINE e == req[r].email
  <2>1. e \in Addresses /\ e \in opted
    BY <1>5, RequestFacts DEF Confirm, Opted, SubTypeOK
  <2>2. /\ row' \in [Addresses -> SubRow \union {Missing}]
        /\ \A f \in Addresses : /\ row'[f].token = row[f].token /\ (row'[f] = Missing <=> row[f] = Missing)
                                /\ row'[f].verified => row[f].verified \/ f = e
    <3>1. CASE Listed(e)
      BY <1>5, <2>1, <3>1, VerifiedRow, ListFacts DEF Confirm, Listed
    <3>2. CASE ~Listed(e)
      BY <1>5, <3>2 DEF Confirm, SubTypeOK
    <3> QED
      BY <3>1, <3>2
  <2>3. SubTypeOK'
    BY <1>5, <2>2, RequestFacts DEF Confirm, Becomes, SubTypeOK
  <2>4. Drawn'
    BY <1>5, <2>2, RequestFacts DEF Confirm, Becomes, Drawn, Listed, SubTypeOK
  <2>5. Opted'
    BY <1>5, <2>1, <2>2, RequestFacts DEF Confirm, Becomes, Opted, SubTypeOK
  <2> QED
    BY <2>3, <2>4, <2>5
<1>6. ASSUME NEW t \in Tokens, Leave(t)
      PROVE  SubInv'
  <2>1. SubTypeOK'
    BY <1>6 DEF Leave, SubTypeOK
  <2>2. Drawn'
    BY <1>6 DEF Leave, Drawn, Listed, SubTypeOK
  <2>3. Opted'
    BY <1>6, ListFacts DEF Leave, Opted, SubTypeOK
  <2> QED
    BY <2>1, <2>2, <2>3
<1>7. ASSUME NEW e \in Addresses, VerifyByHand(e)
      PROVE  SubInv'
  <2>1. SubTypeOK'
    BY <1>7, VerifiedRow DEF VerifyByHand, SubTypeOK
  <2>2. \A f \in Addresses : row'[f].token = row[f].token /\ (Listed(f)' => Listed(f))
    BY <1>7, VerifiedRow DEF VerifyByHand, Listed
  <2>3. Drawn'
    BY <1>7, <2>2 DEF VerifyByHand, Drawn
  <2>4. Opted'
    BY <1>7, VerifiedRow DEF VerifyByHand, Opted
  <2> QED
    BY <2>1, <2>3, <2>4
<1>8. ASSUME NEW e \in Addresses, DeleteSubscriber(e)
      PROVE  SubInv'
  <2>1. SubTypeOK'
    BY <1>8 DEF DeleteSubscriber, SubTypeOK
  <2>2. Drawn'
    BY <1>8 DEF DeleteSubscriber, Drawn, Listed, SubTypeOK
  <2>3. Opted'
    BY <1>8, ListFacts DEF DeleteSubscriber, Opted, SubTypeOK
  <2> QED
    BY <2>1, <2>2, <2>3
<1>9. ASSUME NukeUnverified
      PROVE  SubInv'
  <2>1. SubTypeOK'
    BY <1>9 DEF NukeUnverified, SubTypeOK
  <2>2. Drawn'
    BY <1>9 DEF NukeUnverified, Drawn, Listed, SubTypeOK
  <2>3. Opted'
    BY <1>9, ListFacts DEF NukeUnverified, Opted, SubTypeOK
  <2> QED
    BY <2>1, <2>2, <2>3
<1>10. ASSUME NEW r \in Readers, OpenBroadcast(r)
       PROVE  SubInv'
  <2>1. VerifiedTokens \in SUBSET Tokens
    BY ListedRow DEF VerifiedTokens
  <2>2. \A t \in VerifiedTokens : issued[t] \in opted
    BY ListedRow DEF VerifiedTokens, Drawn, Opted
  <2>3. SubTypeOK'
    BY <1>10, <2>1, RequestFacts DEF OpenBroadcast, Becomes, SubTypeOK
  <2>4. Drawn'
    BY <1>10 DEF OpenBroadcast, Becomes, Drawn, Listed, SubTypeOK
  <2>5. Opted'
    BY <1>10, <2>2 DEF OpenBroadcast, Becomes, Opted, SubTypeOK
  <2> QED
    BY <2>3, <2>4, <2>5
<1>11. ASSUME NEW r \in Readers, NEW t \in Tokens, SendToOne(r, t)
       PROVE  SubInv'
  <2>1. req[r] = [at |-> "send", left |-> req[r].left] /\ req[r].left \in SUBSET Tokens
    BY <1>11, RequestFacts DEF SendToOne, SubTypeOK
  <2>2. req'[r] = SubFree \/ req'[r] = [at |-> "send", left |-> req[r].left \ {t}]
    BY <1>11, <2>1 DEF SendToOne, Becomes, SubTypeOK
  <2>3. \A q \in Readers \ {r} : req'[q] = req[q]
    BY <1>11 DEF SendToOne, Becomes, SubTypeOK
  <2>4. req' \in [Readers -> SubJob]
    BY <1>11, <2>1, <2>2, <2>3, RequestFacts DEF SendToOne, Becomes, SubTypeOK
  <2>5. SubTypeOK'
    BY <1>11, <2>4 DEF SendToOne, SubTypeOK
  <2>6. Drawn'
    BY <1>11, <2>2, <2>3, RequestFacts DEF SendToOne, Drawn, Listed
  <2>7. issued[t] \in opted
    BY <1>11 DEF SendToOne, Opted
  <2>8. Opted'
    BY <1>11, <2>2, <2>3, <2>7, RequestFacts DEF SendToOne, Opted
  <2> QED
    BY <2>5, <2>6, <2>8
<1>12. ASSUME NEW r \in Readers, SubAbandon(r)
       PROVE  SubInv'
  <2>1. SubTypeOK'
    BY <1>12, RequestFacts DEF SubAbandon, Becomes, SubTypeOK
  <2>2. Drawn'
    BY <1>12, RequestFacts DEF SubAbandon, Becomes, Drawn, Listed, SubTypeOK
  <2>3. Opted'
    BY <1>12, RequestFacts DEF SubAbandon, Becomes, Opted, SubTypeOK
  <2> QED
    BY <2>1, <2>2, <2>3
<1> QED
  BY <1>0, <1>1, <1>2, <1>3, <1>4, <1>5, <1>6, <1>7, <1>8, <1>9, <1>10, <1>11, <1>12 DEF SubNext

-----------------------------------------------------------------------------
\* The variables of the mailing list keep their types: a token is one of those
\* drawn, a request holds an address and its token.
THEOREM SubscribersTypeCorrect == SubSpec => []SubTypeOK
<1>1. SubInv => SubTypeOK
  BY DEF SubInv
<1> QED
  BY <1>1, InitSubInv, NextSubInv, PTL DEF SubSpec

\* Whoever is on the verified list, or is mailed a message, opened a
\* confirmation of their own address or was verified by hand, however sign-ups,
\* confirmations, removals and broadcasts meet (AddSubscriber,
\* ConfirmSubscriber).
THEOREM ListIsOptIn == SubSpec => []OptIn
<1>1. SubInv => OptIn
  BY DEF SubInv, Opted, OptIn
<1> QED
  BY <1>1, InitSubInv, NextSubInv, PTL DEF SubSpec

\* A row on the list keeps its token and its confirmation, so a link that was
\* mailed goes on naming it (AddSubscriber).
THEOREM RowsAreKept == SubSpec => RowKept
<1> DEFINE KeepsRow == \A e \in Addresses : Listed(e) /\ Listed(e)' =>
                      /\ row'[e].token = row[e].token
                      /\ row[e].verified => row'[e].verified
<1>1. SubInv /\ [SubNext]_subVars => [KeepsRow]_subVars
  <2> SUFFICES ASSUME SubInv, SubNext, NEW e \in Addresses, Listed(e), Listed(e)'
               PROVE  row'[e].token = row[e].token /\ (row[e].verified => row'[e].verified)
    OBVIOUS
  <2>1. CASE row' = row
    BY <2>1
  <2>2. CASE \E r \in Readers : SubInsert(r) \/ Confirm(r)
    <3>1. PICK r \in Readers : SubInsert(r) \/ Confirm(r)
      BY <2>2
    <3>2. req[r].at \in {"insert", "confirm"} => req[r].email \in Addresses
      BY RequestFacts DEF SubInv, SubTypeOK
    <3>3. CASE SubInsert(r)
      BY <3>2, <3>3 DEF SubInsert, Inserted, SubInv, SubTypeOK, Listed
    <3>4. CASE Confirm(r)
      BY <3>2, <3>4, VerifiedRow DEF Confirm, SubInv
    <3> QED
      BY <3>1, <3>3, <3>4
  <2>3. CASE (\E t \in Tokens : Leave(t)) \/ (\E f \in Addresses : DeleteSubscriber(f)) \/ NukeUnverified
    BY <2>3 DEF Leave, DeleteSubscriber, NukeUnverified, SubInv, SubTypeOK, Listed
  <2>4. CASE \E f \in Addresses : VerifyByHand(f)
    BY <2>4, VerifiedRow DEF VerifyByHand, SubInv
  <2> QED
    BY <2>1, <2>2, <2>3, <2>4 DEF SubNext, SignUp, SendConfirmation, OpenConfirmation,
       OpenBroadcast, SendToOne, SubAbandon
<1>2. SubSpec => [][KeepsRow]_subVars
  BY <1>1, InitSubInv, NextSubInv, PTL DEF SubSpec
<1> QED
  BY <1>2 DEF RowKept

-----------------------------------------------------------------------------
(* Categories and pages. *)

CatStands(c) == CategoryThere(c) \/ c \in loose
PageStands(p) == PageThere(p) \/ p \in loose

\* What a request is to link has its ends, or they went under it.
JobStands(j) ==
    /\ j.at \in {"make", "file", "write page"} => \A c \in j.ids : CatStands(c)
    /\ j.at = "file" /\ j.what \in Pages => PageStands(j.what)

JobsStand == \A w \in Keepers : JobStands(duty[w])

TaxInv == TaxTypeOK /\ LinksStand /\ JobsStand /\ MenuCurrent

\* What a request holds.
LEMMA TaxJobs ==
    /\ TaxFree \in TaxJob /\ TaxFree.at = "idle"
    /\ [at |-> "relate"] \in TaxJob /\ [at |-> "flush"] \in TaxJob
    /\ \A c \in Cats \union {NewRow}, made \in Category :
          [at |-> "write category", id |-> c, row |-> made] \in TaxJob
    /\ \A p \in Pages \union {NewRow}, made \in StaticPage, ids \in SUBSET Cats :
          [at |-> "write page", id |-> p, row |-> made, ids |-> ids] \in TaxJob
    /\ \A x \in Files, ids \in SUBSET Cats, n \in Titles :
          [at |-> "make", what |-> x, ids |-> ids, name |-> n] \in TaxJob
    /\ \A x \in Files \union Pages, ids \in SUBSET Cats :
          [at |-> "file", what |-> x, ids |-> ids] \in TaxJob
    /\ \A j \in TaxJob :
          /\ j.at \in {"idle", "relate", "flush", "write category", "write page", "make", "file"}
          /\ j.at = "idle" => j = TaxFree
          /\ j.at = "write category" => j.id \in Cats \union {NewRow} /\ j.row \in Category
          /\ j.at = "write page" =>
                j.id \in Pages \union {NewRow} /\ j.row \in StaticPage /\ j.ids \in SUBSET Cats
          /\ j.at = "make" => j.what \in Files /\ j.ids \in SUBSET Cats /\ j.name \in Titles
          /\ j.at = "file" => j.what \in Files \union Pages /\ j.ids \in SUBSET Cats
<1>1. TaxFree.at = "idle"
  BY DEF TaxFree
<1>2. ASSUME NEW j \in TaxJob
      PROVE  /\ j.at \in {"idle", "relate", "flush", "write category", "write page", "make", "file"}
             /\ j.at = "idle" => j = TaxFree
             /\ j.at = "write category" => j.id \in Cats \union {NewRow} /\ j.row \in Category
             /\ j.at = "write page" =>
                   j.id \in Pages \union {NewRow} /\ j.row \in StaticPage /\ j.ids \in SUBSET Cats
             /\ j.at = "make" => j.what \in Files /\ j.ids \in SUBSET Cats /\ j.name \in Titles
             /\ j.at = "file" => j.what \in Files \union Pages /\ j.ids \in SUBSET Cats
  <2>1. CASE j = TaxFree
    BY <1>1, <2>1
  <2>2. CASE j = [at |-> "flush"]
    BY <2>2
  <2>7. CASE j = [at |-> "relate"]
    BY <2>7
  <2>3. CASE j \in [at : {"write category"}, id : Cats \union {NewRow}, row : Category]
    BY <2>3
  <2>4. CASE j \in [at : {"write page"}, id : Pages \union {NewRow}, row : StaticPage, ids : SUBSET Cats]
    BY <2>4
  <2>5. CASE j \in [at : {"make"}, what : Files, ids : SUBSET Cats, name : Titles]
    BY <2>5
  <2>6. CASE j \in [at : {"file"}, what : Files \union Pages, ids : SUBSET Cats]
    BY <2>6
  <2> QED
    BY <2>1, <2>2, <2>3, <2>4, <2>5, <2>6, <2>7 DEF TaxJob
<1>3. /\ TaxFree \in TaxJob /\ [at |-> "relate"] \in TaxJob /\ [at |-> "flush"] \in TaxJob
      /\ \A c \in Cats \union {NewRow}, made \in Category :
            [at |-> "write category", id |-> c, row |-> made] \in TaxJob
      /\ \A p \in Pages \union {NewRow}, made \in StaticPage, ids \in SUBSET Cats :
            [at |-> "write page", id |-> p, row |-> made, ids |-> ids] \in TaxJob
      /\ \A x \in Files, ids \in SUBSET Cats, n \in Titles :
            [at |-> "make", what |-> x, ids |-> ids, name |-> n] \in TaxJob
      /\ \A x \in Files \union Pages, ids \in SUBSET Cats :
            [at |-> "file", what |-> x, ids |-> ids] \in TaxJob
  BY DEF TaxJob
<1> QED
  BY <1>1, <1>2, <1>3

\* Rows that are there.
LEMMA TaxRows ==
    /\ Unused.is # "there" /\ Deleted.is # "there"
    /\ \A made \in Category \union StaticPage : made.is = "there"
    /\ Unused # Deleted
<1>1. Unused.is = "unused" /\ Deleted.is = "deleted"
  BY DEF Unused, Deleted
<1> QED
  BY <1>1 DEF Category, StaticPage

LEMMA TaxDoes ==
    ASSUME TaxTypeOK, NEW w \in Keepers, NEW job \in TaxJob, Does(w, job)
    PROVE  /\ duty' \in [Keepers -> TaxJob]
           /\ duty'[w] = job /\ \A v \in Keepers \ {w} : duty'[v] = duty[v]
  BY DEF Does, TaxTypeOK

\* Nothing that stands falls: what is to be linked, and what is, stands on.
LEMMA StandsOn ==
    ASSUME \A c \in Cats : CatStands(c) => CatStands(c)',
           \A p \in Pages : PageStands(p) => PageStands(p)'
    PROVE  /\ \A j \in TaxJob : JobStands(j) => JobStands(j)'
           /\ TaxTypeOK /\ LinksStand /\ link' \subseteq link => LinksStand'
<1>1. \A j \in TaxJob : JobStands(j) => JobStands(j)'
  BY TaxJobs DEF JobStands
<1>2. ASSUME TaxTypeOK, LinksStand, link' \subseteq link
      PROVE  LinksStand'
  BY <1>2 DEF LinksStand, TaxTypeOK, CatStands, PageStands, CategoryThere, PageThere
<1> QED
  BY <1>1, <1>2

\* One request goes on to a job that stands: all the others stood.
LEMMA JobsStandOn ==
    ASSUME TaxTypeOK, JobsStand, NEW w \in Keepers, NEW job \in TaxJob, Does(w, job),
           \A c \in Cats : CatStands(c) => CatStands(c)',
           \A p \in Pages : PageStands(p) => PageStands(p)',
           JobStands(job)'
    PROVE  JobsStand'
  BY TaxDoes, StandsOn DEF JobsStand, TaxTypeOK

\* A sidebar stays current when nothing it shows changes, or a drop is due.
LEMMA CurrentStays ==
    ASSUME TaxTypeOK, MenuCurrent, NEW w \in Keepers, NEW job \in TaxJob, Does(w, job),
           UNCHANGED menu, missed => missed',
           \/ job.at \in {"file", "relate", "flush"}
           \/ duty[w].at \notin {"file", "relate", "flush"} /\ UNCHANGED <<cat, static>>
           \/ missed'
    PROVE  MenuCurrent'
<1>1. duty'[w] = job /\ \A v \in Keepers \ {w} : duty'[v] = duty[v]
  BY TaxDoes
<1>2. CASE job.at \in {"file", "relate", "flush"} \/ missed'
  BY <1>1, <1>2 DEF MenuCurrent
<1>3. CASE duty[w].at \notin {"file", "relate", "flush"} /\ UNCHANGED <<cat, static>>
  <2>1. Menu' = Menu
    BY <1>3 DEF Menu, CategoryThere, PageThere
  <2> QED
    BY <1>1, <1>3, <2>1 DEF MenuCurrent
<1> QED
  BY <1>2, <1>3

LEMMA InitTaxInv == TaxInit => TaxInv
<1> SUFFICES ASSUME TaxInit PROVE TaxInv
  OBVIOUS
<1>1. TaxTypeOK
  BY TaxJobs DEF TaxInit, TaxTypeOK
<1>2. LinksStand /\ JobsStand /\ MenuCurrent
  BY TaxJobs DEF TaxInit, LinksStand, JobsStand, JobStands, MenuCurrent
<1> QED
  BY <1>1, <1>2 DEF TaxInv

\* The category screen.
LEMMA CategoryScreenInv ==
    ASSUME TaxInv, NEW w \in Keepers,
           \/ \E c \in Cats \union {NewRow}, made \in Category : OpenCategory(w, c, made)
           \/ WriteCategory(w)
           \/ \E c \in Cats : DeleteCategory(w, c)
    PROVE  TaxInv'
<1>1. ASSUME NEW c \in Cats \union {NewRow}, NEW made \in Category, OpenCategory(w, c, made)
      PROVE  TaxInv'
  <2> DEFINE job == [at |-> "write category", id |-> c, row |-> made]
  <2>1. job \in TaxJob /\ job.at = "write category" /\ Does(w, job)
    BY <1>1, TaxJobs DEF OpenCategory
  <2>2. UNCHANGED <<cat, static, link, menu, missed, loose>> /\ duty[w].at = "idle"
    BY <1>1, TaxJobs DEF OpenCategory
  <2> HIDE DEF job
  <2>3. TaxTypeOK'
    BY <2>1, <2>2, TaxDoes DEF TaxInv, TaxTypeOK
  <2>4. JobStands(job)'
    BY <2>1 DEF JobStands
  <2>5. JobsStand' /\ LinksStand'
    BY <2>1, <2>2, <2>4, JobsStandOn
    DEF TaxInv, LinksStand, CatStands, PageStands, CategoryThere, PageThere
  <2>6. MenuCurrent'
    BY <2>1, <2>2, CurrentStays DEF TaxInv
  <2> QED
    BY <2>3, <2>5, <2>6 DEF TaxInv
<1>2. ASSUME WriteCategory(w)
      PROVE  TaxInv'
  <2>1. PICK c \in Cats :
          /\ IF duty[w].id = NewRow THEN cat[c] = Unused ELSE c = duty[w].id
          /\ IF NameTaken(c, duty[w].row) \/ cat[c] = Deleted
             THEN Does(w, TaxFree) /\ UNCHANGED cat
             ELSE cat' = [cat EXCEPT ![c] = duty[w].row] /\ Does(w, [at |-> "flush"])
    BY <1>2 DEF WriteCategory
  <2>2. /\ duty[w].at = "write category" /\ UNCHANGED <<static, link, menu, missed, loose>>
        /\ duty[w].row \in Category
    BY <1>2, TaxJobs DEF WriteCategory, TaxInv, TaxTypeOK
  <2>3. PICK job \in {TaxFree, [at |-> "flush"]} :
          Does(w, job) /\ (job = TaxFree => UNCHANGED cat)
    <3>1. CASE NameTaken(c, duty[w].row) \/ cat[c] = Deleted
      BY <2>1, <3>1
    <3>2. CASE ~(NameTaken(c, duty[w].row) \/ cat[c] = Deleted)
      <4>1. Does(w, [at |-> "flush"]) /\ [at |-> "flush"] # TaxFree
        BY <2>1, <3>2 DEF TaxFree
      <4> QED
        BY <4>1
    <3> QED
      BY <3>1, <3>2
  <2>4. job \in TaxJob /\ job.at \in {"idle", "flush"} /\ (job.at = "idle" => UNCHANGED cat)
    BY <2>3, TaxJobs
  <2>5. /\ cat' \in [Cats -> Category \union {Unused, Deleted}]
        /\ \A d \in Cats : CategoryThere(d) => CategoryThere(d)'
    BY <2>1, <2>2, TaxRows DEF TaxInv, TaxTypeOK, CategoryThere
  <2>6. TaxTypeOK'
    BY <2>2, <2>3, <2>4, <2>5, TaxDoes DEF TaxInv, TaxTypeOK
  <2>7. /\ \A d \in Cats : CatStands(d) => CatStands(d)'
        /\ \A p \in Pages : PageStands(p) => PageStands(p)'
    BY <2>2, <2>5 DEF CatStands, PageStands, PageThere
  <2>8. JobsStand' /\ LinksStand'
    BY <2>2, <2>3, <2>4, <2>7, JobsStandOn, StandsOn DEF TaxInv, JobStands
  <2>9. MenuCurrent'
    BY <2>2, <2>3, <2>4, CurrentStays DEF TaxInv
  <2> QED
    BY <2>6, <2>8, <2>9 DEF TaxInv
<1>3. ASSUME NEW c \in Cats, DeleteCategory(w, c)
      PROVE  TaxInv'
  <2>1. /\ cat' = [cat EXCEPT ![c] = Deleted] /\ link' = LinksLeft(c)
        /\ loose' = loose \union ({c} \intersect HeldCats)
        /\ Does(w, [at |-> "flush"]) /\ UNCHANGED <<static, menu, missed>>
    BY <1>3 DEF DeleteCategory
  <2> DEFINE job == [at |-> "flush"]
  <2>2. job \in TaxJob /\ job.at = "flush"
    BY TaxJobs
  <2> HIDE DEF job
  <2>3. /\ duty' \in [Keepers -> TaxJob]
        /\ duty'[w] = job /\ \A v \in Keepers \ {w} : duty'[v] = duty[v]
    BY <2>1, <2>2, TaxDoes DEF TaxInv, job
  <2>4. TaxTypeOK'
    BY <2>1, <2>3 DEF TaxInv, TaxTypeOK, LinksLeft
  <2>5. /\ \A d \in Cats \ {c} : CatStands(d) => CatStands(d)'
        /\ \A p \in Pages : PageStands(p) => PageStands(p)'
    BY <2>1 DEF CatStands, PageStands, CategoryThere, PageThere, TaxInv, TaxTypeOK
  <2>6. LinksStand'
    BY <2>1, <2>5 DEF TaxInv, TaxTypeOK, LinksStand, LinksLeft, CatStands, PageStands
  <2>7. ASSUME NEW v \in Keepers PROVE JobStands(duty[v])'
    <3>1. CASE v = w
      BY <2>2, <2>3, <3>1 DEF JobStands
    <3>2. CASE v # w
      <4>1. duty'[v] = duty[v] /\ duty[v] \in TaxJob /\ JobStands(duty[v])
        BY <2>3, <3>2 DEF TaxInv, TaxTypeOK, JobsStand
      <4>2. ASSUME duty[v].at \in {"make", "file", "write page"}, NEW d \in duty[v].ids
            PROVE  CatStands(d)'
        <5>1. d \in Cats /\ CatStands(d)
          BY <4>1, <4>2, TaxJobs DEF JobStands
        <5>2. d \in HeldCats
          BY <4>2 DEF HeldCats
        <5> QED
          BY <2>1, <2>5, <5>1, <5>2 DEF CatStands
      <4>3. duty[v].at = "file" /\ duty[v].what \in Pages => PageStands(duty[v].what)'
        BY <2>1, <4>1 DEF JobStands, PageStands, PageThere
      <4> QED
        BY <4>1, <4>2, <4>3 DEF JobStands
    <3> QED
      BY <3>1, <3>2
  <2>8. JobsStand'
    BY <2>7 DEF JobsStand
  <2>9. MenuCurrent'
    BY <2>1, <2>2, CurrentStays DEF TaxInv, job
  <2> QED
    BY <2>4, <2>6, <2>8, <2>9 DEF TaxInv
<1> QED
  BY <1>1, <1>2, <1>3

\* The page screen.
LEMMA PageScreenInv ==
    ASSUME TaxInv, NEW w \in Keepers,
           \/ \E p \in Pages \union {NewRow}, made \in StaticPage, ids \in SUBSET Cats :
                 OpenPage(w, p, made, ids)
           \/ WritePage(w)
           \/ \E p \in Pages : DeletePage(w, p)
    PROVE  TaxInv'
<1>1. ASSUME NEW p \in Pages \union {NewRow}, NEW made \in StaticPage, NEW ids \in SUBSET Cats,
             OpenPage(w, p, made, ids)
      PROVE  TaxInv'
  <2> DEFINE job == [at |-> "write page", id |-> p, row |-> made, ids |-> ids]
  <2>1. job \in TaxJob /\ job.at = "write page" /\ job.ids = ids /\ Does(w, job)
    BY <1>1, TaxJobs DEF OpenPage
  <2>2. /\ UNCHANGED <<cat, static, link, menu, missed>> /\ duty[w].at = "idle"
        /\ loose' = loose \union {c \in ids : ~CategoryThere(c)}
    BY <1>1, TaxJobs DEF OpenPage
  <2> HIDE DEF job
  <2>3. TaxTypeOK'
    BY <2>1, <2>2, TaxDoes DEF TaxInv, TaxTypeOK
  <2>4. /\ \A d \in Cats : CatStands(d) => CatStands(d)'
        /\ \A q \in Pages : PageStands(q) => PageStands(q)'
    BY <2>2 DEF CatStands, PageStands, CategoryThere, PageThere
  <2>5. \A d \in ids : CatStands(d)'
    BY <2>2 DEF CatStands, CategoryThere
  <2>6. JobStands(job)'
    BY <2>1, <2>5 DEF JobStands
  <2>7. JobsStand' /\ LinksStand'
    BY <2>1, <2>2, <2>4, <2>6, JobsStandOn, StandsOn DEF TaxInv
  <2>8. MenuCurrent'
    BY <2>1, <2>2, CurrentStays DEF TaxInv
  <2> QED
    BY <2>3, <2>7, <2>8 DEF TaxInv
<1>2. ASSUME WritePage(w)
      PROVE  TaxInv'
  <2>1. PICK p \in Pages :
          /\ IF duty[w].id = NewRow THEN static[p] = Unused ELSE p = duty[w].id
          /\ IF AliasTaken(p, duty[w].row) \/ static[p] = Deleted
             THEN Does(w, TaxFree) /\ UNCHANGED static
             ELSE /\ static' = [static EXCEPT ![p] = duty[w].row]
                  /\ Does(w, [at |-> "file", what |-> p, ids |-> duty[w].ids])
    BY <1>2 DEF WritePage
  <2>2. /\ duty[w].at = "write page" /\ UNCHANGED <<cat, link, menu, missed, loose>>
        /\ duty[w].row \in StaticPage /\ duty[w].ids \in SUBSET Cats /\ JobStands(duty[w])
    BY <1>2, TaxJobs DEF WritePage, TaxInv, TaxTypeOK, JobsStand
  <2>3. /\ static' \in [Pages -> StaticPage \union {Unused, Deleted}]
        /\ \A q \in Pages : PageThere(q) => PageThere(q)'
    BY <2>1, <2>2, TaxRows DEF TaxInv, TaxTypeOK, PageThere
  <2>4. /\ \A d \in Cats : CatStands(d) <=> CatStands(d)'
        /\ \A q \in Pages : PageStands(q) => PageStands(q)'
    BY <2>2, <2>3 DEF CatStands, PageStands, CategoryThere
  <2>5. CASE AliasTaken(p, duty[w].row) \/ static[p] = Deleted
    <3>1. Does(w, TaxFree) /\ UNCHANGED static /\ TaxFree \in TaxJob /\ TaxFree.at = "idle"
      BY <2>1, <2>5, TaxJobs
    <3>2. TaxTypeOK'
      BY <2>2, <3>1, TaxDoes DEF TaxInv, TaxTypeOK
    <3>3. JobsStand' /\ LinksStand'
      BY <2>2, <2>4, <3>1, JobsStandOn, StandsOn DEF TaxInv, JobStands
    <3>4. MenuCurrent'
      BY <2>2, <3>1, CurrentStays DEF TaxInv
    <3> QED
      BY <3>2, <3>3, <3>4 DEF TaxInv
  <2>6. CASE ~(AliasTaken(p, duty[w].row) \/ static[p] = Deleted)
    <3>0. PICK job \in TaxJob : job = [at |-> "file", what |-> p, ids |-> duty[w].ids]
      BY <2>2, TaxJobs
    <3>1. static' = [static EXCEPT ![p] = duty[w].row] /\ Does(w, job)
      BY <2>1, <2>6, <3>0
    <3>2. job.at = "file" /\ job.what = p /\ job.ids = duty[w].ids
      BY <3>0
    <3>3. PageStands(p)'
      BY <2>2, <3>1, TaxRows DEF PageStands, PageThere, TaxInv, TaxTypeOK
    <3>4. \A d \in duty[w].ids : CatStands(d)'
      BY <2>2, <2>4 DEF JobStands
    <3>5. JobStands(job)'
      <4>1. \A d \in job.ids : CatStands(d)'
        BY <3>2, <3>4
      <4> QED
        BY <3>2, <3>3, <4>1 DEF JobStands
    <3>6. TaxTypeOK'
      BY <2>2, <2>3, <3>1, <3>2, TaxDoes DEF TaxInv, TaxTypeOK
    <3>7. JobsStand' /\ LinksStand'
      BY <2>2, <2>4, <3>1, <3>2, <3>5, JobsStandOn, StandsOn DEF TaxInv
    <3>8. MenuCurrent'
      BY <2>2, <3>1, <3>2, CurrentStays DEF TaxInv
    <3> QED
      BY <3>6, <3>7, <3>8 DEF TaxInv
  <2> QED
    BY <2>5, <2>6
<1>3. ASSUME NEW p \in Pages, DeletePage(w, p)
      PROVE  TaxInv'
  <2> DEFINE job == [at |-> "flush"]
  <2>1. /\ static' = [static EXCEPT ![p] = Deleted] /\ link' = {l \in link : l[1] # p}
        /\ loose' = loose \union ({p} \intersect HeldPages)
        /\ Does(w, job) /\ UNCHANGED <<cat, menu, missed>>
    BY <1>3 DEF DeletePage
  <2>2. job \in TaxJob /\ job.at = "flush"
    BY TaxJobs
  <2> HIDE DEF job
  <2>3. /\ duty' \in [Keepers -> TaxJob]
        /\ duty'[w] = job /\ \A v \in Keepers \ {w} : duty'[v] = duty[v]
    BY <2>1, <2>2, TaxDoes DEF TaxInv
  <2>4. TaxTypeOK'
    BY <2>1, <2>3 DEF TaxInv, TaxTypeOK
  <2>5. /\ \A d \in Cats : CatStands(d) => CatStands(d)'
        /\ \A q \in Pages \ {p} : PageStands(q) => PageStands(q)'
    BY <2>1 DEF CatStands, PageStands, CategoryThere, PageThere, TaxInv, TaxTypeOK
  <2>6. LinksStand'
    BY <2>1, <2>5 DEF TaxInv, TaxTypeOK, LinksStand, CatStands, PageStands
  <2>7. ASSUME NEW v \in Keepers PROVE JobStands(duty[v])'
    <3>1. CASE v = w
      BY <2>2, <2>3, <3>1 DEF JobStands
    <3>2. CASE v # w
      <4>1. duty'[v] = duty[v] /\ duty[v] \in TaxJob /\ JobStands(duty[v])
        BY <2>3, <3>2 DEF TaxInv, TaxTypeOK, JobsStand
      <4>2. ASSUME duty[v].at \in {"make", "file", "write page"}
            PROVE  \A d \in duty[v].ids : CatStands(d)'
        BY <2>5, <4>1, <4>2, TaxJobs DEF JobStands
      <4>3. ASSUME duty[v].at = "file", duty[v].what \in Pages
            PROVE  PageStands(duty[v].what)'
        <5>0. PICK q \in Pages : q = duty[v].what
          BY <4>3
        <5>1. PageStands(q) /\ q \in HeldPages
          BY <4>1, <4>3, <5>0 DEF JobStands, HeldPages
        <5>2. PageStands(q)'
          BY <2>1, <2>5, <5>1 DEF PageStands
        <5> QED
          BY <4>1, <5>0, <5>2 DEF PageStands, PageThere
      <4> QED
        BY <4>1, <4>2, <4>3 DEF JobStands
    <3> QED
      BY <3>1, <3>2
  <2>8. JobsStand'
    BY <2>7 DEF JobsStand
  <2>9. MenuCurrent'
    BY <2>1, <2>2, CurrentStays DEF TaxInv
  <2> QED
    BY <2>4, <2>6, <2>8, <2>9 DEF TaxInv
<1> QED
  BY <1>1, <1>2, <1>3

\* Filing an entry.
LEMMA FilingInv ==
    ASSUME TaxInv, NEW w \in Keepers,
           \/ \E x \in Files, ids \in SUBSET Cats, name \in Titles \union {"none"} :
                 OpenFiling(w, x, ids, name)
           \/ MakeCategory(w) \/ File(w) \/ RelateFiled(w)
           \/ \E x \in Files, ids \in SUBSET Cats : FileUnchecked(w, x, ids)
    PROVE  TaxInv'
<1>1. ASSUME NEW x \in Files, NEW ids \in SUBSET Cats, NEW name \in Titles \union {"none"},
             OpenFiling(w, x, ids, name)
      PROVE  TaxInv'
  <2> DEFINE known == {c \in Cats : CategoryThere(c) /\ cat[c].name = name}
  <2>1. PICK job \in TaxJob :
          /\ Does(w, job) /\ job.at \in {"make", "file"} /\ job.what = x
          /\ job.ids \subseteq ids \union known
    <3>1. CASE name \in Titles /\ known = {}
      <4> DEFINE job == [at |-> "make", what |-> x, ids |-> ids, name |-> name]
      <4>1. Does(w, job) /\ job \in TaxJob
        BY <1>1, <3>1, TaxJobs DEF OpenFiling
      <4> QED
        BY <4>1
    <3>2. CASE ~(name \in Titles /\ known = {})
      <4> DEFINE job == [at |-> "file", what |-> x, ids |-> ids \union known]
      <4>1. Does(w, job)
        BY <1>1, <3>2 DEF OpenFiling
      <4>2. ids \union known \in SUBSET Cats
        OBVIOUS
      <4>3. job \in TaxJob
        BY <4>2, TaxJobs
      <4> QED
        BY <4>1, <4>3
    <3> QED
      BY <3>1, <3>2
  <2>2. /\ UNCHANGED <<cat, static, link, menu, missed, loose>> /\ duty[w].at = "idle"
        /\ \A c \in ids : CategoryThere(c)
    BY <1>1, TaxJobs DEF OpenFiling
  <2>3. \A c \in job.ids : CatStands(c)'
    BY <2>1, <2>2 DEF CatStands, CategoryThere
  <2> HIDE DEF known
  <2>4. JobStands(job)'
    BY <2>1, <2>3, TaxonomyAssumption DEF JobStands
  <2>5. TaxTypeOK'
    BY <2>1, <2>2, TaxDoes DEF TaxInv, TaxTypeOK
  <2>6. JobsStand' /\ LinksStand'
    BY <2>1, <2>2, <2>4, JobsStandOn
    DEF TaxInv, LinksStand, CatStands, PageStands, CategoryThere, PageThere
  <2>7. MenuCurrent'
    BY <2>1, <2>2, CurrentStays DEF TaxInv
  <2> QED
    BY <2>5, <2>6, <2>7 DEF TaxInv
<1>2. ASSUME MakeCategory(w)
      PROVE  TaxInv'
  <2>0. /\ duty[w] \in TaxJob /\ duty[w].at = "make" /\ duty[w].what \in Files
        /\ duty[w].ids \in SUBSET Cats /\ duty[w].name \in Titles /\ JobStands(duty[w])
        /\ UNCHANGED <<static, link, menu, missed, loose>>
    BY <1>2, TaxJobs DEF MakeCategory, TaxInv, TaxTypeOK, JobsStand
  <2> DEFINE made == [is |-> "there", name |-> duty[w].name, slug |-> SlugOf[duty[w].name]]
             same == {c \in Cats : CategoryThere(c) /\ cat[c].slug = made.slug}
  <2>1. made \in Category
    BY <2>0, TaxonomyAssumption DEF Category
  <2>2. \/ /\ \E c \in Cats :
               /\ cat[c] = Unused
               /\ cat' = [cat EXCEPT ![c] = made]
               /\ Does(w, [at |-> "file", what |-> duty[w].what, ids |-> duty[w].ids \union {c}])
        \/ /\ Does(w, IF same = {} THEN TaxFree
                       ELSE [at |-> "file", what |-> duty[w].what, ids |-> duty[w].ids \union same])
           /\ UNCHANGED cat
    BY <1>2 DEF MakeCategory
  <2>3. CASE \E c \in Cats :
               /\ cat[c] = Unused
               /\ cat' = [cat EXCEPT ![c] = made]
               /\ Does(w, [at |-> "file", what |-> duty[w].what, ids |-> duty[w].ids \union {c}])
    <3>1. PICK c \in Cats :
               /\ cat[c] = Unused
               /\ cat' = [cat EXCEPT ![c] = made]
               /\ Does(w, [at |-> "file", what |-> duty[w].what, ids |-> duty[w].ids \union {c}])
      BY <2>3
    <3>2. duty[w].ids \union {c} \in SUBSET Cats
      BY <2>0
    <3>3. PICK job \in TaxJob :
            job = [at |-> "file", what |-> duty[w].what, ids |-> duty[w].ids \union {c}]
      BY <2>0, <3>2, TaxJobs
    <3>4. Does(w, job) /\ job.at = "file" /\ job.what \in Files /\ job.ids = duty[w].ids \union {c}
      BY <2>0, <3>1, <3>3
    <3>5. /\ cat' \in [Cats -> Category \union {Unused, Deleted}]
          /\ \A d \in Cats : CategoryThere(d) => CategoryThere(d)'
          /\ CategoryThere(c)'
      BY <2>1, <3>1, TaxRows DEF TaxInv, TaxTypeOK, CategoryThere
    <3>6. /\ \A d \in Cats : CatStands(d) => CatStands(d)'
          /\ \A q \in Pages : PageStands(q) => PageStands(q)'
          /\ CatStands(c)'
      BY <2>0, <3>5 DEF CatStands, PageStands, PageThere
    <3>7. \A d \in job.ids : CatStands(d)'
      BY <2>0, <3>4, <3>6 DEF JobStands
    <3>8. JobStands(job)'
      BY <3>4, <3>7, TaxonomyAssumption DEF JobStands
    <3>9. TaxTypeOK'
      BY <2>0, <3>4, <3>5, TaxDoes DEF TaxInv, TaxTypeOK
    <3>10. JobsStand' /\ LinksStand'
      BY <2>0, <3>4, <3>6, <3>8, JobsStandOn, StandsOn DEF TaxInv
    <3>11. MenuCurrent'
      BY <2>0, <3>4, CurrentStays DEF TaxInv
    <3> QED
      BY <3>9, <3>10, <3>11 DEF TaxInv
  <2>4. CASE /\ Does(w, IF same = {} THEN TaxFree
                       ELSE [at |-> "file", what |-> duty[w].what, ids |-> duty[w].ids \union same])
             /\ UNCHANGED cat
    <3>1. duty[w].ids \union same \in SUBSET Cats
      BY <2>0
    <3>2. PICK job \in TaxJob :
            /\ Does(w, job)
            /\ \/ job = TaxFree
               \/ job = [at |-> "file", what |-> duty[w].what, ids |-> duty[w].ids \union same]
      BY <2>0, <2>4, <3>1, TaxJobs
    <3>3. /\ \A d \in Cats : CatStands(d) <=> CatStands(d)'
          /\ \A q \in Pages : PageStands(q) => PageStands(q)'
      BY <2>0, <2>4 DEF CatStands, PageStands, CategoryThere, PageThere
    <3>4. JobStands(job)'
      <4>1. CASE job = TaxFree
        BY <4>1, TaxJobs DEF JobStands
      <4>2. CASE job = [at |-> "file", what |-> duty[w].what, ids |-> duty[w].ids \union same]
        <5>1. job.at = "file" /\ job.what \in Files /\ job.ids = duty[w].ids \union same
          BY <2>0, <4>2
        <5>2. \A d \in job.ids : CatStands(d)
          BY <2>0, <5>1 DEF JobStands, CatStands
        <5>3. \A d \in job.ids : CatStands(d)'
          BY <3>1, <3>3, <5>1, <5>2
        <5> QED
          BY <5>1, <5>3, TaxonomyAssumption DEF JobStands
      <4> QED
        BY <3>2, <4>1, <4>2
    <3>5. TaxTypeOK'
      BY <2>0, <2>4, <3>2, TaxDoes DEF TaxInv, TaxTypeOK
    <3>6. JobsStand' /\ LinksStand'
      BY <2>0, <3>2, <3>3, <3>4, JobsStandOn, StandsOn DEF TaxInv
    <3>7. MenuCurrent'
      BY <2>0, <2>4, <3>2, CurrentStays, TaxJobs DEF TaxInv
    <3> QED
      BY <3>5, <3>6, <3>7 DEF TaxInv
  <2> HIDE DEF made, same
  <2> QED
    BY <2>2, <2>3, <2>4
<1>3. ASSUME NEW x \in Files \union Pages, NEW ids \in SUBSET Cats,
             NEW to \in {"relate", "flush"}, link' = Filed(x, ids), Does(w, [at |-> to]),
             UNCHANGED <<cat, static, menu, missed>>, loose \subseteq loose',
             loose' \subseteq Cats \union Pages,
             \A c \in ids : CatStands(c)', x \in Pages => PageStands(x)'
      PROVE  TaxInv'
  <2> DEFINE job == [at |-> to]
  <2>1. job \in TaxJob /\ job.at \in {"relate", "flush"}
    BY TaxJobs
  <2>2. Does(w, job)
    BY <1>3
  <2> HIDE DEF job
  <2>3. /\ \A d \in Cats : CatStands(d) => CatStands(d)'
        /\ \A q \in Pages : PageStands(q) => PageStands(q)'
    BY <1>3 DEF CatStands, PageStands, CategoryThere, PageThere
  <2>4. link' \subseteq (Files \union Pages) \X Cats
    BY <1>3 DEF Filed, TaxInv, TaxTypeOK
  <2>5. TaxTypeOK'
    BY <1>3, <2>1, <2>2, <2>4, TaxDoes DEF TaxInv, TaxTypeOK
  <2>6. ASSUME NEW l \in link'
        PROVE  /\ CategoryThere(l[2])' \/ l[2] \in loose'
               /\ l[1] \in Pages => PageThere(l[1])' \/ l[1] \in loose'
    <3>1. CASE l \in link
      BY <2>3, <2>4, <3>1 DEF TaxInv, LinksStand, CatStands, PageStands
    <3>2. CASE l \in {x} \X ids
      BY <1>3, <3>2 DEF CatStands, PageStands
    <3> QED
      BY <1>3, <3>1, <3>2 DEF Filed
  <2>7. LinksStand'
    BY <2>6 DEF LinksStand
  <2>8. JobStands(job)'
    BY <2>1 DEF JobStands
  <2>9. JobsStand'
    BY <2>1, <2>2, <2>3, <2>8, JobsStandOn DEF TaxInv
  <2>10. MenuCurrent'
    BY <1>3, <2>1, <2>2, CurrentStays DEF TaxInv
  <2> QED
    BY <2>5, <2>7, <2>9, <2>10 DEF TaxInv
<1>4. ASSUME File(w)
      PROVE  TaxInv'
  <2>1. /\ duty[w].at = "file" /\ duty[w].what \in Files \union Pages /\ duty[w].ids \in SUBSET Cats
        /\ JobStands(duty[w]) /\ loose \subseteq Cats \union Pages
    BY <1>4, TaxJobs DEF File, TaxInv, TaxTypeOK, JobsStand
  <2>2. PICK x \in Files \union Pages, ids \in SUBSET Cats : x = duty[w].what /\ ids = duty[w].ids
    BY <2>1
  <2>3. PICK to \in {"relate", "flush"} :
          /\ link' = Filed(x, ids) /\ Does(w, [at |-> to])
          /\ UNCHANGED <<cat, static, menu, missed, loose>>
    BY <1>4, <2>2 DEF File
  <2>4. (\A c \in ids : CatStands(c)') /\ (x \in Pages => PageStands(x)')
    BY <2>1, <2>2, <2>3 DEF JobStands, CatStands, PageStands, CategoryThere, PageThere
  <2> QED
    BY <1>3, <2>1, <2>3, <2>4
<1>5. ASSUME NEW x \in Files, NEW ids \in SUBSET Cats, FileUnchecked(w, x, ids)
      PROVE  TaxInv'
  <2>1. /\ link' = Filed(x, ids) /\ Does(w, [at |-> "flush"])
        /\ UNCHANGED <<cat, static, menu, missed>>
        /\ loose' = loose \union {c \in ids : ~CategoryThere(c)}
        /\ loose \subseteq Cats \union Pages
    BY <1>5 DEF FileUnchecked, TaxInv, TaxTypeOK
  <2>2. \A c \in ids : CatStands(c)'
    BY <2>1 DEF CatStands, CategoryThere
  <2> QED
    BY <1>3, <2>1, <2>2, TaxonomyAssumption
<1>6. ASSUME RelateFiled(w)
      PROVE  TaxInv'
  <2> DEFINE job == [at |-> "flush"]
  <2>1. job \in TaxJob /\ job.at = "flush" /\ Does(w, job)
    BY <1>6, TaxJobs DEF RelateFiled
  <2>2. UNCHANGED <<cat, static, link, menu, missed, loose>>
    BY <1>6 DEF RelateFiled
  <2> HIDE DEF job
  <2>3. TaxTypeOK'
    BY <2>1, <2>2, TaxDoes DEF TaxInv, TaxTypeOK
  <2>4. JobStands(job)'
    BY <2>1 DEF JobStands
  <2>5. JobsStand' /\ LinksStand'
    BY <2>1, <2>2, <2>4, JobsStandOn
    DEF TaxInv, LinksStand, CatStands, PageStands, CategoryThere, PageThere
  <2>6. MenuCurrent'
    BY <2>1, <2>2, CurrentStays DEF TaxInv
  <2> QED
    BY <2>3, <2>5, <2>6 DEF TaxInv
<1> QED
  BY <1>1, <1>2, <1>4, <1>5, <1>6

LEMMA NextTaxInv == TaxInv /\ [TaxNext]_taxVars => TaxInv'
<1> SUFFICES ASSUME TaxInv, [TaxNext]_taxVars PROVE TaxInv'
  OBVIOUS
<1>1. CASE UNCHANGED taxVars
  <2>1. UNCHANGED <<cat, static, link, duty, menu, missed, loose>>
    BY <1>1 DEF taxVars
  <2>2. TaxTypeOK' /\ LinksStand' /\ JobsStand'
    BY <2>1
    DEF TaxInv, TaxTypeOK, LinksStand, JobsStand, JobStands, CatStands, PageStands,
        CategoryThere, PageThere
  <2>3. MenuCurrent'
    BY <2>1 DEF TaxInv, MenuCurrent, Menu, CategoryThere, PageThere
  <2> QED
    BY <2>2, <2>3 DEF TaxInv
<1>2. ASSUME NEW w \in Keepers, Drop(w)
      PROVE  TaxInv'
  <2>1. /\ menu' = NoMenu /\ missed' = FALSE /\ Does(w, TaxFree)
        /\ UNCHANGED <<cat, static, link, loose>> /\ TaxFree \in TaxJob /\ TaxFree.at = "idle"
    BY <1>2, TaxJobs DEF Drop
  <2>2. TaxTypeOK'
    BY <2>1, TaxDoes DEF TaxInv, TaxTypeOK
  <2>3. JobsStand' /\ LinksStand'
    BY <2>1, JobsStandOn
    DEF TaxInv, LinksStand, JobStands, CatStands, PageStands, CategoryThere, PageThere
  <2> QED
    BY <2>1, <2>2, <2>3 DEF TaxInv, MenuCurrent
<1>3. ASSUME NEW w \in Keepers, TaxFails(w)
      PROVE  TaxInv'
  <2>1. /\ Does(w, TaxFree) /\ missed' = (missed \/ duty[w].at \in {"file", "relate"}) /\ duty[w].at # "flush"
        /\ UNCHANGED <<cat, static, link, menu, loose>> /\ TaxFree \in TaxJob /\ TaxFree.at = "idle"
    BY <1>3, TaxJobs DEF TaxFails
  <2>2. missed' \in BOOLEAN /\ (missed => missed') /\ (duty[w].at \in {"file", "relate"} => missed')
    BY <2>1
  <2>3. TaxTypeOK'
    BY <2>1, <2>2, TaxDoes DEF TaxInv, TaxTypeOK
  <2>4. JobsStand' /\ LinksStand'
    BY <2>1, JobsStandOn
    DEF TaxInv, LinksStand, JobStands, CatStands, PageStands, CategoryThere, PageThere
  <2>5. MenuCurrent'
    BY <2>1, <2>2, CurrentStays DEF TaxInv
  <2> QED
    BY <2>3, <2>4, <2>5 DEF TaxInv
<1>4. CASE DrawMenu
  <2>1. menu' = Menu /\ UNCHANGED <<cat, static, link, duty, missed, loose>>
    BY <1>4 DEF DrawMenu
  <2>2. Menu \in [is : {"drawn"}, cats : SUBSET Category, pages : SUBSET StaticPage]
    BY TaxRows DEF Menu, TaxInv, TaxTypeOK, CategoryThere, PageThere
  <2>3. Menu' = Menu
    BY <2>1 DEF Menu, CategoryThere, PageThere
  <2>4. TaxTypeOK'
    BY <2>1, <2>2 DEF TaxInv, TaxTypeOK
  <2> QED
    BY <2>1, <2>3, <2>4
    DEF TaxInv, LinksStand, JobsStand, JobStands, MenuCurrent, CatStands, PageStands,
        CategoryThere, PageThere
<1>5. CASE MenuExpires
  BY <1>5
  DEF MenuExpires, TaxInv, TaxTypeOK, LinksStand, JobsStand, JobStands, MenuCurrent,
      CatStands, PageStands, CategoryThere, PageThere
<1> QED
  BY <1>1, <1>2, <1>3, <1>4, <1>5, CategoryScreenInv, PageScreenInv, FilingInv DEF TaxNext

\* Categories, pages and links are well formed, and so are the requests that
\* write them and the cached sidebar (store/categories.go, store/pages.go).
THEOREM TaxonomyTypeCorrect == TaxSpec => []TaxTypeOK
<1>1. TaxInv => TaxTypeOK
  BY DEF TaxInv
<1> QED
  BY <1>1, InitTaxInv, NextTaxInv, PTL DEF TaxSpec

\* However the category, page and entry screens meet, a link has both its ends
\* unless one was deleted under a request that was about to make it, or a
\* client named a category that is not there (DeleteCategory, DeletePage).
THEOREM LinksAlwaysStand == TaxSpec => []LinksStand
<1>1. TaxInv => LinksStand
  BY DEF TaxInv
<1> QED
  BY <1>1, InitTaxInv, NextTaxInv, PTL DEF TaxSpec

\* However many requests write at once, the sidebar is that of the rows there
\* are once they have answered, unless one failed after its first write
\* (cache.Flush).
THEOREM MenuAlwaysCurrent == TaxSpec => []MenuCurrent
<1>1. TaxInv => MenuCurrent
  BY DEF TaxInv
<1> QED
  BY <1>1, InitTaxInv, NextTaxInv, PTL DEF TaxSpec

-----------------------------------------------------------------------------
(* The parts side by side. *)

LEMMA SitePartsMove ==
    [SiteNext]_siteVars =>
        /\ [SubNext]_subVars /\ [ConNext]_conVars /\ [VieNext]_vieVars /\ [TaxNext]_taxVars
        /\ [UplNext]_uplVars /\ [SliNext]_sliVars /\ [RelNext]_relVars
BY DEF SiteNext, siteVars, SubscribersMove, ContentMoves, ViewsMove, TaxonomyMoves, UploadsMove,
       SlideshowsMove, RelatedMove

\* Where no slideshow is looked at there is none.
LEMMA SiteInitSli == SiteInit => SliInv
<1>1. CASE SliInit
  BY <1>1, InitSliInv
<1>2. ASSUME show = [s \in Shows |-> NoShow], given = [s \in Shows |-> {}],
             hand = [h \in Hands |-> HandFree], met = FALSE
      PROVE  SliInv
  <2>1. \A s \in Shows : show[s] = NoShow /\ given[s] = {} /\ ~ShowThere(s)
    BY <1>2 DEF ShowThere, NoShow
  <2>2. \A h \in Hands : hand[h] = HandFree /\ hand[h].at = "idle"
    BY <1>2 DEF HandFree
  <2>3. SliTypeOK
    BY <1>2 DEF SliTypeOK, SliJob
  <2> QED
    BY <2>1, <2>2, <2>3 DEF SliInv, Tidy, InTurn
<1> QED
  BY <1>1, <1>2 DEF SiteInit

\* Whichever part the run looks at, it is a run of every part by the part's own
\* specification; of the slideshows it may be one that starts with none.
THEOREM SiteRunsItsParts ==
    SiteSpec => /\ SubSpec /\ ConSpec /\ VieSpec /\ TaxSpec /\ UplSpec /\ RelSpec
                /\ []SliInv
<1>1. SiteInit => SubInit /\ ConInit /\ VieInit /\ TaxInit /\ UplInit /\ RelInit
  <2> SUFFICES ASSUME SiteInit PROVE RelInit
    BY DEF SiteInit
  <2>1. CASE part = "related"
    BY <2>1 DEF SiteInit
  <2>2. CASE part # "related"
    BY <2>2 DEF SiteInit, RelInit
  <2> QED
    BY <2>1, <2>2
<1> QED
  BY <1>1, SitePartsMove, SiteInitSli, NextSliInv, PTL
     DEF SiteSpec, SubSpec, ConSpec, VieSpec, TaxSpec, UplSpec, RelSpec

\* All that the run of the site keeps true at every moment, for all of its
\* constants: the list is opt-in, addresses are apart, views add up and count
\* once, links stand, the sidebar is current, files and captions are kept.
THEOREM SiteIsSafe ==
    SiteSpec => [](/\ OptIn /\ AliasUniqueWhenAlone /\ CountedOnce /\ ViewsAddUp
                   /\ LinksStand /\ MenuCurrent /\ UploadsKept /\ CaptionsFollow)
<1>1. SliInv => CaptionsFollow
  BY Quiet DEF CaptionsFollow, HasItsOwn
<1> QED
  BY <1>1, SiteRunsItsParts, ListIsOptIn, AliasesAreApart, VisitorsCountOnce, CountersAddUp,
     LinksAlwaysStand, MenuAlwaysCurrent, FilesAreKept, PTL

\* And all that no step of it ever does: a row on the list loses neither token
\* nor confirmation, an author deletes drafts only, a save drops no relation.
THEOREM SiteStepsKeep == SiteSpec => RowKept /\ AuthorDeletesDrafts /\ RelationsKept
BY SiteRunsItsParts, RowsAreKept, AuthorsDeleteDrafts, RelationsStay, PTL
===============================================================================
