------------------------------- MODULE Related -------------------------------
(***************************************************************************)
(* Related entries: the list in the entry editor (admin/entries.go), over  *)
(* store/related.go and store/related_editor.go.  A relation is a row that *)
(* one of its two entries wrote and both of them show; the editor shows    *)
(* the rows of both and replaces its own.                                  *)
(*                                                                         *)
(* A form is open for as long as its author likes.  A form that is refused *)
(* comes back as it was sent, and is still open here.                      *)
(***************************************************************************)

CONSTANTS
    Entries,        \* ids of entries, each used once
    Unlisted,       \* those a visitor does not see: drafts, and what is not due
    Editors         \* forms in use at one time

ASSUME RelatedAssumption == Unlisted \subseteq Entries /\ "new" \notin Entries

VARIABLES
    life,           \* the table entries
    rows,           \* the table related_entries
    form            \* what an editor shows, or its request writes

relVars == <<life, rows, form>>

Exists(e) == life[e] = "stored"
NewEntry == "new"
NoForm == [at |-> "closed"]
\* `took` says whether something was taken off the list; `since` is history: the
\* rows that other requests wrote for the entry after this form was opened.
RelForm ==
    {NoForm}
    \union [at : {"open"}, of : Entries \union {NewEntry}, list : SUBSET Entries,
            since : SUBSET (Entries \X Entries)]
    \union [at : {"save", "relate"}, of : Entries \union {NewEntry}, list : SUBSET Entries,
            took : {"nothing", "some"}, since : SUBSET (Entries \X Entries)]

RelTypeOK ==
    /\ life \in [Entries -> {"unborn", "stored", "gone"}]
    /\ rows \subseteq Entries \X Entries
    /\ form \in [Editors -> RelForm]

RelInit ==
    /\ life \in [Entries -> {"unborn", "stored"}]
    /\ rows = {}
    /\ form = [w \in Editors |-> NoForm]

Turns(w, f) == form' = [form EXCEPT ![w] = f]

-----------------------------------------------------------------------------
Joined(e, f) == <<e, f>> \in rows \/ <<f, e>> \in rows

\* Mutant: the list of the public page, which leaves out what is not live.
Mutant_RelatedForEditor(e) == {f \in Entries \ ({e} \union Unlisted) : Exists(f) /\ Joined(e, f)}

\* RelatedEntriesForEditor: both directions, drafts included.
RelatedForEditor(e) == {f \in Entries \ {e} : Exists(f) /\ Joined(e, f)}

OpenForm(w, e) ==
    /\ form[w] = NoForm
    /\ e # NewEntry => Exists(e)
    /\ Turns(w, [at |-> "open", of |-> e, since |-> {},
                 list |-> IF e = NewEntry THEN {} ELSE RelatedForEditor(e)])
    /\ UNCHANGED <<life, rows>>

\* relatedFromForm: the entry itself, and what is no entry any more, drop out.
PostForm(w, ids) ==
    /\ form[w].at = "open"
    /\ form[w].of # NewEntry => Exists(form[w].of)
    /\ Turns(w, [at |-> "save", of |-> form[w].of, since |-> form[w].since,
                 list |-> {f \in ids \ {form[w].of} : Exists(f)},
                 took |-> IF form[w].list \subseteq ids THEN "nothing" ELSE "some"])
    /\ UNCHANGED <<life, rows>>

\* CreateEntry, or UpdateEntry if the row is still there; the categories follow.
SaveRow(w) ==
    /\ form[w].at = "save"
    /\ \E e \in Entries :
          IF form[w].of = NewEntry
          THEN /\ life[e] = "unborn"
               /\ life' = [life EXCEPT ![e] = "stored"]
               /\ Turns(w, [form[w] EXCEPT !.at = "relate", !.of = e])
          ELSE /\ e = form[w].of
               /\ Turns(w, IF Exists(e) THEN [form[w] EXCEPT !.at = "relate"] ELSE NoForm)
               /\ UNCHANGED life
    /\ UNCHANGED rows

\* SetRelatedEntries: what the entry names is replaced in one transaction; what
\* names the entry stays.
Relate(w) ==
    LET e == form[w].of
        written == {e} \X form[w].list
    IN /\ form[w].at = "relate"
       /\ rows' = {r \in rows : r[1] # e} \union written
       /\ form' = [v \in Editors |->
              CASE v = w -> NoForm
                [] v # w /\ form[v] # NoForm /\ form[v].of = e ->
                      [form[v] EXCEPT !.since = @ \union written]
                [] OTHER -> form[v]]
       /\ UNCHANGED life

\* DeleteEntries: one transaction, the rows of both directions with it.
DeleteEntries(gone) ==
    /\ life' = [e \in Entries |-> IF e \in gone /\ Exists(e) THEN "gone" ELSE life[e]]
    /\ rows' = {r \in rows : r[1] \notin gone /\ r[2] \notin gone}
    /\ UNCHANGED form

\* The tab is closed, a statement fails, or the process dies.
CloseForm(w) ==
    /\ form[w] # NoForm
    /\ Turns(w, NoForm)
    /\ UNCHANGED <<life, rows>>

RelNext ==
    \/ \E w \in Editors :
          \/ \E e \in Entries \union {NewEntry} : OpenForm(w, e)
          \/ \E ids \in SUBSET Entries : PostForm(w, ids)
          \/ SaveRow(w) \/ Relate(w) \/ CloseForm(w)
    \/ \E gone \in SUBSET Entries \ {{}} : DeleteEntries(gone)

RelSpec == RelInit /\ [][RelNext]_relVars

-----------------------------------------------------------------------------
\* A save whose author took nothing off the list takes no relation away from
\* the entry, a draft's or one that the other entry's editor made meanwhile
\* included: only a relation that another save of the same entry wrote after
\* the form was opened goes ("the editor must not silently drop a relation",
\* RelatedEntriesForEditor, SetRelatedEntries).
RelationsKept ==
    [][\A w \in Editors :
         /\ form[w].at = "relate" /\ form[w].took = "nothing"
         /\ rows' # rows /\ form'[w] = NoForm
         => \A e, f \in Entries :
               Exists(e) /\ Exists(f) /\ e # f /\ Joined(e, f)
               => Joined(e, f)' \/ {<<e, f>>, <<f, e>>} \intersect form[w].since # {}]_relVars
=============================================================================
