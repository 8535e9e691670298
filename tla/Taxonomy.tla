------------------------------ MODULE Taxonomy ------------------------------
(***************************************************************************)
(* Categories, static pages and what is filed under them: the category and *)
(* page screens (admin/categories.go, admin/pages.go), the categories of   *)
(* an entry in the editor, which can make a new one on the way             *)
(* (admin/entries.go), and over XML-RPC, over store/categories.go and      *)
(* store/pages.go.  A category has a name and an alias, each unique in the *)
(* table; a page an alias.  Nothing in the database ties a link to its     *)
(* ends.                                                                   *)
(*                                                                         *)
(* The sidebar that lists them is cached: a handler writes, statement by   *)
(* statement, and drops the cache when all went well.  How a fill meets a  *)
(* drop is module Cache; here a fill is one step.                          *)
(***************************************************************************)

CONSTANTS
    Cats,           \* ids of categories, each used once
    Titles,         \* names of categories
    Slugs,          \* aliases of categories and pages
    SlugOf,         \* of each name: the alias made from it
    Pages,          \* ids of pages, each used once
    Files,          \* entries: what else is filed
    Keepers         \* requests in flight, reused when they end

ASSUME TaxonomyAssumption ==
    /\ SlugOf \in [Titles -> Slugs]
    /\ Pages \intersect Files = {}

VARIABLES
    cat,            \* the table categories
    static,         \* the table pages
    link,           \* the tables entry_categories and page_categories
    duty,           \* where a request is, and what it holds
    menu,           \* the cached sidebar: what it was drawn from
    missed,         \* history: a write was not followed by its drop
    loose           \* history: ends that went while a request was to link them

taxVars == <<cat, static, link, duty, menu, missed, loose>>

Unused == [is |-> "unused"]
Deleted == [is |-> "deleted"]
Category == [is : {"there"}, name : Titles, slug : Slugs]
StaticPage == [is : {"there"}, slug : Slugs]
CategoryThere(c) == cat[c].is = "there"
PageThere(p) == static[p].is = "there"
NewRow == "new"

NoMenu == [is |-> "none"]
Menu == [is |-> "drawn",
         cats |-> {cat[c] : c \in {d \in Cats : CategoryThere(d)}},
         pages |-> {static[p] : p \in {q \in Pages : PageThere(q)}}]

TaxFree == [at |-> "idle"]
TaxJob ==
    {TaxFree, [at |-> "relate"], [at |-> "flush"]}
    \union [at : {"write category"}, id : Cats \union {NewRow}, row : Category]
    \union [at : {"write page"}, id : Pages \union {NewRow}, row : StaticPage,
            ids : SUBSET Cats]
    \union [at : {"make"}, what : Files, ids : SUBSET Cats, name : Titles]
    \union [at : {"file"}, what : Files \union Pages, ids : SUBSET Cats]

TaxTypeOK ==
    /\ cat \in [Cats -> Category \union {Unused, Deleted}]
    /\ static \in [Pages -> StaticPage \union {Unused, Deleted}]
    /\ link \subseteq (Files \union Pages) \X Cats
    /\ duty \in [Keepers -> TaxJob]
    /\ menu = NoMenu \/ menu \in [is : {"drawn"}, cats : SUBSET Category, pages : SUBSET StaticPage]
    /\ missed \in BOOLEAN
    /\ loose \subseteq Cats \union Pages

TaxInit ==
    /\ cat = [c \in Cats |-> Unused]
    /\ static = [p \in Pages |-> Unused]
    /\ link = {}
    /\ duty = [w \in Keepers |-> TaxFree]
    /\ menu = NoMenu
    /\ missed = FALSE
    /\ loose = {}

Does(w, job) == duty' = [duty EXCEPT ![w] = job]
Filed(x, ids) == {l \in link : l[1] # x} \union ({x} \X ids)
\* What a request still to link or to file holds.
HeldCats == UNION {duty[w].ids : w \in {v \in Keepers :
                duty[v].at \in {"make", "file", "write page"}}}
HeldPages == {duty[w].what : w \in {v \in Keepers : duty[v].at = "file"}} \intersect Pages

-----------------------------------------------------------------------------
(* The category screen. *)

NameTaken(c, row) ==
    \E d \in Cats \ {c} : CategoryThere(d) /\ (cat[d].name = row.name \/ cat[d].slug = row.slug)

\* The row is there, and the list has neither the name nor the alias twice: a
\* form that is refused writes nothing, and is left out.
OpenCategory(w, c, row) ==
    /\ duty[w] = TaxFree
    /\ c # NewRow => CategoryThere(c)
    /\ ~NameTaken(c, row)
    /\ Does(w, [at |-> "write category", id |-> c, row |-> row])
    /\ UNCHANGED <<cat, static, link, menu, missed, loose>>

\* INSERT or UPDATE: the unique keys refuse what the look missed, and a row
\* that is gone is not found.
WriteCategory(w) ==
    /\ duty[w].at = "write category"
    /\ \E c \in Cats :
          /\ IF duty[w].id = NewRow THEN cat[c] = Unused ELSE c = duty[w].id
          /\ IF NameTaken(c, duty[w].row) \/ cat[c] = Deleted
             THEN Does(w, TaxFree) /\ UNCHANGED cat
             ELSE /\ cat' = [cat EXCEPT ![c] = duty[w].row]
                  /\ Does(w, [at |-> "flush"])
    /\ UNCHANGED <<static, link, menu, missed, loose>>

\* Mutant: the links of a deleted category stay.
Mutant_LinksLeft(c) == link

LinksLeft(c) == {l \in link : l[2] # c}

DeleteCategory(w, c) ==
    /\ duty[w] = TaxFree
    /\ CategoryThere(c)
    /\ cat' = [cat EXCEPT ![c] = Deleted]
    /\ link' = LinksLeft(c)
    /\ loose' = loose \union ({c} \intersect HeldCats)
    /\ Does(w, [at |-> "flush"])
    /\ UNCHANGED <<static, menu, missed>>

-----------------------------------------------------------------------------
(* The page screen. *)

AliasTaken(p, row) == \E q \in Pages \ {p} : PageThere(q) /\ static[q].slug = row.slug

\* The same; and the category ids of the form are not looked up.
OpenPage(w, p, row, ids) ==
    /\ duty[w] = TaxFree
    /\ p # NewRow => PageThere(p)
    /\ ~AliasTaken(p, row)
    /\ Does(w, [at |-> "write page", id |-> p, row |-> row, ids |-> ids])
    /\ loose' = loose \union {c \in ids : ~CategoryThere(c)}
    /\ UNCHANGED <<cat, static, link, menu, missed>>

WritePage(w) ==
    /\ duty[w].at = "write page"
    /\ \E p \in Pages :
          /\ IF duty[w].id = NewRow THEN static[p] = Unused ELSE p = duty[w].id
          /\ IF AliasTaken(p, duty[w].row) \/ static[p] = Deleted
             THEN Does(w, TaxFree) /\ UNCHANGED static
             ELSE /\ static' = [static EXCEPT ![p] = duty[w].row]
                  /\ Does(w, [at |-> "file", what |-> p, ids |-> duty[w].ids])
    /\ UNCHANGED <<cat, link, menu, missed, loose>>

DeletePage(w, p) ==
    /\ duty[w] = TaxFree
    /\ PageThere(p)
    /\ static' = [static EXCEPT ![p] = Deleted]
    /\ link' = {l \in link : l[1] # p}
    /\ loose' = loose \union ({p} \intersect HeldPages)
    /\ Does(w, [at |-> "flush"])
    /\ UNCHANGED <<cat, menu, missed>>

-----------------------------------------------------------------------------
(* Filing an entry. *)

\* The editor keeps the ids that are in the list, and adds the new name's
\* category if the list has it.
OpenFiling(w, x, ids, name) ==
    /\ duty[w] = TaxFree
    /\ \A c \in ids : CategoryThere(c)
    /\ LET known == {c \in Cats : CategoryThere(c) /\ cat[c].name = name} IN
       Does(w, IF name \in Titles /\ known = {}
               THEN [at |-> "make", what |-> x, ids |-> ids, name |-> name]
               ELSE [at |-> "file", what |-> x, ids |-> ids \union known])
    /\ UNCHANGED <<cat, static, link, menu, missed, loose>>

\* categoryIDForName: make it, or take the one that got its alias first.
MakeCategory(w) ==
    /\ duty[w].at = "make"
    /\ LET row == [is |-> "there", name |-> duty[w].name, slug |-> SlugOf[duty[w].name]]
           same == {c \in Cats : CategoryThere(c) /\ cat[c].slug = row.slug}
           with(ids) == [at |-> "file", what |-> duty[w].what, ids |-> ids]
       IN \/ /\ ~NameTaken(NewRow, row)
             /\ \E c \in Cats :
                   /\ cat[c] = Unused
                   /\ cat' = [cat EXCEPT ![c] = row]
                   /\ Does(w, with(duty[w].ids \union {c}))
          \/ /\ NameTaken(NewRow, row)
             /\ Does(w, IF same = {} THEN TaxFree ELSE with(duty[w].ids \union same))
             /\ UNCHANGED cat
    /\ UNCHANGED <<static, link, menu, missed, loose>>

\* SetEntryCategories, SetPageCategories: the set is replaced in one go.  A
\* page is done; an entry's related entries are still to be written.
File(w) ==
    /\ duty[w].at = "file"
    /\ link' = Filed(duty[w].what, duty[w].ids)
    /\ Does(w, IF duty[w].what \in Files THEN [at |-> "relate"] ELSE [at |-> "flush"])
    /\ UNCHANGED <<cat, static, menu, missed, loose>>

\* SetRelatedEntries, whose rows are module Related's.
RelateFiled(w) ==
    /\ duty[w].at = "relate"
    /\ Does(w, [at |-> "flush"])
    /\ UNCHANGED <<cat, static, link, menu, missed, loose>>

\* setPostCategories: the ids as the client sent them.
FileUnchecked(w, x, ids) ==
    /\ duty[w] = TaxFree
    /\ link' = Filed(x, ids)
    /\ loose' = loose \union {c \in ids : ~CategoryThere(c)}
    /\ Does(w, [at |-> "flush"])
    /\ UNCHANGED <<cat, static, menu, missed>>

-----------------------------------------------------------------------------
\* Mutant: the request answers without dropping the cache.
Mutant_Drop(w) ==
    /\ duty[w].at = "flush"
    /\ Does(w, TaxFree)
    /\ UNCHANGED <<cat, static, link, menu, missed, loose>>

Drop(w) ==
    /\ duty[w].at = "flush"
    /\ menu' = NoMenu
    /\ missed' = FALSE
    /\ Does(w, TaxFree)
    /\ UNCHANGED <<cat, static, link, loose>>

\* A statement fails, or the request's context is cancelled: an error page, and
\* no drop of the cache.
TaxFails(w) ==
    /\ duty[w] # TaxFree
    /\ duty[w].at # "flush"
    /\ missed' = (missed \/ duty[w].at \in {"file", "relate"})
    /\ Does(w, TaxFree)
    /\ UNCHANGED <<cat, static, link, menu, loose>>

DrawMenu ==
    /\ menu = NoMenu
    /\ menu' = Menu
    /\ UNCHANGED <<cat, static, link, duty, missed, loose>>

MenuExpires ==
    /\ menu # NoMenu
    /\ menu' = NoMenu
    /\ missed' = FALSE
    /\ UNCHANGED <<cat, static, link, duty, loose>>

TaxNext ==
    \/ \E w \in Keepers :
          \/ \E c \in Cats \union {NewRow}, row \in Category : OpenCategory(w, c, row)
          \/ WriteCategory(w)
          \/ \E c \in Cats : DeleteCategory(w, c)
          \/ \E p \in Pages \union {NewRow}, row \in StaticPage, ids \in SUBSET Cats :
                OpenPage(w, p, row, ids)
          \/ WritePage(w)
          \/ \E p \in Pages : DeletePage(w, p)
          \/ \E x \in Files, ids \in SUBSET Cats, name \in Titles \union {"none"} :
                OpenFiling(w, x, ids, name)
          \/ MakeCategory(w) \/ File(w) \/ RelateFiled(w)
          \/ \E x \in Files, ids \in SUBSET Cats : FileUnchecked(w, x, ids)
          \/ Drop(w) \/ TaxFails(w)
    \/ DrawMenu \/ MenuExpires

TaxSpec == TaxInit /\ [][TaxNext]_taxVars

-----------------------------------------------------------------------------
\* A link has both its ends, unless one of them was deleted under a request
\* that was about to make it, or the client named a category that is not there
\* (DeleteCategory, "removes a category and its entry and page links").
LinksStand ==
    \A l \in link :
        /\ CategoryThere(l[2]) \/ l[2] \in loose
        /\ l[1] \in Pages => PageThere(l[1]) \/ l[1] \in loose

\* The sidebar shows the categories and pages there are as soon as the requests
\* that wrote have answered: only a request that failed after its first write (at
\* SetPageCategories, SetEntryCategories or SetRelatedEntries) leaves an older
\* one until it expires.
MenuCurrent ==
    /\ menu # NoMenu
    /\ ~missed
    /\ \A w \in Keepers : duty[w].at \notin {"file", "relate", "flush"}
    => menu = Menu
=============================================================================
