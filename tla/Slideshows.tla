----------------------------- MODULE Slideshows -----------------------------
(***************************************************************************)
(* The slideshow screens (admin/slideshows.go): a directory of pictures    *)
(* with a metadata.xml of captions.  A rename and the removal of a picture *)
(* read that file and write it again; the write empties it first, and a    *)
(* file that is empty or broken reads as no captions at all.  Captions     *)
(* come with the directory: nothing in the admin writes a new one.         *)
(***************************************************************************)

CONSTANTS
    Shows,          \* directory names
    Pics,           \* file names
    First,          \* the slideshow there is
    Hands           \* requests in flight, reused when they end

ASSUME SlideshowsAssumption == First \in Shows

VARIABLES
    show,           \* the directories
    hand,           \* where a request is, and what it holds
    given,          \* history: the captions a slideshow should have
    met             \* history: two requests were in flight at once, or one broke off

sliVars == <<show, hand, given, met>>

NoShow == [is |-> "none"]
Directory == [is : {"there"}, pics : SUBSET Pics, captions : SUBSET Pics, file : {"whole", "torn"}]
ShowThere(s) == show[s].is = "there"
Empty == [is |-> "there", pics |-> {}, captions |-> {}, file |-> "whole"]

HandFree == [at |-> "idle"]
SliJob ==
    {HandFree}
    \union [at : {"move"}, dir : Shows, to : Shows]
    \union [at : {"put"}, dir : Shows, pic : Pics]
    \union [at : {"read"}, dir : Shows, gone : SUBSET Pics]
    \union [at : {"truncate", "write"}, dir : Shows, captions : SUBSET Pics]

SliTypeOK ==
    /\ show \in [Shows -> Directory \union {NoShow}]
    /\ hand \in [Hands -> SliJob]
    /\ given \in [Shows -> SUBSET Pics]
    /\ met \in BOOLEAN

SliInit ==
    /\ \E pics \in SUBSET Pics : \E captions \in SUBSET pics :
          /\ show = [s \in Shows |-> IF s = First
                        THEN [Empty EXCEPT !.pics = pics, !.captions = captions] ELSE NoShow]
          /\ given = [s \in Shows |-> IF s = First THEN captions ELSE {}]
    /\ hand = [h \in Hands |-> HandFree]
    /\ met = FALSE

Moves(h, job) == hand' = [hand EXCEPT ![h] = job]
Meets == met' = (met \/ \E h \in Hands : hand[h] # HandFree)

\* slideshowPath
Begins(h, s, job) ==
    /\ hand[h] = HandFree
    /\ ShowThere(s)
    /\ Moves(h, job)
    /\ Meets

-----------------------------------------------------------------------------
CreateShow(s) ==
    /\ ~ShowThere(s)
    /\ show' = [show EXCEPT ![s] = Empty]
    /\ Meets
    /\ UNCHANGED <<hand, given>>

\* RemoveAll: a write under way goes to a file that is no more.
DeleteShow(s) ==
    /\ ShowThere(s)
    /\ show' = [show EXCEPT ![s] = NoShow]
    /\ given' = [given EXCEPT ![s] = {}]
    /\ hand' = [h \in Hands |-> IF hand[h].at = "write" /\ hand[h].dir = s THEN HandFree ELSE hand[h]]
    /\ Meets

OpenRename(h, s, t) ==
    /\ Begins(h, s, [at |-> "move", dir |-> s, to |-> t])
    /\ UNCHANGED <<show, given>>

\* Refused when the new name is taken, failed when the old one is gone.  An open
\* file moves with its directory.
Move(h) ==
    LET s == hand[h].dir  t == hand[h].to IN
    /\ hand[h].at = "move"
    /\ IF s = t
       THEN /\ Moves(h, [at |-> "read", dir |-> t, gone |-> {}])
            /\ UNCHANGED <<show, given>>
       ELSE IF ShowThere(t) \/ ~ShowThere(s)
       THEN Moves(h, HandFree) /\ UNCHANGED <<show, given>>
       ELSE /\ show' = [show EXCEPT ![t] = show[s], ![s] = NoShow]
            /\ given' = [given EXCEPT ![t] = given[s], ![s] = {}]
            /\ hand' = [g \in Hands |->
                  IF g = h THEN [at |-> "read", dir |-> t, gone |-> {}]
                  ELSE IF hand[g].at = "write" /\ hand[g].dir = s THEN [hand[g] EXCEPT !.dir = t]
                  ELSE hand[g]]
    /\ UNCHANGED met

OpenUpload(h, s, p) ==
    /\ Begins(h, s, [at |-> "put", dir |-> s, pic |-> p])
    /\ UNCHANGED <<show, given>>

\* writeUpload, under a name that is free; it makes the directory if it must.
PutPicture(h) ==
    LET s == hand[h].dir  p == hand[h].pic
        dir == IF ShowThere(s) THEN show[s] ELSE Empty IN
    /\ hand[h].at = "put"
    /\ p \notin dir.pics
    /\ show' = [show EXCEPT ![s] = [dir EXCEPT !.pics = @ \union {p}]]
    /\ Moves(h, HandFree)
    /\ UNCHANGED <<given, met>>

\* The picture goes, and then its caption.
DeletePicture(h, s, p) ==
    /\ Begins(h, s, [at |-> "read", dir |-> s, gone |-> {p}])
    /\ show' = [show EXCEPT ![s].pics = @ \ {p}]
    /\ given' = [given EXCEPT ![s] = @ \ {p}]

\* readSlideshowMeta
Captions(s) == IF ShowThere(s) /\ show[s].file = "whole" THEN show[s].captions ELSE {}

\* Mutant: the caption stays when its picture goes.
Mutant_Kept(h) == Captions(hand[h].dir)

Kept(h) == Captions(hand[h].dir) \ hand[h].gone

ReadMeta(h) ==
    /\ hand[h].at = "read"
    /\ Moves(h, [at |-> "truncate", dir |-> hand[h].dir, captions |-> Kept(h)])
    /\ UNCHANGED <<show, given, met>>

\* writeSlideshowMeta: the file is emptied ...
Truncate(h) ==
    LET s == hand[h].dir IN
    /\ hand[h].at = "truncate"
    /\ IF ShowThere(s)
       THEN show' = [show EXCEPT ![s].file = "torn"] /\ Moves(h, [hand[h] EXCEPT !.at = "write"])
       ELSE Moves(h, HandFree) /\ UNCHANGED show
    /\ UNCHANGED <<given, met>>

\* ... and written.
WriteMeta(h) ==
    /\ hand[h].at = "write"
    /\ show' = [show EXCEPT ![hand[h].dir].captions = hand[h].captions,
                            ![hand[h].dir].file = "whole"]
    /\ Moves(h, HandFree)
    /\ UNCHANGED <<given, met>>

\* A file operation fails, or the process dies.
DropHand(h) ==
    /\ hand[h] # HandFree
    /\ Moves(h, HandFree)
    /\ met' = TRUE
    /\ UNCHANGED <<show, given>>

SliNext ==
    \/ \E s \in Shows : CreateShow(s) \/ DeleteShow(s)
    \/ \E h \in Hands :
          \/ \E s, t \in Shows : OpenRename(h, s, t)
          \/ \E s \in Shows, p \in Pics : OpenUpload(h, s, p) \/ DeletePicture(h, s, p)
          \/ Move(h) \/ PutPicture(h) \/ ReadMeta(h) \/ Truncate(h) \/ WriteMeta(h)
          \/ DropHand(h)

SliSpec == SliInit /\ [][SliNext]_sliVars

-----------------------------------------------------------------------------
\* Captions follow their pictures through renames and removals, and a picture
\* uploaded under the name of one that was removed has no caption, as long as
\* requests come one after the other and none breaks off: the file is read and
\* written back without a lock (slideshowImageDelete, "the caption goes with
\* the picture").
CaptionsFollow ==
    ~met /\ (\A h \in Hands : hand[h] = HandFree)
    => \A s \in Shows : ShowThere(s) => show[s].captions = given[s] /\ show[s].file = "whole"
=============================================================================
