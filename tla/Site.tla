-------------------------------- MODULE Site --------------------------------
(***************************************************************************)
(* The parts of the blog that keep different columns, tables and files,    *)
(* side by side in one run: the mailing list, the entries' addresses, the  *)
(* view counter, the categories and pages, the uploads, the slideshows,    *)
(* the related entries.                                                    *)
(*                                                                         *)
(* What a handler of one part does to the state of another is an action of *)
(* that other one (the save that writes the view counter back is in        *)
(* Views), so every behaviour of the whole is one of each part with the    *)
(* others standing still, and the run looks at one part at a time: which   *)
(* one is chosen at the start.                                             *)
(***************************************************************************)
EXTENDS Subscribers, Content, Views, Taxonomy, Uploads, Slideshows, Related

VARIABLE part

siteVars == <<part, subVars, conVars, vieVars, taxVars, uplVars, sliVars, relVars>>

Parts == {"subscribers", "content", "views", "taxonomy", "uploads", "slideshows",
          "related"}

SiteInit ==
    /\ part \in Parts
    /\ SubInit /\ ConInit /\ VieInit /\ TaxInit /\ UplInit
    /\ IF part = "slideshows" THEN SliInit
       ELSE /\ show = [s \in Shows |-> NoShow]
            /\ given = [s \in Shows |-> {}]
            /\ hand = [h \in Hands |-> HandFree]
            /\ met = FALSE
    /\ IF part = "related" THEN RelInit
       ELSE /\ life = [e \in Entries |-> "unborn"]
            /\ rows = {}
            /\ form = [w \in Editors |-> NoForm]

SubscribersMove ==
    /\ part = "subscribers"
    /\ SubNext
    /\ UNCHANGED <<part, conVars, vieVars, taxVars, uplVars, sliVars, relVars>>

ContentMoves ==
    /\ part = "content"
    /\ ConNext
    /\ UNCHANGED <<part, subVars, vieVars, taxVars, uplVars, sliVars, relVars>>

ViewsMove ==
    /\ part = "views"
    /\ VieNext
    /\ UNCHANGED <<part, subVars, conVars, taxVars, uplVars, sliVars, relVars>>

TaxonomyMoves ==
    /\ part = "taxonomy"
    /\ TaxNext
    /\ UNCHANGED <<part, subVars, conVars, vieVars, uplVars, sliVars, relVars>>

UploadsMove ==
    /\ part = "uploads"
    /\ UplNext
    /\ UNCHANGED <<part, subVars, conVars, vieVars, taxVars, sliVars, relVars>>

SlideshowsMove ==
    /\ part = "slideshows"
    /\ SliNext
    /\ UNCHANGED <<part, subVars, conVars, vieVars, taxVars, uplVars, relVars>>

RelatedMove ==
    /\ part = "related"
    /\ RelNext
    /\ UNCHANGED <<part, subVars, conVars, vieVars, taxVars, uplVars, sliVars>>

SiteNext ==
    \/ SubscribersMove \/ ContentMoves \/ ViewsMove \/ TaxonomyMoves
    \/ UploadsMove \/ SlideshowsMove \/ RelatedMove

SiteSpec == SiteInit /\ [][SiteNext]_siteVars
=============================================================================
