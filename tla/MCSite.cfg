SPECIFICATION SiteSpec
CONSTANTS
    Addresses = {a1, a2}
    Tokens = {t1, t2}
    Readers = {r1, r2}
    Posts = {e1, e2}
    Aliases = {"news"}
    Blank = "blank"
    Writers = {w1, w2}
    Visitors = {v1}
    Articles = {e1, e2}
    Tabs = {b1, b2}
    SeenMax = 1
    MaxViews = 2
    Cats = {c1, c2}
    Titles = {"C", "C++"}
    Slugs = {"c"}
    SlugOf <- MCSlugOf
    Pages = {p1}
    Files = {e1}
    Keepers = {k1, k2}
    Senders = {u1, u2, u3}
    LastName = 1
    Shows = {s1, s2}
    Pics = {g1}
    First = s1
    Hands = {h1, h2}
    Entries = {x1, x2}
    Unlisted = {x2}
    Editors = {m1, m2}
INVARIANTS
    OptIn
    AliasUniqueWhenAlone
    CountedOnce
    ViewsAddUp
    LinksStand
    MenuCurrent
    UploadsKept
    CaptionsFollow
PROPERTIES
    RowKept
    AuthorDeletesDrafts
    RelationsKept
SYMMETRY MCSymmetry
CHECK_DEADLOCK FALSE
