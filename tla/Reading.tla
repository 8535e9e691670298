------------------------------- MODULE Reading -------------------------------
(***************************************************************************)
(* What readers see of the entries: the addresses the blog hands out and   *)
(* what it makes of them when they come back (web/permalink.go, handlers,  *)
(* legacy), the archives and the calendar, the feeds and the sitemap, the  *)
(* search, and the lists that are read page by page (store/entries.go,     *)
(* web/view.go, admin/entries.go) while authors go on writing.             *)
(*                                                                         *)
(* Time is counted in seconds of the database's clock, PerDay of them to a *)
(* day, on a calendar of a few days given as year, month and day.  The     *)
(* blog's clock is that of its `zone`, which is ahead or behind by what    *)
(* the zone says at the moment: it is put forward and back, at any hour,   *)
(* midnight too.  A path is its segments.  What an entry is called and     *)
(* filed under does not change here.                                       *)
(***************************************************************************)
EXTENDS Integers, FiniteSetsExt, SequencesExt, TLC

CONSTANTS
    Entries,        \* entries: numbers, which is how ids sort
    AliasOf,        \* of each its alias: <<>>, or its segments
    CatsOf,         \* the categories each is in: numbers too
    AuthorOf,       \* who wrote it
    TermsOf,        \* the words in it
    RelatedTo,      \* the rows of related_entries
    CatAlias,       \* of each category its alias, a segment or ""
    Calendar,       \* the days there are: a sequence of <<year, month, day>>
    PerDay,         \* seconds in a day
    Tz,             \* of each time zone, at each moment, how far it is ahead
    PostTimes,      \* when entries may be posted, by the database's clock
    Times,          \* the present, as it goes on
    Forever,        \* further from 0 than any moment a date stands for
    PageSize,       \* maxentries
    MaxItems,       \* entries in a feed
    MaxRecent,      \* entries in the pod of recent ones
    ArchiveYears,   \* how far back the pod of months goes
    Browsed,        \* lists that are read page by page
    MaxChanges      \* bound: changes while a list is being read

ASSUME ReadingAssumption ==
    /\ PageSize \in Nat \ {0}
    /\ PerDay \in Nat \ {0}
    /\ DOMAIN AliasOf = Entries /\ DOMAIN CatsOf = Entries
    /\ Entries \subseteq Int /\ IsFiniteSet(Entries)
    /\ PostTimes \subseteq Int /\ Times \subseteq Int /\ \E t \in Times : \A u \in Times : t <= u
    /\ \A l \in Browsed : l.kind \in {"listing", "search", "admin"}
    /\ MaxItems \in Nat /\ MaxRecent \in Nat /\ ArchiveYears \in Int /\ Forever \in Nat

\* Before a day of the calendar there stand the days of its month from the first.
ASSUME CalendarAssumption ==
    /\ Calendar \in Seq((1000..9999) \X (1..12) \X (1..31)) /\ IsInjective(Calendar)
    /\ \A n \in 1..Len(Calendar) : LET d == Calendar[n] IN
          d[3] <= n /\ \A k \in 1..d[3] : Calendar[n - d[3] + k] = <<d[1], d[2], k>>

Moments == -Forever..Forever
Zones == DOMAIN Tz

\* A zone is ahead or behind by less than a day, and every entry is posted on a
\* day of the calendar.
ASSUME ClockAssumption ==
    /\ Zones # {}
    /\ Forever >= (Len(Calendar) + 40) * PerDay
    /\ PostTimes \subseteq Moments /\ Times \subseteq Moments
    /\ \A z \in Zones, t \in Moments : Tz[z][t] \in Int /\ -PerDay < Tz[z][t] /\ Tz[z][t] < PerDay
    /\ \A z \in Zones, t \in PostTimes : 1 + ((t + Tz[z][t]) \div PerDay) \in 1..Len(Calendar)

\* No zone's clock is changed twice in two days, nor where the calendar begins.
ASSUME ZoneAssumption ==
    \A z \in Zones :
        /\ \A t \in (1 - PerDay)..(PerDay - 1) : Tz[z][t] = Tz[z][0]
        /\ \A t \in Moments : t + 2 * PerDay \in Moments =>
              \E c \in t..(t + 2 * PerDay) :
                  /\ \A u \in t..(c - 1) : Tz[z][u] = Tz[z][t]
                  /\ \A u \in c..(t + 2 * PerDay) : Tz[z][u] = Tz[z][c]

\* An alias is letters, digits and hyphens; that of a category is unique.  A
\* number is like no word of a path.
ASSUME SegmentAssumption ==
    LET numbers == 0..31 \union {d[1] : d \in ToSet(Calendar)} IN
    /\ \A i \in Entries : AliasOf[i] \in Seq(STRING)
    /\ \A i \in Entries : CatsOf[i] \subseteq DOMAIN CatAlias
    /\ \A b, c \in DOMAIN CatAlias : CatAlias[b] = CatAlias[c] /\ b # c => CatAlias[b] = ""
    /\ \A c \in DOMAIN CatAlias : CatAlias[c] \notin {"index.cfm", "print.cfm"}
    /\ \A m, n \in numbers : ToString(m) = ToString(n) => m = n
    /\ \A n \in numbers : ToString(n) \notin {"", "index.cfm", "print", "print.cfm", "postedby"}

VARIABLES
    row,            \* the table: of each entry when it is posted, and if it is out
    present,        \* the time
    zone,           \* the setting timezone
    walk            \* a reader, and the list being read

reaVars == <<row, present, zone, walk>>

NoRow == [posted |-> 0, released |-> FALSE, there |-> FALSE]
Rows == {NoRow} \union [posted : PostTimes, released : BOOLEAN, there : {TRUE}]

\* Entry.Live
LiveIn(r, now) == r.there /\ r.released /\ r.posted <= now
Live(i) == LiveIn(row[i], present)
LiveEntries == {i \in Entries : Live(i)}

-----------------------------------------------------------------------------
(* The blog's calendar. *)

Clock(t) == t + Tz[zone][t]
DayIndex(t) == 1 + (Clock(t) \div PerDay)
In(t) == Calendar[DayIndex(t)]
Midnight(n) == (n - 1) * PerDay

DaysOf(y, m) == {n \in DOMAIN Calendar : Calendar[n][1] = y /\ Calendar[n][2] = m}

\* time.Date: the moment the clock shows c.  The offset is looked up as if c were
\* the database's time, and once more at the moment that gives: what the clock
\* never shows comes out before or after, of what it shows twice one is taken.
TimeDate(c) == c - Tz[zone][c - Tz[zone][c]]

\* AddDate: the same time of the clock a day later, or a month; a day beyond the
\* end of the month is one of the next.
NextDay(t) == TimeDate(Clock(t) + PerDay)
NextMonth(t) ==
    LET D == DaysOf(In(t)[1], In(t)[2])
    IN TimeDate(Midnight(Min(D) + Cardinality(D) + In(t)[3] - 1) + (Clock(t) % PerDay))

\* Mutant: every day has PerDay seconds.
Mutant_MonthRange(y, m, d) ==
    LET from == TimeDate(Midnight(Min(DaysOf(y, m)) + Max({d, 1}) - 1))
        to == IF d = 0 THEN NextMonth(from) ELSE from + PerDay
    IN IF DaysOf(y, m) = {} THEN [from |-> 1, to |-> 0] ELSE [from |-> from, to |-> to - 1]

\* monthRange: a month, or a day of it; the days beyond its end are the next
\* month's.  A month outside the calendar has no entries.
MonthRange(y, m, d) ==
    LET from == TimeDate(Midnight(Min(DaysOf(y, m)) + Max({d, 1}) - 1))
        to == IF d = 0 THEN NextMonth(from) ELSE NextDay(from)
    IN IF DaysOf(y, m) = {} THEN [from |-> 1, to |-> 0] ELSE [from |-> from, to |-> to - 1]

-----------------------------------------------------------------------------
(* The store. *)

\* EntryFilter: what says nothing is left out.
Everything == [liveOnly |-> TRUE, draftsOnly |-> FALSE, by |-> "", cats |-> {},
               term |-> "", dates |-> [from |-> -Forever, to |-> Forever]]

Where(f, i, r, now) ==
    /\ r.there
    /\ f.liveOnly => LiveIn(r, now)
    /\ f.draftsOnly => ~r.released
    /\ f.by # "" => AuthorOf[i] = f.by
    /\ f.cats # {} => CatsOf[i] \intersect f.cats # {}
    /\ f.term # "" => f.term \in TermsOf[i]
    /\ r.posted \in f.dates.from..f.dates.to

MatchingIn(table, now, f) == {i \in Entries : Where(f, i, table[i], now)}
Matching(f) == MatchingIn(row, present, f)

\* ORDER BY posted DESC, id DESC: the place of an entry is how many come before.
Before(i, j) == row[i].posted > row[j].posted \/ (row[i].posted = row[j].posted /\ i > j)
Ahead(S, i) == {j \in S : Before(j, i)}
Ordered(S) == [n \in 1..Cardinality(S) |-> CHOOSE i \in S : Cardinality(Ahead(S, i)) = n - 1]
ListEntries(f) == Ordered(Matching(f))

Limited(s, offset, limit) == SubSeq(s, offset + 1, Min({Len(s), offset + limit}))

RelatedEntries(i) ==
    {j \in LiveEntries \ {i} : <<i, j>> \in RelatedTo \/ <<j, i>> \in RelatedTo}

\* livePostedTimes, on the blog's calendar: the grouping is done in Go.
LivePosted == [i \in LiveEntries |-> In(row[i].posted)]
Month(t) == <<In(t)[1], In(t)[2]>>
Cutoff == IF ArchiveYears > 0 THEN In(present)[1] - ArchiveYears ELSE 0
MonthlyArchives == {Month(row[i].posted) : i \in {j \in LiveEntries : LivePosted[j][1] >= Cutoff}}
MonthCount(ym) == Cardinality({i \in LiveEntries : Month(row[i].posted) = ym})
DaysWithEntries(y, m) ==
    LET start == TimeDate(Midnight(Min(DaysOf(y, m))))
        end == NextMonth(start)
    IN {LivePosted[i][3] : i \in {j \in LiveEntries :
            row[j].posted >= start /\ row[j].posted < end /\ Month(row[j].posted) = <<y, m>>}}

-----------------------------------------------------------------------------
(* Addresses. *)

Url(path, mode, ids) == [path |-> path, mode |-> mode, ids |-> ids]
At(path) == Url(path, "", {})

EntryURL(i) ==
    LET t == In(row[i].posted) IN
    IF AliasOf[i] = <<>> THEN Url(<<>>, "entry", {i})
    ELSE At(<<ToString(t[1]), ToString(t[2]), ToString(t[3])>> \o AliasOf[i])
CategoryURL(c) == IF CatAlias[c] = "" THEN Url(<<>>, "cat", {c}) ELSE At(<<CatAlias[c]>>)
UserURL(u) == At(<<"postedby", u>>)
MonthURL(y, m) == At(<<ToString(y), ToString(m)>>)
DayURL(y, m, d) == At(<<ToString(y), ToString(m), ToString(d)>>)

PrintURL(i) == Url(<<"print">>, "", {i})

\* The old addresses, and where they move: the query is kept, but that of the
\* print page becomes the path.
LegacyURL(u) ==
    [u EXCEPT !.path = IF @ = <<"print">> THEN <<"print.cfm">> ELSE <<"index.cfm">> \o @]
RedirectQueryID(u) == IF u.ids = {} THEN At(<<>>) ELSE Url(<<"print">>, "", u.ids)
Moved(u) ==
    CASE u.path = <<"print.cfm">> -> RedirectQueryID(u)
      [] u.path # <<>> /\ u.path[1] = "index.cfm" -> [u EXCEPT !.path = Tail(@)]
      [] OTHER -> u

ReservedSegments == {"admin", "comments", "confirmsubscription", "contact", "download",
    "enclosures", "health", "images", "page", "postedby", "print", "robots.txt", "rss",
    "search", "send", "sitemap.xml", "slideshow", "static", "unsubscribe", "xmlrpc"}

\* A page: a 404, one entry, or a list.
NotFound == [is |-> "404"]
Single(i) == [is |-> "entry", shows |-> {i}]
Listing(f) == [is |-> "list", shows |-> Matching(f)]

Numbers == 0..31 \union {d[1] : d \in ToSet(Calendar)}
NumberOf == [s \in {ToString(n) : n \in Numbers} |-> CHOOSE n \in Numbers : ToString(n) = s]
NumericSegment(s) == s \in DOMAIN NumberOf

Archive(view, ys, ms, ds) ==
    IF ~NumericSegment(ys) \/ ~NumericSegment(ms) \/ (ds # "" /\ ~NumericSegment(ds)) THEN NotFound
    ELSE IF NumberOf[ms] \notin 1..12 \/ (ds # "" /\ NumberOf[ds] \notin 1..31) THEN NotFound
    ELSE Listing([view EXCEPT !.dates =
                    MonthRange(NumberOf[ys], NumberOf[ms], IF ds = "" THEN 0 ELSE NumberOf[ds])])

\* A draft is shown to nobody but an admin that asks for it.
RenderEntry(view, i) == IF Live(i) \/ ~view.liveOnly THEN Single(i) ELSE NotFound

\* GetEntryByAlias takes one of the entries with the alias, on its own day.
EntryByPath(view, ys, ms, ds, alias) ==
    LET named == {i \in Entries : row[i].there /\ AliasOf[i] = <<alias>>}
        e == CHOOSE i \in named : TRUE
    IN IF named = {} \/ ~(NumericSegment(ys) /\ NumericSegment(ms) /\ NumericSegment(ds)) THEN NotFound
       ELSE IF In(row[e].posted) # <<NumberOf[ys], NumberOf[ms], NumberOf[ds]>> THEN NotFound
       ELSE RenderEntry(view, e)

CategoryByAlias(view, alias) ==
    LET named == {c \in DOMAIN CatAlias : CatAlias[c] = alias} IN
    IF alias \in ReservedSegments \/ named = {} THEN NotFound
    ELSE Listing([view EXCEPT !.cats = {CHOOSE c \in named : TRUE}])
CategoryByIDs(view, ids) ==
    LET known == ids \intersect DOMAIN CatAlias IN
    IF known = {} THEN NotFound ELSE Listing([view EXCEPT !.cats = known])
PostedBy(view, u) ==
    IF u \notin {AuthorOf[i] : i \in Entries} THEN NotFound ELSE Listing([view EXCEPT !.by = u])

HandleHome(view, u) ==
    IF u.mode = "entry" /\ u.ids # {}
    THEN LET there == {i \in u.ids : i \in Entries /\ row[i].there} IN
         IF there = {} THEN NotFound ELSE RenderEntry(view, CHOOSE i \in there : TRUE)
    ELSE IF u.mode = "cat" /\ u.ids # {} THEN CategoryByIDs(view, u.ids)
    ELSE Listing(view)

HandleSES(view, p) ==
    CASE Len(p) = 1 -> CategoryByAlias(view, p[1])
      [] Len(p) = 2 -> IF p[1] = "postedby" THEN PostedBy(view, p[2]) ELSE Archive(view, p[1], p[2], "")
      [] Len(p) = 3 -> Archive(view, p[1], p[2], p[3])
      [] Len(p) = 4 -> EntryByPath(view, p[1], p[2], p[3], p[4])
      [] OTHER -> NotFound

HandlePrint(view, ids) ==
    LET there == {i \in ids : i \in Entries /\ row[i].there} IN
    IF there = {} THEN NotFound ELSE RenderEntry(view, CHOOSE i \in there : TRUE)

\* What a visitor gets, or an admin with ?adminview=1.
Opens(u, adminview) ==
    LET to == Moved(u)
        view == [Everything EXCEPT !.liveOnly = ~adminview]
    IN IF to.path = <<>> THEN HandleHome(view, to)
       ELSE IF to.path = <<"print">> THEN HandlePrint(view, to.ids)
       ELSE HandleSES(view, to.path)

-----------------------------------------------------------------------------
(* The feeds and the sidebar. *)

\* parseRequest: a mode2 whose parameters do not parse does not filter.
Query(mode2, y, m, d, cats, ids) ==
    [mode2 |-> mode2, year |-> y, month |-> m, day |-> d, cats |-> cats, ids |-> ids]
ParseRequest(q) ==
    LET dated == /\ q.mode2 \in {"day", "month"}
                 /\ NumericSegment(q.year) /\ NumericSegment(q.month) /\ NumberOf[q.month] \in 1..12
                 /\ q.mode2 = "day" => NumericSegment(q.day) /\ NumberOf[q.day] \in 1..31
        day == IF q.mode2 = "month" THEN 0 ELSE NumberOf[q.day]
    IN [Everything EXCEPT
            !.dates = IF dated THEN MonthRange(NumberOf[q.year], NumberOf[q.month], day) ELSE @,
            !.cats = IF q.mode2 = "cat" THEN q.cats ELSE @]

FeedEntries(q) ==
    IF q.mode2 = "entry" /\ q.ids # {} THEN Ordered({i \in q.ids : Live(i)})
    ELSE Limited(ListEntries(ParseRequest(q)), 0, MaxItems)

\* Each item with its permalink, and the date the channel was built last.
Channel(items) ==
    [links |-> [n \in DOMAIN items |-> EntryURL(items[n])],
     lastBuild |-> IF items = <<>> THEN In(present) ELSE In(row[items[1]].posted)]

CategoryFeed(c) == Query("cat", "", "", "", {c}, {})
MonthFeed(y, m) == Query("month", ToString(y), ToString(m), "", {}, {})
DayFeed(y, m, d) == Query("day", ToString(y), ToString(m), ToString(d), {}, {})
EntryFeed(i) == Query("entry", "", "", "", {}, {i})

\* The month the calendar draws: that of the page it stands on, or this one.
ParseYearMonth(p) ==
    /\ NumericSegment(p[1]) /\ NumberOf[p[1]] \in 1000..9999
    /\ NumericSegment(p[2]) /\ NumberOf[p[2]] \in 1..12
CalendarMonth(p) ==
    IF Len(p) >= 2 /\ ParseYearMonth(p) THEN <<NumberOf[p[1]], NumberOf[p[2]]>>
    ELSE Month(present)

\* Its cells: every day of the month, with a link where there is an entry.
BuildCalendar(ym) ==
    [d \in {Calendar[n][3] : n \in DaysOf(ym[1], ym[2])} |->
        [today |-> In(present) = <<ym[1], ym[2], d>>,
         links |-> IF d \in DaysWithEntries(ym[1], ym[2]) THEN {DayURL(ym[1], ym[2], d)} ELSE {}]]
CalendarPod(p) == BuildCalendar(CalendarMonth(p))

MonthlyArchivesPod == {[url |-> MonthURL(ym[1], ym[2]), count |-> MonthCount(ym)] : ym \in MonthlyArchives}
\* ListCategories counts the live entries of each.
ArchivesPod ==
    {[url |-> CategoryURL(c), feed |-> CategoryFeed(c),
      count |-> Cardinality({i \in LiveEntries : c \in CatsOf[i]})] : c \in DOMAIN CatAlias}
RecentPod == Limited(ListEntries(Everything), 0, MaxRecent)

EntriesForSitemap == Matching(Everything)

-----------------------------------------------------------------------------
(* Lists read page by page.  Every page is two queries, the count and the
   rows, at one time read before both; what comes next is made of the count. *)

NoWalk == [at |-> "none"]

\* Mutant: the last page is not offered when one entry is left.
Mutant_Next(kind, first, total) ==
    CASE kind = "search" -> total > first + PageSize - 1
      [] OTHER -> total > first + PageSize

\* The three pagers: pager, handleSearch, entriesList.
Next(kind, first, total) ==
    CASE kind = "listing" -> total >= first + PageSize
      [] kind = "search" -> total > first + PageSize - 1
      [] kind = "admin" -> ((first - 1) \div PageSize) + 1 < (total + PageSize - 1) \div PageSize

OpenList(l) ==
    /\ walk = NoWalk
    /\ walk' = [at |-> "counted", kind |-> l.kind, f |-> l.f, first |-> 1,
                total |-> Cardinality(Matching(l.f)), now |-> present, seen |-> {}, must |-> Matching(l.f),
                list |-> "steady", page |-> "whole", changes |-> 0]
    /\ UNCHANGED <<row, present, zone>>

ReadRows ==
    /\ walk.at = "counted"
    /\ walk' = [walk EXCEPT
            !.seen = @ \union ToSet(Limited(Ordered(MatchingIn(row, walk.now, walk.f)), walk.first - 1, PageSize)),
            !.at = IF Next(walk.kind, walk.first, walk.total) THEN "shown" ELSE "end"]
    /\ UNCHANGED <<row, present, zone>>

\* What goes back leads to the first row at the least.
FollowPrev ==
    /\ walk.at \in {"shown", "end"}
    /\ walk.first > 1
    /\ walk' = [walk EXCEPT !.first = Max({1, @ - PageSize}), !.at = "counted", !.page = "whole",
                            !.total = Cardinality(Matching(walk.f)), !.now = present]
    /\ UNCHANGED <<row, present, zone>>

FollowNext ==
    /\ walk.at = "shown"
    /\ walk' = [walk EXCEPT !.first = @ + PageSize, !.at = "counted", !.page = "whole",
                            !.total = Cardinality(Matching(walk.f)), !.now = present]
    /\ UNCHANGED <<row, present, zone>>

CloseList ==
    /\ walk.at = "end"
    /\ walk' = NoWalk
    /\ UNCHANGED <<row, present, zone>>

\* What the reader of the list would have to know: an entry left it or moved in
\* it, or one that came between the two queries tore the page.
Noted ==
    IF walk = NoWalk THEN walk' = walk
    ELSE LET in(table, now) == MatchingIn(table, now, walk.f)
             moved == {i \in in(row, present) :
                          i \notin in(row', present') \/ row'[i].posted # row[i].posted}
             torn == walk.at = "counted" /\ ~(in(row', walk.now) \subseteq in(row, walk.now))
         IN walk' = [walk EXCEPT !.must = @ \ moved, !.changes = @ + 1,
                                 !.list = IF moved # {} THEN "moved" ELSE @,
                                 !.page = IF torn THEN "torn" ELSE @]
MayChange == walk.at # "end" /\ (IF walk = NoWalk THEN TRUE ELSE walk.changes < MaxChanges)

\* An author saves, releases, withdraws or deletes an entry.
WriteEntry(i, r) ==
    /\ MayChange
    /\ row[i] # r
    /\ row' = [row EXCEPT ![i] = r]
    /\ UNCHANGED <<present, zone>>
    /\ Noted

TimeGoesOn ==
    /\ MayChange
    /\ \E t \in Times : t > present /\ present' = t
    /\ UNCHANGED <<row, zone>>
    /\ Noted

MoveZone ==
    /\ walk = NoWalk
    /\ zone' \in Zones \ {zone}
    /\ UNCHANGED <<row, present, walk>>

ReaStart ==
    /\ row = [i \in Entries |-> NoRow]
    /\ present = Min(Times)
    /\ walk = NoWalk
ReaInit == ReaStart /\ zone \in Zones
ReaRest == ReaStart /\ zone = CHOOSE z \in Zones : TRUE

ReaNext ==
    \/ \E l \in Browsed : OpenList(l)
    \/ ReadRows \/ FollowNext \/ FollowPrev \/ CloseList
    \/ \E i \in Entries, r \in Rows : WriteEntry(i, r)
    \/ TimeGoesOn \/ MoveZone

ReaSpec == ReaInit /\ [][ReaNext]_reaVars

-----------------------------------------------------------------------------
(* Entries whose permalink names them alone. *)
Addressed(i) ==
    /\ Len(AliasOf[i]) < 2
    /\ \A j \in Entries \ {i} : row[j].there /\ AliasOf[i] # <<>> => AliasOf[j] # AliasOf[i]
Reached(c) == CatAlias[c] \notin ReservedSegments

\* The clock shows the midnight a day begins with, and shows it once.
Sharp(n) ==
    Cardinality({t \in (Midnight(n) - PerDay)..(Midnight(n) + PerDay) : Clock(t) = Midnight(n)}) = 1
WholeDay(n) == Sharp(n) /\ Sharp(n + 1)
WholeMonth(y, m) == Sharp(Min(DaysOf(y, m))) /\ Sharp(Min(DaysOf(y, m)) + Cardinality(DaysOf(y, m)))

EveryAddress ==
    {EntryURL(i) : i \in {j \in Entries : row[j].there}} \union {CategoryURL(c) : c \in DOMAIN CatAlias}
        \union {UserURL(AuthorOf[i]) : i \in Entries} \union {PrintURL(i) : i \in Entries}
        \union {MonthURL(d[1], d[2]) : d \in ToSet(Calendar)}
        \union {DayURL(d[1], d[2], d[3]) : d \in ToSet(Calendar)}
        \union {At(<<>>)} \union {Url(<<>>, "entry", {i}) : i \in Entries}

OnPage(page) == IF page = NotFound THEN {} ELSE page.shows
Visitor(u) == OnPage(Opens(u, FALSE))

\* What a live entry must be reached by.
EntryReached(i) ==
    LET t == In(row[i].posted) IN
    /\ Addressed(i) => \A u \in {EntryURL(i), LegacyURL(EntryURL(i))} : Opens(u, FALSE) = Single(i)
    /\ \A u \in {PrintURL(i), LegacyURL(PrintURL(i))} : Visitor(u) = {i}
    /\ t[1] >= Cutoff => Month(row[i].posted) \in MonthlyArchives
    /\ WholeMonth(t[1], t[2]) => i \in Visitor(MonthURL(t[1], t[2]))
    /\ WholeDay(DayIndex(row[i].posted)) => i \in Visitor(DayURL(t[1], t[2], t[3]))
    /\ i \in Visitor(UserURL(AuthorOf[i])) \intersect EntriesForSitemap
    /\ \A c \in CatsOf[i] : Reached(c) => i \in Visitor(CategoryURL(c))
    /\ ToSet(FeedEntries(EntryFeed(i))) = {i}
    /\ \A j \in RelatedEntries(i) : i \in RelatedEntries(j)
    \* The calendar beside it shows its day.
    /\ AliasOf[i] # <<>> /\ WholeMonth(t[1], t[2]) =>
          CalendarPod(EntryURL(i).path)[t[3]].links = {DayURL(t[1], t[2], t[3])}

\* Every address the blog hands out leads where it says, in the blog's zone and
\* over the old paths as over the new ones: the permalink to its entry, the
\* months, the categories and the calendar's days to as many entries as they
\* counted, the feeds to what their page shows, and each item of a feed to its
\* entry; and no address, feed or list shows a visitor an entry that is not live
\* (EntryURL against entryByPath, MonthlyArchives and DaysWithEntries against
\* monthRange, parseRequest against all of them).  The clock may change at any
\* hour of a day or a month but the midnight it begins or ends with: where that
\* is skipped or comes twice, time.Date gives no first moment, and the day's page
\* and the month's may lack an entry or show another day's.
LinksOpen ==
    walk = NoWalk =>
        /\ \A i \in LiveEntries : EntryReached(i)
        /\ \A ym \in MonthlyArchives : WholeMonth(ym[1], ym[2]) =>
            \A month \in {p \in MonthlyArchivesPod : p.url = MonthURL(ym[1], ym[2])} :
                Cardinality(Visitor(month.url)) = month.count
        /\ \A c \in DOMAIN CatAlias : Reached(c) =>
            \A pod \in {p \in ArchivesPod : p.url = CategoryURL(c)} :
                /\ Cardinality(Visitor(pod.url)) = pod.count
                /\ ToSet(FeedEntries(pod.feed)) \subseteq Visitor(pod.url)
                /\ Len(FeedEntries(pod.feed)) = Min({pod.count, MaxItems})
        /\ \A n \in DOMAIN Calendar :
            LET d == Calendar[n]
                cell == BuildCalendar(<<d[1], d[2]>>)[d[3]]
            IN
            /\ WholeDay(n) /\ WholeMonth(d[1], d[2]) =>
                  (Visitor(DayURL(d[1], d[2], d[3])) # {} <=> cell.links # {})
            /\ ToSet(FeedEntries(DayFeed(d[1], d[2], d[3]))) \subseteq Visitor(DayURL(d[1], d[2], d[3]))
            /\ ToSet(FeedEntries(MonthFeed(d[1], d[2]))) \subseteq Visitor(MonthURL(d[1], d[2]))
        /\ LET feed == FeedEntries(Query("", "", "", "", {}, {})) IN
            \A n \in DOMAIN feed : Addressed(feed[n]) => Visitor(Channel(feed).links[n]) = {feed[n]}
        /\ \A u \in EveryAddress : Visitor(u) \subseteq LiveEntries
        /\ ToSet(RecentPod) \subseteq LiveEntries
        /\ \A i \in Entries : row[i].there => OnPage(Opens(PrintURL(i), TRUE)) = {i}

\* A reader who pages through a list to its end has seen every entry that was in
\* it all the while, however many came in meanwhile, unless one left the list or
\* moved in it, or one came in between the two queries of the last page (the
\* three pagers, ListEntries).
PagingMissesNothing ==
    walk.at = "end" /\ walk.list = "steady" /\ walk.page = "whole" => walk.must \subseteq walk.seen
=============================================================================
