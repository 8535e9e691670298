# Formal verification of go-blogcfc

TLA+ models of the blog server in `src/`, the TLC configurations that check them
on small instances, and TLAPS proofs of their main properties for every size.
`PROJECT.json` maps each definition to the lines of Go it stands for.

## 1. The system

One Go process (`src/cmd/go-blogcfc/main.go`) serves a blog from one MySQL
database. Every HTTP request runs in a goroutine of its own; one further goroutine
sweeps for scheduled entries every minute. Shared state is of four kinds only:

* **the database**, reached through `internal/store`, one autocommitted statement
  at a time. Few functions use a transaction. There are no foreign keys, and
  updates write every column of a row read earlier;
* **the page cache** (`internal/cache`), a map of slots behind a mutex;
* **the settings snapshot** (`internal/config/settings.go`), behind an RWMutex;
* **files** under the folders of enclosures, images and slideshows, reached by name.

Handlers therefore meet in one pattern: read a row, work on the copy (and perhaps
send mail, which takes seconds), write the whole copy back, flush the cache. The
hard behaviour of this program is what happens between those steps.

| Component | State | Operations | What makes it correct |
|---|---|---|---|
| Release engine (`release/release.go`, `store/release.go`) | `released`, `posted`, `sendemail`, `mailed` of an entry; the sweep's snapshot | `OnEntrySaved`, `MailNow`, `MarkMailed`, `Ping`, `Sweep`, `Run` | a subscriber gets an entry once; a draft is announced to nobody; a due entry is mailed in the end, across crashes |
| Entry writes (`admin/entries.go`, `xmlrpc/methods.go`, `store/entries.go`) | the entry's row and links | create, edit, delete, in the editor and over XML-RPC | every way in runs the release hook and the flush |
| Page cache (`cache/cache.go`) | generation, slots, waiters | `Get`, `Flush` | one fill at a time for a key; nothing from before a flush after it; errors are not kept; no waiter is stranded |
| Cache users (`web/handlers.go`, `feeds/`, `pods/pods.go`) | none of their own | fill a key with a read of the database | they never show what a finished write took away |
| Comments and notification (`web/comments.go`, `notify/`, `store/comments.go`, `admin/comments.go`, `admin/moderate.go`) | comment rows: address, subscribed, moderated, subscription only; kill tokens | post, subscribe, approve (4 ways), save, delete, unsubscribe, notify | a held comment is private; the thread is told once; links work; mail that is off stays off |
| Mail subscribers (`store/subscribers.go`, `pods/subscribe.go`, `web/subscriptions.go`, `admin/subscribers.go`, `admin/mailsubscribers.go`) | address, token, verified | sign up, confirm, unsubscribe, verify, delete, purge, mail to all | only who confirmed is mailed; a link that is out goes on naming its row |
| Entry addresses (`admin/entries.go`, `xmlrpc/methods.go`) | the alias of an entry | make, look up, write; an author's delete of drafts | one entry for an alias; an author deletes only drafts |
| View counter (`web/routes_entry.go`) | a signed cookie; `views` | `countView`; a save writes `views` back | at most one count per visitor and entry while the cookie remembers it |
| Taxonomy (`store/categories.go`, `store/pages.go`, `admin/categories.go`, `admin/pages.go`) | categories, pages, link tables, the cached menu | create, update, delete, file | names and aliases unique; links have both ends; the sidebar follows |
| Related entries (`store/related.go`, `store/related_editor.go`, `admin/entries.go`) | rows that one entry wrote and both show | show, replace, delete with the entry | a save drops no relation its author left on the list |
| Files (`admin/images.go`, `admin/files.go`, `admin/entries.go`) | a folder | look for a free name, create, copy, clean up, delete | an upload's file is its own and whole |
| Slideshows (`admin/slideshows.go`) | directories, pictures, `metadata.xml` | create, rename, upload, remove | captions follow their pictures |
| Migrations and seeding (`migrate/`, `cmd/go-blogcfc/main.go`) | `schema_migrations`, schema, seeds | `Up`, `Seed`, serve | whoever serves has all of it, whatever died before |
| Sessions, roles, users (`auth/`, `admin/login.go`, `admin/users.go`, `admin/password.go`, `migrate/seed.go`) | `users`, `user_roles`, a signed cookie | sign in and out, create, update, delete, change password, seed | nobody has access that was not given; somebody can still get in |
| Settings (`config/settings.go`, `store/settings.go`, `admin/settings.go`) | table, snapshot, time zone | save, `Reload`, restart | the snapshot is the table as it stood, and catches up |
| XML-RPC (`xmlrpc/`) | none | decode, authenticate, dispatch, store, encode | fetch and return changes nothing |
| Antispam (`antispam/`, `web/comments.go`, `web/contact.go`, `web/send.go`) | none: stamps and tokens are signed | check a form | the verdict is what the settings say it is |
| Reading (`web/permalink.go`, `web/handlers.go`, `legacy/`, `feeds/`, `pods/`, `store/archives.go`, `store/entries.go`) | none | addresses, archives, calendar, feeds, search, pages | an address handed out opens what it says; no draft shows; paging misses nothing |
| Mail transport, rendering, i18n, reports, server shell | none that two requests contend for | formatting, reads, wiring | not modelled; section 7 |

Interactions: entry saves call the release engine, which mails the verified
subscribers and marks the row; every admin write flushes the cache; the home page,
the feeds and the sidebar fill it; comments hang off entries, notify through the
same mail sender and appear in the cached sidebar; settings decide moderation, the
owner's address and what is mailed.

## 2. Plan

Order: by how much a race costs. Mail cannot be taken back, so the release engine
comes first, then the cache everything is served from, then comments, the other
source of mail.

| Step | Modules | Status |
|---|---|---|
| 1 | `Release`, `MCRelease`, `ReleaseProofs` | done |
| 2 | `Cache`, `Memo` (abstract), `CacheProofs` | done |
| 3 | `Comments`, `MCComments`, `CommentsProofs` | done |
| 4 | `Subscribers`, `Content`, `Views`, `Taxonomy`, `Uploads`, `Slideshows`, `Related`, composed in `Site`; `MCSite` | done |
| 5 | `Startup`, `Accounts`, `Settings`, composed in `Boot`; `MCBoot` | done |
| 6 | `Xmlrpc`, `Antispam`, `Reading`, composed in `Edges`; `MCEdges` | done |
| 7 | `SiteProofs`: each part of `Site`, and the composition | done |
| 8 | `BootProofs`: each part of `Boot`, and the composition | done |
| 9 | `ReadingProofs`: paging, and every link | done |
| 10 | `XmlrpcProofs`: the codec, and fetch and return | done |
| 11 | `EdgesProofs`: the verdicts on forms, and the composition of the edges | done |

The modules of steps 4 to 6 are written apart and composed as sums. The parts keep
different columns, tables and files, and what a handler of one does to the state of
another is an action of that other: the save that writes the counter back is in
`Views`, the write that publishes an entry under a reader in `Reading`, the filing of an
entry in `Taxonomy`. Each behaviour of the composition is then one behaviour of each
part, interleaved, and as every property speaks of one part, looking at one part at
a time loses nothing. The variable `part` (`edge`) is chosen at the start and says
which.

## 3. Modules

### `Release`: an entry going live

State: `row`/`life` are the table; `job` says, for each request and the sweep,
where it is, which entry it holds, and **its copy of the row**; `due` is the rest
of the sweep's snapshot; `cached`/`home` the home page in the cache; `tries`,
`pinged` what the world was told. `published` and `overlapped` are history: every
released version stored, and the entries that two workers ever held at once.

One action per statement and per message:

| Code | Actions |
|---|---|
| `entrySave`, `savePost` | `Create`, `OpenEdit`, `Refuse`, `Write`, `Attach`, `AttachFail`, `Flush` |
| `entriesDelete` | `OpenDelete`, `Refuse`, `Delete`, `Flush` |
| `OnEntrySaved`, `MailNow`, `Ping` | `Hook`, `HookFail`, `Send`, `Mark`, `MarkGone`, `MarkFail`, `Ping` |
| `Sweep` | `SweepStart`, `SweepNext`, `SweepSkip`, then the mail actions |
| the process, readers, time | `Crash`, `Visit`, `Tick` |

The two ways in differ where the code does: the editor runs the hook before its
flush and notes the stored `released` flag first; `savePost` flushes before the
hook and reads the flag through a pointer it has already overwritten
(`ReleasedBefore`).

### `Cache` and `Memo`

`Cache` models `Get` line by line between lock and unlock: a call finds a slot
(`Hit`) or makes one (`Miss`), fills it outside the lock (`FillRead`, `FillError`,
`FillPanic`), closes it (`Close`), takes a failed one out if it is still its own
(`Forget`), or waits (`Wake`). `Writers` write and then flush, or never flush.
The database is a version number. `Memo` is the promise, with no lock or slot: one
reading for each key and flush epoch, taken after the epoch began. The refinement
(`M == INSTANCE Memo WITH ...`) maps a slot that was read to a reading, and a
generation to an epoch. It justifies taking a fill as one step elsewhere
(`Release!Visit`, `Comments!FillSidebar`).

### `Comments`: the thread of one entry

State: `row`/`life` are the entry's rows in `comments`; `entry` and `moderate` what
other screens change; `job` what each request is doing, with its copy of the
comment, its remaining recipients and the links it will send; `cached`/`shown` the
sidebar; `told` and `links` the mail that is out. `approved`, `again`, `edited`,
`off`, `killed` and `missed` are history.

| Code | Actions |
|---|---|
| `handleAddComment`, `postComment`, `handleSubscribeComment` | `Post`, `Insert`, `Clear`, `ClearFail` |
| `Notifier.send` | `Notify` (recipients and setting read once), `Send` (one message) |
| `/?killcomment`, `/?approvecomment` | `Kill`, `ApproveByLink` (by anybody who has the comment's id) |
| `/unsubscribe?email=&commentID=` | `OpenUnsubscribe`, `Unsubscribe` |
| queue, editor, lists | `OpenApprove`, `Approve`, `Flush`, `Lookup`; `OpenSave`, `Save`; `DeleteMarked` |
| other screens | `ChangeEntry`, `Attach`, `ChangeSetting` |
| anything that ends early | `Abandon`, `Crash` |

The save that hides or shows the entry writes its row first (`ChangeEntry`), then its
categories and related entries (`Attach`), and flushes last; if one of those fails it answers
500 and does not flush (`Abandon`). A deletion is one transaction and goes to its flush.

A row that is inserted, an id and a kill token are fresh, so `Post` picks an id
nobody has. The editor's `Save` writes any version of the row, whatever happened
since it was read. `Named` lets the unsubscribe link name any of the recipient's
subscribed rows; the code takes the earliest.

### `Subscribers`: the mailing list

`row` is the table, `req` where each request is between its statements and mails;
`issued` says for whom a token was drawn; `confirmable` and `leavable` are the links
that are out; `opted` is history.

| Code | Actions |
|---|---|
| `handleSubscribe`, `AddSubscriber`, the confirmation mail | `SignUp`, `SubInsert`, `SendConfirmation` |
| `/confirmsubscription`, `/unsubscribe` | `OpenConfirmation`, `Confirm` (a lookup by token, an update by address), `Leave` |
| the admin's screen | `VerifyByHand`, `DeleteSubscriber`, `NukeUnverified` |
| the message to all | `OpenBroadcast` (recipients read once), `SendToOne` |

### `Content`: what an entry is called

`OpenEditor`, `CheckAlias` and `WritePost` are `entrySave`: the lookup and the write
are two statements, and `entries.alias` has no unique key. `OpenXmlrpcNew` and
`OpenXmlrpcEdit` are `savePost`, which looks nothing up. `OpenDraftDelete`, `Sift` (one
row) and `DeleteDrafts` are an author's `entriesDelete`. `shared` notes the aliases that
XML-RPC took, or that two requests held at once.

### `Views`, `Taxonomy`, `Uploads`, `Slideshows`, `Related`

* `Views`: `counted` numbers the views of an entry and says whose each was. `OpenEntry` takes
  the cookie along, `Count` or `SkipCount`, then `Answer`
  replaces the cookie (`writeSeen`); answers and cookies get lost; `OpenSave`/`EndSave`
  is the editor, which writes the counter it read.
* `Taxonomy`: the category screen, the page screen, and filing an entry, which can
  make a category on the way (`MakeCategory`), then sets the categories (`File`) and the related
  entries (`RelateFiled`); each write is followed by `Drop` of the cached menu, unless a
  later statement fails (`TaxFails`): then a category that was made is on no cached menu. `FileUnchecked` is XML-RPC's
  `setPostCategories`.
* `Uploads`: `Look`+`CreateFile` (pictures, the file manager) and the `try` loop
  (enclosures); a copy ends in `FinishCopy`, `BreakOff` (the file is removed by name)
  or `LeavePart`.
* `Slideshows`: a rename and the removal of a picture read `metadata.xml` and write
  it back: `ReadMeta`, `Truncate`, `WriteMeta`.
* `Related`: `OpenForm` is the editor's page with the rows of both directions
  (`RelatedForEditor`), `PostForm` what `relatedFromForm` makes of the answer, `SaveRow` and
  `Relate` the statements of `entrySave`; `DeleteEntries` takes the rows of both directions,
  `CloseForm` ends a form or a save early. A form keeps the list it was opened with; `since`
  is history: what other saves of the entry wrote after that; `took` what the author of a
  posted form took off the list.

### `Startup`, `Accounts`, `Settings`

* `Startup`: `Connect`, `ReadVersions` (once), then `SkipVersion` or `RunStatement`s and
  `RecordVersion`, then `PlantRow`s and `Serve`; `Die` anywhere, `Start` again. It begins
  on an empty database or one an older binary left, seeds edited or not.
* `Accounts`: a request reads the user (`ReadUser`), then the roles (`ReadRoles`), and
  acts on that copy: `CreateUser`, `UpdateUser`, `DeleteUser`, `ChangePassword`.
  `CountUsers` and `InsertAdmin` are `SeedAdmin` in processes that start together.
  `granted` is history: the roles ever given to a name.
* `Settings`: `Commit` (one transaction), `ReadTable`, `Publish` (the swap under the lock,
  zone included), `Restart`. A value is the save that wrote it.

### `Xmlrpc`, `Antispam`, `Reading`

These are mostly functions; their state is what the functions are asked about.

* `Xmlrpc`: a packet is a tree (`Elem`, `Text`). `EncodeWith`, `DecodeCall`, `ParseWith` are
  `codec.go`; `PostStruct`, `SavedRow` and the methods `methods.go`; `EscapeMarkup`, `SplitMore`
  and the entities `markup.go`. A style is how a client writes a packet: typed,
  without types (`EncodeWith`), with what the decoder has to skip (`Among`). Values nest three deep
  in another, as the posts of getRecentPosts do; the coder and the decoder are one operator per
  depth (`Encode0` to `EncodeValue`, `Parse0` to `ParseValue`), each of which gives what stands
  inside, converted already, to `EncodeInner` or `ParseTyped`. The rich-text toggle's regular
  expressions work on a text that is a sequence of pieces: the blog's own tags (`<code>` with
  a block's text, an empty block, `<more/>`, `<textblock a>` with a label), the same tags as an author
  wrote them out, the bracketed forms those go out in, and a single `&gt;`. What the greedy
  expressions make of several of them is in `Swallowed` and `InLabel`; a piece they or `SplitMore`
  cut through is `torn`. What clients may put in a post is
  `IsDraft`, what the table may hold `IsRow`. Actions are the calls that write.
* `Antispam`: a form goes out (`OpenForm`) and may be posted at any later state
  (`Submit`); between, time passes, settings change, the visitor logs in, the entry
  closes, the secret changes. `Errors` is what the three handlers answer.
* `Reading`: the queries (`Where`, `ListEntries`, `MonthlyArchives`, ...), the addresses
  (`EntryURL`, `DayURL`, ...), what opens them (`HandleHome`, `HandleSES`, `EntryByPath`,
  `RedirectQueryID`, `ParseRequest`), the pods and the pagers. A zone (`Tz`) says of each moment how
  far the blog's clock is ahead, so it is put forward and back; a day's and a month's range
  is cut by `time.Date` and `AddDate` as Go computes them (`TimeDate`, `NextDay`, `NextMonth`).
  Actions write entries, move
  time and the zone, and follow a list page by page, a count and a query for each.

## 4. Runs

State counts are of distinct states.

| Run | Bounds | Shows |
|---|---|---|
| `release` | 1 entry, 2 requests (symmetric) and the sweep, 1 subscriber, 3 saves, 2 clock values, both ways in, no faults | every race of two handlers and the sweep: `MarkedMeansTried`, `OnlyPublishedIsAnnounced`, `OncePerSubscriber`, `CacheNeverShowsWithdrawn`, `MarkLostOnlyByOverlap` |
| `release_sweep` | 2 entries, 2 subscribers, 1 request and the sweep, 2 saves, 1 fault | a failed statement or a crash anywhere; `DueIsMailed` is the liveness of the sweep (about 400,000 states) |
| `cache` | 3 calls, 2 keys, 1 writer | safety, `EveryCallReturns`, and `ImplementsMemo` (about 33,000 states) |
| `comments` | 2 comments, the owner and a reader, 2 requests at a time, 3 in all (symmetric) | all six properties (about 1,517,000 states) |
| `site` | 2 of each actor (3 uploads), 2 rows (1 page, 1 entry to file, 1 picture), a cookie of 1 id, 2 names for an upload, 2 related entries of which one is a draft, 2 forms | `OptIn`, `RowKept`, `AliasUniqueWhenAlone`, `AuthorDeletesDrafts`, `CountedOnce`, `ViewsAddUp`, `LinksStand`, `MenuCurrent`, `UploadsKept`, `CaptionsFollow`, `RelationsKept` (about 864,000 states) |
| `boot` | 2 processes, 2 versions of 2 and 1 statements, 1 death; 2 names, 2 roles, 2 requests, 2 seeders; 2 saves of the form, 1 of the pods | `ServesComplete`, `StartedServes`, `RolesWereGranted`, `SomebodyIsLeft`, `SeedingChangesNobody`, `SnapshotFollows` (about 258,000 states) |
| `edges` | 2 posts and 11 drafts in 3 spellings; 3 instants, 2 secrets, lists of 2 and 3 patterns; 3 entries on 4 days of 2 months, 3 zones with a change of the clock each, pages of 2 | `FetchAndReturn`, `FormVerdicts`, `LinksOpen`, `PagingMissesNothing` (about 305,000 states) |
| `release_mailed_once`, `release_schedule`, `release_xmlrpc`, `release_home`, `comments_approve` | the least that shows it | counterexamples to sentences of the documentation; section 6 |

Why the bounds are enough. Two handlers and the sweep are all the parties a race
on one row has in this code; a third save lets a write undo what an earlier pair
did (mark, write back the old copy, mail again). Two clock values give past, now
and future. Two entries make the sweep's snapshot longer than one, which is where
a row changes while an earlier one is mailed; one fault puts a failed statement or
a crash at each step of each behaviour, and a second one only repeats that. Three calls
give the cache a filler, a waiter and a newcomer of the next generation. Two
comments give a thread that has a subscriber when the second comment is posted,
and three requests let an approval or an edit meet the post.

In `site`, `Readers`, `Writers`, `Tabs`, `Keepers`, `Hands` and `Editors` are requests that are
reused, so that two of them stand for any number as long as no more than two meet.
The numbers the code has large are small where the case is at their end: the
cookie of 200 ids holds 1 (`SeenMax`), the 999 names of an upload are 1 after the
first (`LastName`), and three uploads fill them. `MaxViews` stops the counters. In
`boot`, a file of two statements is one a crash can leave half applied, and a
second version shows that the record goes by version. In `edges`, the ages a stamp
may have are 1 of a run of 3 instants (`MinSeconds`, `MaxSeconds`, `Ttl`, `MaxTime`), each
crossed from both sides (`Steps`); six and seven links stand on either side of the
limit; a date without bound is 180 seconds off (`Forever`); a day has 4 seconds; the calendar's months have two days, which is a first and a last, and are a
year's end and a year later; of the three zones one puts its clock forward in the morning, one at
midnight, and one puts it back so that a month's first midnight comes twice (`MCTz`), and entries are
posted just beside those changes; pages hold 2 of 3 entries; `MaxEntries`, `MaxItems`,
`MaxRecent` and `MaxChanges` (writes under one walk) are bounds too. `Alone` lets one
post at a time be worked on over XML-RPC.

The theorems remove every bound on sets for safety; the bounds on saves and requests
are constants of the theorems too, hence arbitrary.

`CHECK_DEADLOCK FALSE` everywhere: a server with no requests stands still, and
the bounded ones run out of requests.

`Views`, `Taxonomy`, `Slideshows`, `Related`, `Settings` and `Reading` have a type operator as
well: a theorem each. `site`, `boot` and `edges` check what the variables are used for instead.

Each property of a passing run also has a mutant (`Mutant_...` in the modules): a
plausible mistake in the code, under which the property is violated.

### Fairness

* `Release`: weak fairness of `SweepProgress`, the sweep's own steps. `Run` ticks
  every minute for as long as the process lives; each message is bounded by the
  30 s SMTP time-out and each statement returns or fails; `main.go` starts it
  before the server. Failures are not fair, and nothing is assumed of requests, so
  `DueIsMailed` rests on the sweep alone.
* `Cache`: weak fairness of a started call's fill and of its remaining steps. A
  goroutine that holds no lock and waits on nothing is scheduled. A fill ends in a
  value, an error or a panic; which one is not assumed. No writer has to flush.
* `Startup`: weak fairness of `StaStep` of each process: a statement of a process that
  runs returns or fails. Nothing says that a process is started, or started again
  after it died, so `StartedServes` ends in serving or in being down.
* The others: none; all their properties are safety.

## 5. Proofs

All theorems are for arbitrary finite or infinite constant sets, from the named
assumptions in the modules (`ReleaseAssumption`, `CacheAssumption`, ...), which say only
that null values are outside their sets, that the owner is an address, that the
sweeper is no request, that "admin" is a name and its roles are roles, that ids of
pages and of entries are apart, that a version has statements, that the entries of the
lists are a finite set of numbers (their ids), that there is a secret, that what a question asks
for is digits, that the schemes of a link are in small letters, and that bounds are naturals. `XmlrpcAssumption` says what may be
in the constants of the endpoint: the blog's clock shows the instants there are, and a text with a zone is no text of
its own; ids, users, passwords and the names of categories are words, neither blank nor dropped by XML, and a name is one
category's; what clients send is a draft, and what the web editor wrote a row whose first half has no tag
(`admin/entries.go:547-557` cuts at the first one and refuses one at the start). Three more
are `Reading`'s, which `edges` evaluates on its instance: every month of the calendar begins with its first
day and has its days in order, with years of four digits (`CalendarAssumption`); a zone is ahead or
behind by less than a day, and every moment an entry may have falls on a day of the calendar in every zone, and between the dates a
filter without bounds stands for (`ClockAssumption`); no zone changes its clock twice within two
days, nor where the calendar begins (`ZoneAssumption`); a category's alias is its own unless it is empty,
and is no file name of the old blog, and a number is written like no other number and no word of a path
(`SegmentAssumption`).

`ReleaseProofs`
* `TypeCorrect`.
* `MarkFollowsMail`: `MarkedMeansTried` is not inductive, since a save may write back
  a copy. `TriedInv` adds that a *copy* with the mark belongs to a tried entry, and
  that a round's untried subscribers are all still on its list.
* `DraftsStayQuiet`: `PublishedInv` traces every released row, copy and snapshot row
  to a stored version; time only grows.
* `FlushIsEnough`: `CacheNeverShowsWithdrawn` is inductive as stated, because it names
  the requests whose flush is still to come (`Unflushed`).
* `MailedAtMostOnce`: as long as an entry is not in `overlapped` it has a sole holder
  whose copy agrees with the row (`SoleHolder`, `RoundInv`), so the check on the
  copy is a check on the row.
* `MarksStay`: the action property, from the same invariant.

`CacheProofs`
* `TypeCorrect`, `FlushIsFinal`, `FillsAreSingle`, `FailuresAreForgotten`, from `SlotInv`: who owns
  a slot, which generation it is of, what the map holds, and that a reading is no
  older than the flushes before the calls that answer from it.
* `CacheIsMemo`: initial states map to initial states of `Memo`, and each action maps
  to one of its actions or to a stutter (`Miss` to `Ask`, `FillRead` to `Read`, ...).

`CommentsProofs`
* `TypeCorrect`: needs that whoever is still to be mailed a link has one (`TodoLinks`).
* `HeldIsPrivate`: `HeldInv` says every request about to tell the thread works on a
  comment that was stored as moderated; the mail itself does not look again.
* `ThreadIsToldOnce`: `ThreadInv` says at most one request is `Telling` the thread of a
  moderated comment, nobody on its list has been told, and nobody has been told
  of a comment that is still held.
* `LinksAreGood`, `OffIsOff`, `SidebarTellsTheTruth`: with `BornInv`, that an insert has
  its id to itself and an id without a row shows nowhere. The sidebar's property names what
  a save of the entry that has not flushed, or broke off before, leaves (`HalfSaved`).

`SiteProofs`: first `Content`, `Views`, `Related`
* `AliasesAreApart`: whoever is past the lookup has the alias to itself (`ClearToWrite`),
  which needs that two requests about to write one alias were noticed (`HeldApart`).
* `AuthorsDeleteDrafts`: what passed the sieve was a draft and stayed one, or was
  turned meanwhile (`SievedDrafts`, `SievedBorn`).
* `VisitorsCountOnce`, from `VisitorOK`: a visitor who goes on one page at a time and reads no
  more entries than the cookie holds has one view of each entry the cookie names, none of
  the entry a page is about to count unless the cookie names it, and a cookie that names
  all that was counted while no page is out. That the cookie drops nothing is a count of
  ids (`Cardinality(ReadBy(v)) <= SeenMax`).
* `CountersAddUp`: a save that is open holds the counter there is (`AddedUp`); the numbers of
  an entry's views stay within their count, so the next view is a new one (`Numbered`).
* `RelationsStay`, an action property: a form whose author took nothing off knows every relation
  its entry wrote, or another request wrote it since (`FormKnows`), and no row names an
  entry that is still to be born (`RowsBorn`): without that a new entry would inherit rows.
* `ContentTypeCorrect`, `ViewsTypeCorrect`, `RelatedTypeCorrect`.

then `Uploads`, `Slideshows`, `Subscribers`, `Taxonomy`, and `Site`
* `FilesAreKept`: while an upload copies, the file of its name is the one it created,
  unless somebody deleted it (`CopiesOwn`), so the clean-up takes its own.
* `CaptionsStay`: as long as no two requests met, at most one is in flight, what it holds is
  what the file is about to lack (`Restores`), and every other slideshow has its own
  captions (`InTurn`). `CaptionsFollow` speaks of quiet moments only.
* `UploadsTypeCorrect`, `SlideshowsTypeCorrect`.
* `ListIsOptIn`, `RowsAreKept` (an action property), from `Drawn` (the token of a row, a
  request or a link was drawn for that address) and `Opted` (whoever is verified, about to
  be, or on the list of a message opted in).
* `LinksAlwaysStand`: a request in the middle of its statements goes on naming what is there,
  or a page or an entry that was deleted meanwhile (`JobsStand`).
* `MenuAlwaysCurrent`: inductive beside `TaxTypeOK`, as it names the requests whose drop of the
  menu is still to come, and those that failed after a write (`missed`), at the categories
  or at the related entries.
* `SiteRunsItsParts`: a behaviour of `Site` is a behaviour of each part by the part's own
  specification, whichever part it looks at; the slideshows may start with none, which
  their invariant allows. `SiteIsSafe` and `SiteStepsKeep` carry all that is proved of the
  parts over to the composition the run `site` checks. `SubscribersTypeCorrect`,
  `TaxonomyTypeCorrect`.

`BootProofs`: `Startup`, `Accounts`, `Settings`, and `Boot`
* `ServersAreReady`: what is recorded is in force (`RecordedInForce`), what is behind a
  process is in force whoever else dies (`BehindInForce`), and what a process that
  seeds has done stays (`SeedsPlanted`).
* `AccessIsGranted`: the roles a request goes by were given to the name it goes by
  (`GoesByGranted`), which is what the password page writes back. `LastUserStays`, and the
  action property `SeedIsHarmless`.
* `SnapshotIsCurrent`: what a save read was the table at some time (`ReadsWere`); a save that met
  no other is the only one on its way, and if it committed last, what it read is in
  force and nobody else is about to publish (`AloneIsAlone`).
* `BootRunsItsParts`, `BootIsSafe`, `BootSeedIsHarmless`: the same for the composition. Fairness
  is `Startup`'s alone and not part of it. `StartupTypeCorrect`, `AccountsTypeCorrect`,
  `SettingsTypeCorrect`.

`ReadingProofs`
* `PagersMissNothing`, for any number of entries and any size of page. `ReaInv` adds to the types
  that an entry which was in the list all along has been seen if fewer entries stand
  before it than the pages have covered (`Caught`), that the list has no more entries than
  were counted while its count was whole (`Counted`), and that a walk ends where no link
  leads on (`Ended`). An order by rank makes "stands before" a count; that a page of a
  finite set ordered so is the entries of certain ranks is a lemma (`PageHolds`), and so is
  that `ORDER BY posted DESC, id DESC` gives each entry a rank of its own.
* `AddressesOpen`: `LinksOpen`, for any calendar, entries, aliases, categories and authors, and any
  zones that keep to `ZoneAssumption`. What it says of the pages of a day or a month and of the calendar
  it says where the midnights that bound them come once (`WholeDay`, `WholeMonth`). It is
  no matter of induction over steps: it holds in every state whose rows have their types
  (`Served`), so any writes and any change of zone keep it. The argument follows a link
  through its handler. In the calendar, the range a month's or a day's address asks for
  holds what was posted in it and nothing else (`MonthDays`, `DayBegins`, `MonthAsked`,
  `DayAsked`): within two days the clock runs straight but for one change (`OneChange`), so a midnight
  that comes once is the moment `time.Date` gives, with what is before it on the days before and what
  is after it on the days after (`SharpStart`). Among the addresses, what is not an old form stays where it is, and an
  old form moves to the new (`Stands`, `MovesBack`, `Direct`). Each handler's filter then lets
  through the live entries of its address (`WhatIsListed`, `ArchivesOpen`, `IdsOpen`, `PermalinkOpens`,
  `CategoryOpens`, `AuthorOpens`, `FeedsAre`), and whatever else is asked, only live entries show
  (`OnlyLive`). For permalinks the
  property speaks of entries whose alias is one segment or empty and no other stored entry's
  (`Addressed`): of two that share an alias, the code shows either.
* `ReadingTypeCorrect`.

`XmlrpcProofs`: `Xmlrpc`
* `CallReturns`, `AnswerReturns`: what a client encodes, in whichever spelling, is decoded as what it
  meant, and so is what the blog answers; `CleanParam` says what comes back of a value (`nil` as an
  empty text, characters XML has no place for not at all). Every element the decoder skips or picks
  is a set of places in a sequence, counted up in order (`Picked`, `Ranks`, `OneCounting`).
* `PostsAreRows`: `XmlInv` says that every post is none, or a row with text in its columns, a date of
  the clock, and a tag in its first half only where that starts with one (`TagFirst`). It is
  inductive: a save splits at the first tag it finds (`SplitIs`), and what is decoded of a draft is a
  draft (`CleanIs`).
* `FetchedReturns`: `FetchAndReturn`, in every such state. The answer's struct is a draft (`StructIsDraft`), so a
  client decodes its eight members and the blog decodes them again, once and for all (`CleanTwice`);
  each is read as it was (`ComesBack`), the date as an instant that shows the same (`DateReturns`), the
  categories by their names (`CatsReturn`). The two halves are joined by a tag, written out for a
  rich-text client and back, and split at the first tag; the pieces in between commute with
  trimming and dropping (`TextReturns`), and nothing before the joint is a tag. `RowReturns` puts the row
  together. The precondition is that the halves can be told apart (not `Headless`), and, for a
  rich-text client, that the text has none of what the toggle does not give back (not `Garbled`);
  what it drops for good are the empty code blocks (`Sparse`). All else comes back: written-out
  tags through their brackets, one textblock or several with something by the author between, any
  number of code blocks.

`EdgesProofs`: `Antispam`, and `Edges`
* `FormsAreJudged`: `FormVerdicts`, for any words, patterns, addresses, texts, questions and secrets.
  The invariant is small (`SpmInv`): what a form carries was signed when it went out, with a
  secret of then, and if it asks, for what it asks (`Signed`). The work is in what the checks
  compute. The walk over the stars of a pattern (`Used`) is a recursive function; that it is one
  (`UsedDefined`), and every step along a text or a pattern, is proved by looking at the least
  number something could be wrong for (`Least`, `Induct`), which the library's theorems about well-founded
  relations give. The walk takes the first place of each part, so it uses up no more than any way
  the stars could stand for the text (`WalkIsFirst`): what fits is found (`GlobFinds`), and what is
  found fits, character by character (`PartsStand`, `GlobFits`). What is kept of an answer is the
  digits in their order, for which counting up a set of places is unique (`Ranks`, `OneCounting`,
  `AnswerIsRead`). The points cannot reach the limit by the stamp's age alone (`PointsDecide`), and a token
  is one only for its secret, time and answer (`TokensDiffer`, `TokenDecides`).
* `EdgesRunTheirParts`, `EdgesAreSafe`: a run of `Edges` is a run of all three edges by their own
  specifications, so the four invariants the run `edges` checks hold of the composition.

Only model-checked, and why:

* `DueIsMailed`, `EveryCallReturns`, `StartedServes`: liveness under fairness.
* The violations are TLC counterexamples.

## 6. Where the program and its documentation disagree

* **`release_mailed_once`**: `release.go:104-106` says the mark makes the mail happen once.
  The mark is tested on a copy, so a save and the sweep that both read the row
  before either marks it mail everybody twice. `OncePerSubscriber` is what does hold.
* **`release_schedule`**: `NOTES.md:70` says a scheduled entry pings when the sweep mails
  it. If it is saved again once due, that save mails it, passes "released before",
  and nothing ever pings.
* **`release_xmlrpc`**: `methods.go:266-268` wants "a first publish" to ping. `e` and
  `existing` are the same pointer, so the flag is read after it was set.
* **`release_home`**: `NOTES.md:290-291` says any write flushes the cache. The sweep's mark
  and the clock do not, so subscribers are mailed a link to an entry the cached
  home page does not show.
* **`comments_approve`**: `NOTES.md:73` says approving tells the thread. The Approve link in
  the owner's mail only updates the row; so does the editor's Save with "moderated"
  set to yes.

Without a run, since one statement of the code decides it:

* `subscribe.go:65-67` says that who got no confirmation mail subscribes again for a
  fresh link. `subscribe.go:53` answers any address on the list "already subscribed".
* `savePost` (`methods.go:242`) answers that another entry uses the alias when the store
  reports a duplicate; `entries.alias` has a plain key, so it never does, and two
  posts with one title get one alias. The permalink then finds one of them.
* `password.go:69-70` says "a password change is not a change of access". The roles that
  are written were read when the request began, so one taken away in between comes back.
* `antispam.go:106` says "a replayed form expires" and `NOTES.md:281` that any two weak signals
  block. The word list is checked outside `Verify`, which gets neither words nor
  addresses; a bad stamp gives two of three points, and only the honeypot or the
  links refuse.
* `comments.go:630-631` says the contact and send forms use "the comment pipeline's checks
  in one call". The check of the blocked addresses is not among them.
* `web.go:117` says a category's alias may not be a reserved segment. `reservedAliases` lacks
  "confirmsubscription" and "unsubscribe".
* `proxy_test.go:149` says "An empty picker clears the set". `SetRelatedEntries` deletes the
  rows the entry wrote; one that the other entry's editor wrote stays and shows again.
* `admin/entries.go:525-526` says of Preview and Return "Neither writes anything". An
  enclosure was stored or removed before they are looked at.

* `view.go:369-370` calls `monthRange` the bound of a day or a month in the blog's zone, and
  `archives.go:22-25` wants the months right on either side of a change of the clock. Where the clock
  skips a midnight, as America/Santiago's did on 2023-09-03, `time.Date` gives 23:00 of the evening
  before: an entry of 2023-09-02 23:30 is missing from the page of its own day, which the calendar
  links to, and stands on the next day's. Where a midnight comes twice, the range starts at one of
  the two. `LinksOpen` leaves those days and months out (`WholeDay`, `WholeMonth`).
* `markup.go:89-90` says that "what a rich-text client posted back becomes the stored form again". The
  label in line 47 is greedy: of two textblocks that come back in one post the first label reaches to the end of
  the second tag, or to a later `&gt;`. In the same way line 41 lets a code block reach to the end of code that an author
  wrote out behind it. `FetchAndReturn` leaves such texts out (`Garbled`).
* `methods.go:528-529` says `splitMore` cuts the field in two. It takes the place from the text in lower
  case and cuts the text itself there, so a letter whose lower case is shorter in bytes, such as
  the Kelvin sign, moves the cut into the tag (`Kelvin`, `torn`).
* `NOTES.md:290-291` says any write flushes. `entrySave` answers 500 without a flush when the categories or the
  related entries fail after the row (`admin/entries.go:643-652`), so sidebar and menu stay as they were.
* `NOTES.md:285` says views are counted once per visitor and entry. Two requests with one cookie both
  count (`routes_entry.go:56`); `CountedOnce` leaves those out.

Seen while modelling, and allowed for in the properties: the mailed Delete link does
not flush the sidebar (`web/comments.go:546-562`; hence `killed` in `SidebarIsHonest`); an
owner who subscribed to the thread is told of an approval all the same
(`notify.go:83-102` leaves the owner out of the fixed recipients only); the Approve link
depends on the setting and not on the comment being held, which `NOTES.md:273-275` says; a
save that fails after its first write leaves the older menu and sidebar (`missed` in `Taxonomy` and in
`Comments`, where `HalfSaved` also names the save that is still at it); a view
counted while a save is open is lost (`overwritten`); saves of the settings that
overlap may leave the older in force (`alone`); a post whose first half is empty, or starts
with the `<more/>` tag, does not survive the round trip over XML-RPC (`Headless`); the rich-text
toggle drops empty code blocks (`Sparse`, as `markup_test.go:60-64` wants), and a text in which an author wrote the
bracketed form itself comes back as the tag (`Spoiled`: `unescapeMarkup` cannot tell them from what
`escapeMarkup` wrote); a link made to a category that was deleted meanwhile stands on nothing (`loose`); going back to a search's first page logs the search again; day 30 or 31 in the address of a
shorter month shows a day of the next.

## 7. Not modelled

* Mail transport and templates: one bounded attempt per message, counted in `Release`
  and `Comments`; the rest is formatting.
* Rendering, languages, tag sizes, the admin's reports and dashboard: formatting and
  reads.
* Server shell, telemetry, configuration: wiring; `recoverPanic` is the fill that
  panicked in `Cache`.
* Text blocks: single rows with a unique label, written as pages are.
* Downloads, statistics of searches, slideshow pages: reads and inserts of single,
  independent rows.
* XML-RPC: HTTP framing, size limits, character sets and doubles.
* `Reading` reads the lists themselves; the home page and the pods may come from the
  cache, which is `Release` and `Cache`.
* `Xmlrpc`: tags with attributes other than a textblock's label, and more than 64 code blocks in a post
  (`maxMarkupPasses`).
* `Accounts`: how names are compared. `users.go:274` folds case to tell whether a manager is about to delete
  themselves, while the DELETE matches under `utf8mb4_unicode_ci`, which takes accents for their letters
  too; `MayDelete` compares names as they are, so a spelling of the manager's own name that differs
  in an accent, which the code would let through, is not among the requests.
* `Reading`: moments finer than a second, and zones that change their clock twice within two days.
* In what is modelled: texts and validation (a refused request never begins or ends
  with nothing written); whether the SMTP server accepted a message (counted when
  attempted, since the code goes on either way); authority (an author's save is
  one of the saves a publisher can make).
