SPECIFICATION EdgeSpec
CONSTANTS
    Ids = {"p1", "p2"}
    CatName <- MCCatName
    Password <- MCPassword
    Wall <- MCWall
    Gmt <- MCGmt
    Zoned <- MCZoned
    Now = 3
    MaxEntries = 1
    Drafts <- MCDrafts
    Written <- MCWritten
    Styles = {"typed", "bare", "chatty"}
    MinSeconds = 1
    MaxSeconds = 1
    Ttl = 1
    MaxTime = 3
    Steps = {1, 2}
    Secrets = {"old", "new"}
    SpamWords <- MCSpamWords
    IpBlocks <- MCIpBlocks
    Ips <- MCIps
    Texts <- MCTexts
    Sums <- MCSums
    Guesses <- MCGuesses
    LowerCase <- MCLower
    Entries = {1, 2, 3}
    AliasOf <- MCAliasOf
    CatsOf <- MCCatsOf
    AuthorOf <- MCAuthorOf
    TermsOf <- MCTermsOf
    RelatedTo <- MCRelatedTo
    CatAlias <- MCCatAlias
    Calendar <- MCCalendar
    PerDay = 4
    Tz <- MCTz
    PostTimes = {6, 10}
    Times = {6, 10}
    PageSize = 2
    MaxItems = 2
    Forever = 180
    MaxRecent = 2
    ArchiveYears = 1
    Browsed <- MCBrowsed
    MaxChanges = 2
INVARIANTS
    FetchAndReturn
    FormVerdicts
    LinksOpen
    PagingMissesNothing
CHECK_DEADLOCK FALSE
