------------------------------- MODULE MCEdges -------------------------------
EXTENDS Edges

\* Blog clients.
MCCatName == [c1 |-> "go", c2 |-> "sql"]
MCPassword == [ray |-> "pw"]
MCWall == <<"1:00", "2:00", "2:00", "3:00">>
MCGmt == "1:00" :> 1 @@ "2:00" :> 2 @@ "3:00" :> 3 @@ "4:00" :> 4
MCZoned == "2:00Z" :> 2
Draft(t, ms) == Struct(<<Member("title", Str(<<"t">>)), Member("description", Str(t))>> \o ms)
MCDrafts ==
    {Draft(<<"one", "blank", "<more/>", "blank", "two">>, <<Member("dateCreated", Date("2:00"))>>),
     Draft(<<"&lt;more/&gt;", "<code>", "dash", "&lt;[more/]&gt;">>,
           <<Member("date_created_gmt", Date("4:00")), Member("category", Str(<<"go", "comma", "none">>))>>),
     Draft(<<"<more/>", "two">>,
           <<Member("pubDate", Str(<<"1:00">>)), Member("mt_allow_comments", Number(0))>>),
     Draft(<<>>, <<Member("mt_text_more", Str(<<"two">>))>>),
     Draft(<<"one">>,
           <<Member("mt_text_more", Str(<<"blank", "two", "<more/>", "three">>)),
             Member("categories", Array(<<Str(<<"sql">>)>>)), Member("pubDate", Date("2:00Z"))>>),
     Draft(<<"one">>, <<Member("dateCreated", Str(<<"soon">>))>>),
     Draft(<<"<code></code>", "<textblock a>", "&lt;textblock a&gt;", "&gt;", "<more/>", "<code></code>">>, <<>>),
     Draft(<<"<textblock a>", "dash", "<textblock a>", "<more/>", "two">>, <<>>),
     Draft(<<"<code>", "&gt;", "&lt;code  &gt;...">>, <<>>),
     Draft(<<"one", "Kelvin", "<more/>", "two">>, <<>>),
     Draft(<<"Kelvin">>, <<Member("mt_text_more", Str(<<"two">>))>>)}
\* Written in the web editor: no client sends the character.
MCWritten ==
    {[title |-> <<"control">>, body |-> <<"one", "control", "dash">>, more |-> <<"<code  >">>,
      allow |-> FALSE, posted |-> 3, released |-> FALSE, by |-> "ray", cats |-> {"c2"}]}

\* Forms.
ManyLinks(n) == [i \in 1..n |-> IF i = 1 THEN "HTTP://" ELSE IF i % 2 = 0 THEN "http://" ELSE "https://"]
MCSpamWords == {<<"v", "i">>, << >>}
MCIpBlocks == {<<"1", ".", "*">>, <<"*", "7", "*", "9">>, <<"2">>}
MCIps == {<<"2">>, <<"2", "1", ".", "5">>, <<"7", "9">>}
MCTexts == {<<"a", "V", "i", "s">>, ManyLinks(6), ManyLinks(7)}
MCSums == {<<"7">>, <<"1", "2">>}
MCGuesses == {<<>>, <<" ", "7", ".">>, <<"-", "7">>}
MCLower == "V" :> "v" @@ "HTTP://" :> "http://"

\* Readers.
MCAliasOf == <<<<"one">>, <<>>, <<"one">>>>
MCCatsOf == <<{1}, {1, 2}, {2}>>
MCAuthorOf == <<"ray", "ray", "scott">>
MCTermsOf == <<{"tla"}, {"tla"}, {"tla"}>>
MCRelatedTo == {<<1, 2>>, <<3, 1>>}
MCCatAlias == <<"go", "">>
MCCalendar == <<<<2007, 12, 1>>, <<2007, 12, 2>>, <<2009, 1, 1>>, <<2009, 1, 2>>>>
\* Put forward in the morning of the second day; at the midnight it begins with;
\* and put back in the first hour of a month, whose midnight comes twice.
MCTz ==
    [Paris |-> [t \in Moments |-> IF t < 4 THEN 1 ELSE 2],
     Santiago |-> [t \in Moments |-> IF t < 7 THEN -3 ELSE -2],
     Amman |-> [t \in Moments |-> IF t < 7 THEN 2 ELSE 1]]
MCBrowsed ==
    {[kind |-> "listing", f |-> [Everything EXCEPT !.cats = {1, 2}]],
     [kind |-> "search", f |-> [Everything EXCEPT !.term = "tla"]],
     [kind |-> "admin", f |-> [Everything EXCEPT !.liveOnly = FALSE]],
     [kind |-> "admin", f |-> [Everything EXCEPT !.liveOnly = FALSE, !.draftsOnly = TRUE]]}
=============================================================================
