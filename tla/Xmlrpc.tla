------------------------------- MODULE Xmlrpc -------------------------------
(***************************************************************************)
(* The XML-RPC endpoint as a blog client meets it (internal/xmlrpc): a call *)
(* is encoded, decoded, checked, carried out and answered.                 *)
(*                                                                         *)
(* A packet is its tree of elements, which is what the decoder's tokens    *)
(* spell out; a text is a sequence of pieces: words, the tags the blog     *)
(* owns (<more/>, a code block, an empty one, a textblock with a label),   *)
(* the same written out by an author, a written-out ">", blanks, a dash, a *)
(* character XML forbids, and one that takes fewer bytes in lower case.  A *)
(* piece cut to bits is "torn", whatever is left of it.  A date is the     *)
(* text of a clock: the blog's, or one that says its zone.  How two        *)
(* requests meet over a post is modules Release and Content; here a call   *)
(* is one step.                                                            *)
(*                                                                         *)
(* Left out: doubles, which no method takes or gives; the character sets   *)
(* of a packet; of the markup, quotes within a tag, textblocks without a   *)
(* label, labels of several words, ">" and "]" written out within words or *)
(* code, empty code blocks an editor sends, more code blocks than          *)
(* maxMarkupPasses; and letters that take more bytes in lower case.        *)
(***************************************************************************)
EXTENDS Integers, FiniteSetsExt, SequencesExt

CONSTANTS
    Ids,            \* ids of posts
    CatName,        \* the categories: of each id its name
    Password,       \* the users: of each name their password
    Wall,           \* of each instant: what the blog's clock shows
    Gmt,            \* of each such text: the instant it is in Greenwich
    Zoned,          \* of each text that says its zone: the instant
    Now,            \* the present instant
    MaxEntries,     \* posts a client gets that asks for no number
    Drafts,         \* the structs clients send as a post
    Written,        \* rows the web editor may have left
    Styles          \* the ways clients spell a packet

VARIABLES
    posts,          \* the table entries, and what they are filed under
    media           \* files written by newMediaObject

xmlVars == <<posts, media>>

-----------------------------------------------------------------------------
(* Values, and the elements they are written as. *)

Str(t) == [is |-> "string", v |-> t]
Number(n) == [is |-> "int", v |-> n]
Bool(b) == [is |-> "boolean", v |-> b]
Date(t) == [is |-> "date", v |-> t]
Bits(b) == [is |-> "base64", v |-> b]
Nil == [is |-> "nil"]
Struct(ms) == [is |-> "struct", v |-> ms]
Array(vs) == [is |-> "array", v |-> vs]
Unreadable == [is |-> "unreadable"]
Member(n, v) == [name |-> n, value |-> v]

Text(t) == [tag |-> "", text |-> t]
Elem(tag, kids) == [tag |-> tag, kids |-> kids]
Leaf(tag, t) == Elem(tag, <<Text(t)>>)
\* A sequence, whatever it is of.
IsText(t) == t \in Seq(ToSet(t))
Each(s, Op(_)) == [i \in DOMAIN s |-> Op(s[i])]

\* What stands in s at the places in K, in its order.
Picked(s, K) ==
    LET nth(n) == CHOOSE i \in K : Cardinality({j \in K : j <= i}) = n
    IN [n \in 1..Cardinality(K) |-> s[nth(n)]]

Without(t, D) == Picked(t, {i \in DOMAIN t : t[i] \notin D})

\* escapeXML: the entities come back as they went; the rest is dropped.
Escaped(t) == Without(t, {"control"})

\* What a client spells its own way: a bare one leaves the type of its texts
\* out, a chatty one adds elements that mean nothing wherever another may stand.
\* The blog writes "typed".
Chat == Elem("chat", <<>>)
Among(style, kids) == IF style = "chatty" THEN <<Chat>> \o kids \o <<Chat>> ELSE kids

\* value is written already, and so are the values, or the members, inside.
EncodeMember(style, name, value) ==
    Elem("member", Among(style, <<Leaf("name", <<name>>), value>>))
EncodeInner(style, v, inside) ==
    CASE v.is = "nil" -> Elem("string", <<>>)
      [] v.is = "string" -> Leaf("string", Escaped(v.v))
      [] v.is = "int" -> Leaf("int", <<IF v.v = 0 THEN "0" ELSE "1">>)
      [] v.is = "boolean" -> Leaf("boolean", <<IF v.v THEN "1" ELSE "0">>)
      [] v.is = "date" -> Leaf("dateTime.iso8601", <<v.v>>)
      [] v.is = "base64" -> Leaf("base64", <<v.v>>)
      [] v.is = "array" -> Elem("array", Among(style, <<Elem("data", Among(style, inside))>>))
      [] v.is = "struct" -> Elem("struct", Among(style, inside))
\* What stands in v, written by Inside; and v around it.
WrittenInside(style, v, Inside(_, _)) ==
    IF v.is = "struct"
    THEN [i \in DOMAIN v.v |-> EncodeMember(style, v.v[i].name, Inside(style, v.v[i].value))]
    ELSE [i \in DOMAIN v.v |-> Inside(style, v.v[i])]
EncodeWith(style, v, Inside(_, _)) ==
    LET inner == EncodeInner(style, v, WrittenInside(style, v, Inside)) IN
    Elem("value", IF style = "bare" /\ inner.tag = "string" THEN inner.kids ELSE <<inner>>)

\* Bound: values nest three deep in another (the posts of getRecentPosts do, and
\* no method says more).
Nothing(style, v) == Elem("value", <<>>)
Encode0(style, v) == EncodeWith(style, v, Nothing)
Encode1(style, v) == EncodeWith(style, v, Encode0)
Encode2(style, v) == EncodeWith(style, v, Encode1)
EncodeValue(style, v) == EncodeWith(style, v, Encode2)

EncodeParams(style, vs) ==
    Elem("params", Among(style, [i \in DOMAIN vs |-> Elem("param", Among(style, <<EncodeValue(style, vs[i])>>))]))
EncodeCall(style, method, params) ==
    Elem("methodCall", Among(style, <<Leaf("methodName", <<method>>), EncodeParams(style, params)>>))

EncodeResponse(v) == Elem("methodResponse", <<EncodeParams("typed", <<v>>)>>)

EncodeFault(code) ==
    Elem("methodResponse", <<Elem("fault", <<EncodeValue("typed",
        Struct(<<Member("faultCode", Number(code)), Member("faultString", Str(<<"why">>))>>))>>)>>)

-----------------------------------------------------------------------------
(* Reading: what is not known is skipped, wherever more than one element may
   stand; a value without an element in it is a string; what cannot be read
   makes all it stands in unreadable. *)

Kids(e, tag) == Picked(e.kids, {i \in DOMAIN e.kids : e.kids[i].tag = tag})
ElemText(e) == FlattenSeq(Each(Kids(e, ""), LAMBDA k : k.text))
Trim(t) ==
    LET ink == {i \in DOMAIN t : t[i] # "blank"} IN
    IF ink = {} THEN <<>> ELSE SubSeq(t, Min(ink), Max(ink))

\* parseDateTime knows the text.
Clocks == DOMAIN Gmt \union DOMAIN Zoned
IsClock(t) == \E d \in Clocks : t = <<d>>

Broken(values) == \E i \in DOMAIN values : values[i].is = "unreadable"

\* values, and members, are what was read of the elements inside.
ParseMember(e, values) ==
    LET names == Kids(e, "name") IN
    Member(IF names = <<>> THEN "" ELSE ElemText(Last(names))[1],
           IF Broken(values) THEN Unreadable ELSE IF values = <<>> THEN Nil ELSE Last(values))
ParseStruct(members) ==
    IF \E i \in DOMAIN members : members[i].value.is = "unreadable" THEN Unreadable ELSE Struct(members)
ParseArray(values) == IF Broken(values) THEN Unreadable ELSE Array(values)
ToInt(t) == IF t \in {<<"0">>, <<"1">>} THEN Number(IF t = <<"1">> THEN 1 ELSE 0) ELSE Unreadable
ParseBool(t) ==
    IF t \in {<<"1">>, <<"true">>, <<"yes">>} THEN Bool(TRUE)
    ELSE IF t \in {<<"0">>, <<"false">>, <<"no">>, <<>>} THEN Bool(FALSE) ELSE Unreadable
ParseTyped(e, members, values) ==
    CASE e.tag = "string" -> Str(ElemText(e))
      [] e.tag \in {"int", "i4"} -> ToInt(Trim(ElemText(e)))
      [] e.tag = "boolean" -> ParseBool(Trim(ElemText(e)))
      [] e.tag = "dateTime.iso8601" ->
            IF IsClock(Trim(ElemText(e))) THEN Date(Trim(ElemText(e))[1]) ELSE Unreadable
      [] e.tag = "base64" -> Bits(ElemText(e)[1])
      [] e.tag = "nil" -> Nil
      [] e.tag = "struct" -> ParseStruct(members)
      [] e.tag = "array" -> ParseArray(values)
      [] OTHER -> Unreadable
MembersOf(e, Inside(_)) ==
    Each(Kids(e, "member"), LAMBDA k : ParseMember(k, Each(Kids(k, "value"), Inside)))
ValuesOf(e, Inside(_)) ==
    FlattenSeq(Each(Kids(e, "data"), LAMBDA data : Each(Kids(data, "value"), Inside)))
\* The first element is the value; those after it are skipped.
ParseWith(e, Inside(_)) ==
    LET elems == {i \in DOMAIN e.kids : e.kids[i].tag # ""} IN
    IF elems = {} THEN Str(ElemText(e))
    ELSE LET inner == e.kids[Min(elems)]
         IN ParseTyped(inner, MembersOf(inner, Inside), ValuesOf(inner, Inside))

TooDeep(e) == Unreadable
Parse0(e) == ParseWith(e, TooDeep)
Parse1(e) == ParseWith(e, Parse0)
Parse2(e) == ParseWith(e, Parse1)
ParseValue(e) == ParseWith(e, Parse2)

ParseParam(e) ==
    LET values == Each(Kids(e, "value"), ParseValue) IN
    IF Broken(values) THEN Unreadable ELSE IF values = <<>> THEN Str(<<>>) ELSE values[1]

ParseParams(e) == Each(Kids(e, "param"), ParseParam)

ParseFault(e) == ParseValue(Kids(e, "value")[1])

\* DecodeResponse: the blog reads what the services it pings answer; a client
\* reads what the blog answers.
DecodeResponse(root) ==
    LET lists == Kids(root, "params")  faults == Kids(root, "fault") IN
    [fault |-> faults # <<>>,
     value |-> IF lists = <<>> THEN ParseFault(faults[1])
               ELSE ParseParams(lists[1])[1]]

\* No call is the reading of a packet that is refused.
NoCall == [method |-> "", params |-> <<>>]
DecodeCall(root) ==
    LET names == Kids(root, "methodName")  lists == Kids(root, "params")
        call == [method |-> Trim(ElemText(Last(names)))[1],
                 params |-> IF lists = <<>> THEN <<>> ELSE ParseParams(Last(lists))]
    IN IF root.tag # "methodCall" \/ names = <<>> THEN NoCall
       ELSE IF Broken(call.params) THEN NoCall ELSE call

-----------------------------------------------------------------------------
(* What the methods make of the values. *)

SameName(a, b) == a = b \/ {a, b} = {"categoryId", "categoryid"}
Has(s, n) == \E i \in DOMAIN s.v : SameName(s.v[i].name, n)
Get(s, n) == s.v[Min({i \in DOMAIN s.v : SameName(s.v[i].name, n)})].value

AsString(v) ==
    CASE v.is = "string" -> v.v
      [] v.is = "int" -> <<IF v.v = 0 THEN "0" ELSE "1">>
      [] v.is = "boolean" -> <<IF v.v THEN "1" ELSE "0">>
      [] v.is \in {"date", "base64"} -> <<v.v>>
      [] v.is \in {"struct", "array"} -> <<"[...]">>
      [] v.is = "nil" -> <<>>
StrOf(s, n) == IF Has(s, n) THEN AsString(Get(s, n)) ELSE <<>>

\* toBool, and what it falls back to.
ToBool(v, otherwise) ==
    CASE v.is = "boolean" -> v.v
      [] v.is = "int" -> v.v # 0
      [] v.is = "string" /\ Trim(v.v) \in {<<"1">>, <<"true">>, <<"yes">>} -> TRUE
      [] v.is = "string" /\ Trim(v.v) \in {<<"0">>, <<"false">>, <<"no">>} -> FALSE
      [] OTHER -> otherwise

\* A code block's text written out for a rich-text editor, and taken back from
\* it: on the way back a run of blanks becomes one.
CodeText == {"<code>", "<code  >"}
ConvertTextToHTML(p) == IF p = "<code>" THEN "&lt;code&gt;..." ELSE "&lt;code  &gt;..."
ConvertHTMLToText(p) == "<code>"

\* What an author wrote out goes out in brackets, and comes back from them.
InBrackets(p) ==
    CASE p = "&lt;more/&gt;" -> "&lt;[more/]&gt;"
      [] p = "<p>&lt;more/&gt;</p>" -> "<p>&lt;[more/]&gt;</p>"
      [] p = "&lt;code&gt;..." -> "&lt;[code]&gt;..."
      [] p = "&lt;code  &gt;..." -> "&lt;[code]  &gt;..."
      [] p = "&lt;textblock a&gt;" -> "&lt;[textblock a]&gt;"
      [] p = "<p>&lt;textblock a&gt;</p>" -> "<p>&lt;[textblock a]&gt;</p>"
      [] OTHER -> p
CodeOut == {"&lt;code&gt;...", "&lt;code  &gt;..."}
MoreOut == {"&lt;more/&gt;", "<p>&lt;more/&gt;</p>"}
TextblockOut == {"&lt;textblock a&gt;", "<p>&lt;textblock a&gt;</p>"}
ByAuthor == CodeOut \union MoreOut \union TextblockOut
Bracketed == {InBrackets(p) : p \in ByAuthor}
OutOfBrackets(p) ==
    IF p \in Bracketed THEN CHOOSE q \in ByAuthor : InBrackets(q) = p ELSE p

\* ?parseMarkup: a rich-text client sees the blog's tags written out, but for
\* code blocks with nothing in them ...
EscapeMarkup(t) ==
    Each(Without(t, {"<code></code>"}),
         LAMBDA p : CASE p = "<more/>" -> "<p>&lt;more/&gt;</p>"
                      [] p = "<textblock a>" -> "<p>&lt;textblock a&gt;</p>"
                      [] p \in CodeText -> ConvertTextToHTML(p)
                      [] OTHER -> InBrackets(p))

\* The last block that opens before an author's written-out one reaches to the
\* end of that, which closes as a block does: all in between becomes code.
Swallowed(t, i) ==
    \E k, l \in DOMAIN t :
        /\ k <= i /\ i <= l
        /\ t[k] \in CodeOut /\ t[l] \in {InBrackets(p) : p \in CodeOut}
        /\ \A j \in (k + 1)..l : t[j] \notin CodeOut
CodeIn(t) ==
    [i \in DOMAIN t |->
        IF Swallowed(t, i) /\ t[i] \in CodeOut \union TextblockOut \union Bracketed \union {"&gt;"}
        THEN "torn" ELSE t[i]]

\* A textblock's label reaches to the last written-out ">" before a bracket.
EndsTag == TextblockOut \union {"&gt;"}
InLabel(t, i) ==
    \E k, l \in DOMAIN t :
        /\ k < l /\ k <= i /\ i <= l
        /\ t[k] \in TextblockOut /\ t[l] \in EndsTag
        /\ \A j \in k..l : t[j] \notin Bracketed \union {"torn"}
TextblocksIn(t) ==
    [i \in DOMAIN t |-> IF InLabel(t, i) /\ t[i] \in EndsTag THEN "torn" ELSE t[i]]

\* ... and sends it back so.
UnescapeMarkup(t) ==
    Each(TextblocksIn(CodeIn(t)),
         LAMBDA p : CASE p \in CodeOut -> ConvertHTMLToText(p)
                      [] p \in MoreOut -> "<more/>"
                      [] p \in TextblockOut -> "<textblock a>"
                      [] OTHER -> OutOfBrackets(p))

FixEditorEntities(t) == Each(t, LAMBDA p : IF p = "dash" THEN "&#8212;" ELSE p)

\* Mutant: the second half starts with the tag.
Mutant_SplitMore(t) ==
    LET cuts == {i \in DOMAIN t : t[i] = "<more/>"} IN
    IF cuts = {} \/ Min(cuts) = 1 THEN [body |-> t, more |-> <<>>]
    ELSE [body |-> Trim(SubSeq(t, 1, Min(cuts) - 1)),
          more |-> Trim(SubSeq(t, Min(cuts), Len(t)))]

\* A tag at the very start is no split.  The place is counted in lower case: a
\* letter before it that is shorter so moves the cut, off the end of what comes
\* before and into the tag.
SplitMore(t) ==
    LET cuts == {i \in DOMAIN t : t[i] = "<more/>"}  cut == Min(cuts) IN
    IF cuts = {} \/ cut = 1 THEN [body |-> t, more |-> <<>>]
    ELSE IF \E i \in 1..(cut - 1) : t[i] = "Kelvin"
    THEN [body |-> Trim(SubSeq(t, 1, cut - 2) \o <<"torn">>),
          more |-> Trim(<<"torn">> \o SubSeq(t, cut + 1, Len(t)))]
    ELSE [body |-> Trim(SubSeq(t, 1, cut - 1)), more |-> Trim(SubSeq(t, cut + 1, Len(t)))]

\* A clock that says no zone is the blog's: in the hour that comes twice, it is
\* one of the two; in the hour that is skipped, some instant.
InZone(d) ==
    LET at == {t \in DOMAIN Wall : Wall[t] = d} IN
    IF d \in DOMAIN Zoned THEN Zoned[d]
    ELSE IF at # {} THEN CHOOSE t \in at : TRUE ELSE CHOOSE t \in DOMAIN Wall : TRUE

Instant(k, d) ==
    IF k = "date_created_gmt" /\ d \in DOMAIN Gmt THEN Gmt[d] ELSE InZone(d)

\* postedFrom: the first key that says something; a text is a clock of the blog
\* under every key.  No instant is 0.
DateKeys == <<"dateCreated", "pubDate", "date_created_gmt">>
SaysDate(v) == v.is = "date" \/ (v.is = "string" /\ Trim(v.v) # <<>>)
PostedFrom(in) ==
    LET said == {n \in DOMAIN DateKeys : Has(in, DateKeys[n]) /\ SaysDate(Get(in, DateKeys[n]))}
        key == DateKeys[Min(said)]
        v == Get(in, key)
    IN IF said = {} THEN [bad |-> FALSE, at |-> 0]
       ELSE IF v.is = "date" THEN [bad |-> FALSE, at |-> Instant(key, v.v)]
       ELSE IF IsClock(Trim(v.v)) THEN [bad |-> FALSE, at |-> InZone(Trim(v.v)[1])]
       ELSE [bad |-> TRUE, at |-> 0]

\* categoryNames: a list, or one text with commas, or nothing said.
Names(in) ==
    IF Has(in, "categories")
    THEN IF Get(in, "categories").is = "array"
         THEN LET list == Get(in, "categories").v IN
              {Trim(AsString(list[n])) : n \in DOMAIN list}
         ELSE {}
    ELSE {<<p>> : p \in ToSet(StrOf(in, "category")) \ {"blank", "comma"}}
SaysCategories(in) ==
    Has(in, "categories") \/ Trim(StrOf(in, "category")) # <<>>
CategoryIDs(names) == {c \in DOMAIN CatName : <<CatName[c]>> \in names}

-----------------------------------------------------------------------------
(* The methods (two names for one of them): each takes the parameters and
   gives what it answers and leaves behind. *)

NoPost == [is |-> "none"]
Stored(i) == posts[i] # NoPost
Parse == 1
Auth == 2
BadParams == 3
NoMethod == 4

Says(v, ps, fs) == [fault |-> 0, value |-> v, posts |-> ps, media |-> fs]
Answers(v) == Says(v, posts, media)
Refuses(code) == [fault |-> code, value |-> Nil, posts |-> posts, media |-> media]

User(params, at) == AsString(params[at])
Authenticate(name, password) == \E u \in DOMAIN Password : <<u>> = name /\ <<Password[u]>> = password

\* authAt: both parameters are there, and name a user with that password.
AuthFault(params, at) ==
    IF Len(params) < at + 1 THEN BadParams
    ELSE IF Authenticate(User(params, at), AsString(params[at + 1])) THEN 0 ELSE Auth

\* The post the text names, if it is there.
Named(t) == {i \in Ids : <<i>> = t /\ Stored(i)}

\* Only the categories there are.
FiledUnder(e) == SetToSeq(e.cats \intersect DOMAIN CatName)

\* The text of a row as a client gets it.
Joint(e) == IF e.more = <<>> THEN e.body ELSE e.body \o <<"<more/>">> \o e.more

PostStruct(i, marked) ==
    LET e == posts[i] IN
       Struct(<<Member("title", Str(e.title)),
                Member("dateCreated", Date(Wall[e.posted])),
                Member("userid", Str(<<e.by>>)),
                Member("postid", Str(<<i>>)),
                Member("description", Str(IF marked THEN EscapeMarkup(Joint(e)) ELSE Joint(e))),
                Member("mt_text_more", Str(<<>>)),
                Member("mt_allow_comments", Number(IF e.allow THEN 1 ELSE 0)),
                Member("categories", Array(Each(FiledUnder(e), LAMBDA c : Str(<<CatName[c]>>))))>>)

\* The row a save leaves: of a new post, or of the one there was.
SavedRow(in, was, publish, by, marked) ==
    LET text == StrOf(in, "description")
        split == SplitMore(FixEditorEntities(IF marked THEN UnescapeMarkup(text) ELSE text))
        date == PostedFrom(in).at
        posted == IF date # 0 THEN date ELSE IF was = NoPost THEN Now ELSE was.posted
    IN [title |-> StrOf(in, "title"),
        body |-> split.body,
        more |-> IF split.more = <<>> THEN StrOf(in, "mt_text_more") ELSE split.more,
        allow |-> IF Has(in, "mt_allow_comments") THEN ToBool(Get(in, "mt_allow_comments"), TRUE)
                  ELSE TRUE,
        \* A draft that is published is not posted in the past.
        posted |-> IF was # NoPost /\ ~was.released /\ publish /\ posted < Now THEN Now ELSE posted,
        released |-> publish,
        by |-> IF was = NoPost THEN by ELSE was.by,
        cats |-> IF SaysCategories(in) THEN CategoryIDs(Names(in))
                 ELSE IF was = NoPost THEN {} ELSE was.cats]

SavePost(params, marked, editing) ==
    LET in == params[4]
        publish == IF Len(params) < 5 THEN TRUE ELSE ToBool(params[5], TRUE)
        found == Named(AsString(params[1]))
        free == {i \in Ids : ~Stored(i)}
        by == CHOOSE u \in DOMAIN Password : <<u>> = User(params, 2)
        saved(i) == [posts EXCEPT ![i] = SavedRow(in, posts[i], publish, by, marked)]
        first == CHOOSE i \in free : TRUE
    IN IF Len(params) < 4 THEN Refuses(BadParams)
       ELSE IF in.is # "struct" THEN Refuses(BadParams)
       ELSE IF PostedFrom(in).bad THEN Refuses(BadParams)
       ELSE IF editing
       THEN IF found = {} THEN Refuses(BadParams)
            ELSE Says(Bool(TRUE), saved(CHOOSE i \in found : TRUE), media)
       ELSE Says(Str(<<first>>), saved(first), media)

GetPost(params, marked) ==
    LET found == Named(AsString(params[1])) IN
    IF found = {} THEN Refuses(BadParams)
    ELSE Answers(PostStruct(CHOOSE i \in found : TRUE, marked))

\* The caller's own, newest first.
GetRecentPosts(params, marked) ==
    LET own == {i \in Ids : Stored(i) /\ <<posts[i].by>> = User(params, 2)}
        newest == SetToSortSeq(own, LAMBDA i, j : posts[i].posted > posts[j].posted)
        most == IF Len(params) >= 4 /\ AsString(params[4]) = <<"1">> THEN 1 ELSE MaxEntries
    IN Answers(Array(Each(SubSeq(newest, 1, Min({most, Len(newest)})), LAMBDA i : PostStruct(i, marked))))

DeletePost(params) ==
    LET found == Named(AsString(params[2])) IN
    IF found = {} THEN Refuses(BadParams)
    ELSE Says(Bool(TRUE), [i \in Ids |-> IF i \in found THEN NoPost ELSE posts[i]], media)

\* The name stands for the file it is hashed to.
NewMediaObject(params) ==
    LET in == params[4] IN
    IF Len(params) < 4 THEN Refuses(BadParams)
    ELSE IF in.is # "struct" THEN Refuses(BadParams)
    ELSE IF Trim(StrOf(in, "name")) = <<>> \/ ~Has(in, "bits") THEN Refuses(BadParams)
    ELSE IF Get(in, "bits").is # "base64" THEN Refuses(BadParams)
    ELSE LET file == Trim(StrOf(in, "name"))[1] IN
         Says(Struct(<<Member("url", Str(<<file>>))>>), posts,
              [f \in DOMAIN media \union {file} |-> IF f = file THEN Get(in, "bits").v ELSE media[f]])

Category(c, idKey) ==
    Struct(<<Member("categoryName", Str(<<CatName[c]>>)), Member(idKey, Str(<<c>>))>>)
GetCategories(idKey) ==
    Answers(Array(Each(SetToSeq(DOMAIN CatName), LAMBDA c : Category(c, idKey))))
GetPostCategories(params) ==
    LET found == Named(AsString(params[1])) IN
    IF found = {} THEN Refuses(BadParams)
    ELSE Answers(Array(Each(FiledUnder(posts[CHOOSE i \in found : TRUE]),
                            LAMBDA c : Category(c, "categoryId"))))

\* The ids are taken as they are sent: Taxonomy!FileUnchecked.
SetPostCategories(params) ==
    LET found == Named(AsString(params[1]))
        id(v) == CASE v.is = "struct" -> StrOf(v, "categoryId")
                   [] v.is = "string" -> v.v
                   [] OTHER -> <<>>
        ids == {Trim(id(params[4].v[n])) : n \in DOMAIN params[4].v} \ {<<>>}
    IN IF found = {} \/ Len(params) < 4 THEN Refuses(BadParams)
       ELSE IF params[4].is # "array" THEN Refuses(BadParams)
       ELSE Says(Bool(TRUE), [i \in Ids |-> IF i \in found
                    THEN [posts[i] EXCEPT !.cats = {t[1] : t \in ids}] ELSE posts[i]], media)

Dispatch(call, marked) ==
    LET params == call.params
        auth == AuthFault(params, IF call.method = "deletePost" THEN 3 ELSE 2)
    IN IF call.method \notin {"getUsersBlogs", "getCategories", "getCategoryList",
            "getRecentPosts", "getPost", "newPost", "editPost", "deletePost",
            "newMediaObject", "getPostCategories", "setPostCategories"} THEN Refuses(NoMethod)
       ELSE IF auth # 0 THEN Refuses(auth)
       ELSE CASE call.method = "getUsersBlogs" ->
                    Answers(Array(<<Struct(<<Member("blogid", Str(<<"1">>))>>)>>))
              [] call.method = "getCategories" -> GetCategories("categoryid")
              [] call.method = "getCategoryList" -> GetCategories("categoryId")
              [] call.method = "getRecentPosts" -> GetRecentPosts(params, marked)
              [] call.method = "getPost" -> GetPost(params, marked)
              [] call.method = "newPost" -> SavePost(params, marked, FALSE)
              [] call.method = "editPost" -> SavePost(params, marked, TRUE)
              [] call.method = "deletePost" -> DeletePost(params)
              [] call.method = "newMediaObject" -> NewMediaObject(params)
              [] call.method = "getPostCategories" -> GetPostCategories(params)
              [] call.method = "setPostCategories" -> SetPostCategories(params)

Handle(packet, marked) ==
    LET call == DecodeCall(packet) IN
    IF call = NoCall THEN Refuses(Parse) ELSE Dispatch(call, marked)

Reply(out) == IF out.fault = 0 THEN EncodeResponse(out.value) ELSE EncodeFault(out.fault)

-----------------------------------------------------------------------------
(* The clients, which are not part of the blog: each has its own spelling. *)

Sent(style, method, params, marked) == Handle(EncodeCall(style, method, params), marked)

Login(u, pw) == <<Str(<<u>>), Str(<<pw>>)>>

\* What clients put in a struct, and a list of it.
Atomic(v) ==
    CASE v.is = "string" -> v = Str(v.v) /\ IsText(v.v)
      [] v.is = "int" -> v = Number(v.v)
      [] v.is = "boolean" -> v = Bool(v.v) /\ v.v \in BOOLEAN
      [] v.is = "date" -> v = Date(v.v) /\ v.v \in Clocks
      [] v.is = "base64" -> v = Bits(v.v)
      [] OTHER -> v = Nil
ListOfAtoms(v) == v.is = "array" /\ v = Array(v.v) /\ IsText(v.v) /\ \A n \in DOMAIN v.v : Atomic(v.v[n])
IsDraft(d) ==
    /\ d = Struct(d.v) /\ IsText(d.v)
    /\ \A n \in DOMAIN d.v : /\ d.v[n] = Member(d.v[n].name, d.v[n].value)
                             /\ Atomic(d.v[n].value) \/ ListOfAtoms(d.v[n].value)

IsRow(e) ==
    /\ e = [title |-> e.title, body |-> e.body, more |-> e.more, allow |-> e.allow,
            posted |-> e.posted, released |-> e.released, by |-> e.by, cats |-> e.cats]
    /\ IsText(e.title) /\ IsText(e.body) /\ IsText(e.more)
    /\ e.allow \in BOOLEAN /\ e.posted \in DOMAIN Wall /\ e.released \in BOOLEAN

\* The clocks show the instants of the model; a word is no blank; the web editor
\* leaves no tag in the first half.
ASSUME XmlrpcAssumption ==
    /\ Ids # {} /\ Now \in DOMAIN Wall /\ 0 \notin DOMAIN Wall
    /\ {Wall[t] : t \in DOMAIN Wall} \subseteq DOMAIN Gmt
    /\ DOMAIN Gmt \intersect DOMAIN Zoned = {}
    /\ {Gmt[d] : d \in DOMAIN Gmt} \union {Zoned[d] : d \in DOMAIN Zoned} \subseteq DOMAIN Wall
    /\ IsFiniteSet(DOMAIN CatName)
    /\ \A b, c \in DOMAIN CatName : CatName[b] = CatName[c] => b = c
    /\ \A p \in {"blank", "control"} :
          /\ p \notin Ids \union DOMAIN Password \union {Password[u] : u \in DOMAIN Password}
          /\ p \notin {CatName[c] : c \in DOMAIN CatName} \union Clocks
    /\ \A d \in Drafts : IsDraft(d)
    /\ \A e \in Written : IsRow(e) /\ "<more/>" \notin ToSet(e.body)

XmlRest ==
    /\ posts = [i \in Ids |-> NoPost]
    /\ media = <<>>

XmlInit ==
    /\ posts \in [Ids -> {NoPost} \union Written]
    /\ \E i \in Ids : \A j \in Ids \ {i} : posts[j] = NoPost
    /\ media = <<>>

\* Bound: one post at a time is worked on, the others are as the web editor left
\* them.
Alone(i) == \A j \in Ids \ {i} : posts[j] \in {NoPost} \union Written

\* The calls that write, one of each kind; a client keeps to what it was given.
Call(style, method, params, marked) ==
    [style |-> style, method |-> method, params |-> params, marked |-> marked]

NewPost(login) ==
    {Call("typed", "newPost", <<Str(<<"appkey">>)>> \o login \o <<d, Bool(publish)>>, marked) :
        d \in Drafts, publish \in BOOLEAN, marked \in BOOLEAN}
EditPost(i, login) ==
    {Call("bare", "editPost", <<Str(<<i>>)>> \o login \o <<d>>, FALSE) : d \in Drafts}
FilePost(i, login) ==
    {Call("chatty", "setPostCategories",
          <<Str(<<i>>)>> \o login \o <<Array(<<Category(c, "categoryId"), Str(<<"gone">>)>>)>>, FALSE) :
        c \in DOMAIN CatName}
Withdraw(i, login) ==
    {Call("typed", "deletePost", <<Str(<<"appkey">>), Str(<<i>>)>> \o login, FALSE)}
UploadMedia(file, bits, login) ==
    {Call("typed", "newMediaObject", <<Str(<<"1">>)>> \o login
          \o <<Struct(<<Member("name", Str(<<file>>)), Member("bits", Bits(bits))>>)>>, FALSE)}

Calls(u) ==
    LET login == Login(u, Password[u])  free == {i \in Ids : ~Stored(i)} IN
    (IF \E i \in free : Alone(i) THEN NewPost(login) ELSE {})
        \union (UNION {EditPost(i, login) \union FilePost(i, login) : i \in {j \in Ids : Alone(j)}})
        \union (UNION {Withdraw(i, login) : i \in Ids})
        \union (IF free = Ids THEN UploadMedia("photo", "bits", login) ELSE {})

XmlNext ==
    \E u \in DOMAIN Password : \E c \in Calls(u) :
        LET out == Sent(c.style, c.method, c.params, c.marked) IN
        /\ posts' = out.posts
        /\ media' = out.media

XmlSpec == XmlInit /\ [][XmlNext]_xmlVars

-----------------------------------------------------------------------------
(* The table up to what a round trip may change: blanks at the ends and runs of
   them in code, characters XML has no place for, the dash, the hour that comes
   twice, and categories that are not there. *)

OneBlank(t) == Each(t, LAMBDA p : IF p \in CodeText THEN "<code>" ELSE p)
Shown(t) == OneBlank(Trim(FixEditorEntities(Escaped(t))))
AsShown(e) ==
    IF e = NoPost THEN e
    ELSE [title |-> Escaped(e.title), body |-> Shown(e.body), more |-> Shown(e.more),
          allow |-> e.allow, posted |-> Wall[e.posted], released |-> e.released,
          by |-> e.by, cats |-> e.cats \intersect DOMAIN CatName]

\* The toggle drops the code blocks there is nothing in.
Left(t, marked) == IF marked THEN Without(t, {"<code></code>"}) ELSE t
Sparse(e, marked) == [e EXCEPT !.body = Left(@, marked), !.more = Left(@, marked)]

\* Where the two halves cannot be told apart again: nothing stands before the
\* tag, or the first half starts with one itself, or the cut moves.
Headless(e, marked) ==
    LET body == Escaped(Left(e.body, marked))
    IN e.more # <<>> /\ (body = <<>> \/ Head(body) = "<more/>" \/ "Kelvin" \in ToSet(body))

\* What the toggle does not give back: what an author wrote in brackets, or is
\* in bits already; code written out behind a code block; and a textblock with
\* another, or a written-out ">", behind it and nothing by the author between.
Spoiled(t) ==
    \/ \E i \in DOMAIN t : t[i] \in Bracketed \union {"torn"}
    \/ \E k, l \in DOMAIN t : k < l /\ t[k] \in CodeText /\ t[l] \in CodeOut
    \/ \E k, l \in DOMAIN t :
          /\ k < l /\ t[k] = "<textblock a>" /\ t[l] \in {"<textblock a>", "&gt;"}
          /\ \A j \in k..l : t[j] \notin ByAuthor
Garbled(e) == Spoiled(Escaped(Left(Joint(e), TRUE)))

\* A client that fetches a post and sends it back as it got it, in its own
\* spelling, through the rich-text toggle or past it, changes nothing in that
\* post but what Sparse, Shown, Headless and Garbled name, and nothing in any
\* other (postStruct against savePost, escapeMarkup against unescapeMarkup, the
\* encoder against the decoder).
FetchAndReturn ==
    \A u \in DOMAIN Password, i \in Ids, style \in Styles, marked \in BOOLEAN :
        Stored(i) /\ ~Headless(posts[i], marked) /\ ~(marked /\ Garbled(posts[i])) =>
            \A got \in {DecodeResponse(Reply(Sent(style, "getPost",
                            <<Str(<<i>>)>> \o Login(u, Password[u]), marked)))} :
            \A put \in {Sent(style, "editPost", <<Str(<<i>>)>> \o Login(u, Password[u])
                            \o <<got.value, Bool(posts[i].released)>>, marked)} :
                /\ ~got.fault
                /\ put.fault = 0
                /\ \A j \in Ids : IF j = i THEN AsShown(put.posts[j]) = AsShown(Sparse(posts[j], marked))
                                  ELSE put.posts[j] = posts[j]
=============================================================================
