------------------------------- MODULE Antispam -------------------------------
(***************************************************************************)
(* The forms a visitor posts (a comment, the contact form, an entry sent   *)
(* to a friend) and what guards them (internal/antispam, web/comments.go,  *)
(* web/contact.go, web/send.go): the word and the address list, the        *)
(* honeypot, the signed stamp, the count of links and the question.        *)
(*                                                                         *)
(* Nothing is kept of a form between the two requests: what the second     *)
(* one is judged by is what the first one signed.  Between them time       *)
(* passes, settings change, the visitor logs in, the blog restarts with    *)
(* another secret, the entry closes.  A text is a sequence of characters   *)
(* or links, a signature is what was signed and with which secret.         *)
(***************************************************************************)
EXTENDS Integers, FiniteSetsExt, SequencesExt

CONSTANTS
    MinSeconds, MaxSeconds, Ttl,    \* the ages a stamp and a token may have
    MaxTime,        \* bound: the run ends there
    Steps,          \* bound: how far time goes in one step
    Secrets,        \* what BLOG_SESSION_SECRET may be set to
    SpamWords,      \* trackbackspamlist: sequences of characters
    IpBlocks,       \* ipblocklist: sequences of characters and "*"
    Ips,            \* addresses visitors come from
    Texts,          \* what they write
    Sums,           \* what a question may ask for, as digits
    Guesses,        \* what is typed that is no sum
    LowerCase       \* of each capital letter: its small one

HoneypotPoints == 3
TimingPoints == 2
URLPoints == 3
WordPoints == 2
Limit == 3
MaxURLs == 6

Schemes == {"http://", "https://"}
Digits == {"0", "1", "2", "3", "4", "5", "6", "7", "8", "9"}

ASSUME AntispamAssumption ==
    /\ {MinSeconds, MaxSeconds, Ttl, MaxTime} \subseteq Nat
    /\ Steps \subseteq Nat \ {0} /\ Secrets # {}
    /\ Sums \subseteq Seq(Digits) \ {<<>>}
    /\ SpamWords \union IpBlocks \union Ips \union Texts \union Guesses \subseteq Seq(STRING)
    /\ LowerCase \in [DOMAIN LowerCase -> STRING] /\ Schemes \intersect DOMAIN LowerCase = {}

VARIABLES
    clock,          \* the time
    secret,         \* the secret the blog runs with
    setting,        \* usecfp, usecaptcha
    login,          \* is the visitor logged in
    entry,          \* the entry the form is about: "open", "closed", "hidden"
    form            \* the form in the visitor's browser

spmVars == <<clock, secret, setting, login, entry, form>>

Kinds == {"comment", "contact", "send"}
Settings == [usecfp : BOOLEAN, usecaptcha : BOOLEAN]

Lower(t) == [i \in DOMAIN t |-> IF t[i] \in DOMAIN LowerCase THEN LowerCase[t[i]] ELSE t[i]]
TrimSpace(t) ==
    LET ink == {i \in DOMAIN t : t[i] # " "}
        from == CHOOSE i \in ink : \A j \in ink : i <= j
        to == CHOOSE i \in ink : \A j \in ink : i >= j
    IN IF ink = {} THEN <<>> ELSE SubSeq(t, from, to)

\* Where p stands in t.
Places(p, t) == {i \in 1..(Len(t) - Len(p) + 1) : SubSeq(t, i, i + Len(p) - 1) = p}

-----------------------------------------------------------------------------
(* Package antispam. *)

Sign(key, at) == [at |-> at, mac |-> <<key, at>>]
Token(key, at, answer) == [at |-> at, mac |-> <<key, at, answer>>]
NoStamp == [at |-> 0, mac |-> <<"none">>]

CheckStamp(stamp) ==
    LET age == clock - stamp.at IN
    IF stamp # Sign(secret, stamp.at) THEN "bad"
    ELSE IF age < MinSeconds THEN "too fast"
    ELSE IF age > MaxSeconds THEN "too slow"
    ELSE ""

CountURLs(t) == Cardinality({i \in DOMAIN t : Lower(t)[i] \in Schemes})

MatchWord(words, t) ==
    \E w \in words : TrimSpace(w) # <<>> /\ Places(Lower(TrimSpace(w)), Lower(t)) # {}

\* What stands before the first star is a prefix, what stands between two stars
\* is looked for behind what is used up so far, what stands behind the last is a
\* suffix of the rest.
Stars(b) == {i \in DOMAIN b : b[i] = "*"}
StarsBefore(b, i) == {j \in Stars(b) : j < i}
PartBefore(b, i) ==
    SubSeq(b, IF StarsBefore(b, i) = {} THEN 1 ELSE Max(StarsBefore(b, i)) + 1, i - 1)
Used(b, s) ==
    LET used[i \in Stars(b)] ==
            LET found == IF StarsBefore(b, i) = {} THEN Places(PartBefore(b, i), s) \intersect {1}
                         ELSE {k \in Places(PartBefore(b, i), s) : k > used[Max(StarsBefore(b, i))]}
            IN IF found = {} THEN Len(s) + 1 ELSE Min(found) + Len(PartBefore(b, i)) - 1
    IN used
GlobMatch(b, s) ==
    LET last == PartBefore(b, Len(b) + 1) IN
    /\ Used(b, s)[Max(Stars(b))] + Len(last) <= Len(s)
    /\ SubSeq(s, Len(s) - Len(last) + 1, Len(s)) = last

MatchIP(blocks, ip) ==
    LET addr == TrimSpace(ip) IN
    /\ addr # <<>>
    /\ \E w \in blocks :
        LET b == TrimSpace(w) IN
        b # <<>> /\ IF Stars(b) # {} THEN GlobMatch(b, addr) ELSE Lower(b) = Lower(addr)

\* The points of a form, against the lists it is given.
Verify(trap, stamp, t, words, blocks, ip) ==
    LET points == (IF trap THEN HoneypotPoints ELSE 0)
                + (IF CheckStamp(stamp) # "" THEN TimingPoints ELSE 0)
                + (IF CountURLs(t) > MaxURLs THEN URLPoints ELSE 0)
                + (IF MatchWord(words, t) THEN WordPoints ELSE 0)
    IN points >= Limit \/ MatchWord(words, t) \/ MatchIP(blocks, ip)

NormalizeAnswer(answer) ==
    LET t == TrimSpace(answer)
        keep == {i \in DOMAIN t : t[i] \in Digits \/ (i = 1 /\ t[i] = "-")}
        nth(n) == CHOOSE i \in keep : Cardinality({j \in keep : j <= i}) = n
    IN [n \in 1..Cardinality(keep) |-> t[nth(n)]]

\* Mutant: the token is good for ever.
Mutant_VerifyChallenge(token, answer) ==
    /\ clock - token.at >= 0
    /\ token = Token(secret, token.at, NormalizeAnswer(answer))

VerifyChallenge(token, answer) ==
    /\ clock - token.at \in 0..Ttl
    /\ token = Token(secret, token.at, NormalizeAnswer(answer))

-----------------------------------------------------------------------------
(* The handlers. *)

ChallengeWanted == setting.usecaptcha /\ ~login
ChallengeErrors(token, answer) ==
    IF ~ChallengeWanted THEN {}
    ELSE IF TrimSpace(answer) = <<>> THEN {"challengeMissing"}
    ELSE IF ~VerifyChallenge(token, answer) THEN {"challengeWrong"}
    ELSE {}

\* Every form that goes out carries a fresh stamp and, if it asks, a fresh
\* question.
NoForm == [kind |-> "none"]
Fresh(kind) ==
    {[kind |-> kind, at |-> clock, stamp |-> Sign(secret, clock),
      asks |-> ChallengeWanted, sum |-> s,
      token |-> IF ChallengeWanted THEN Token(secret, clock, s) ELSE NoStamp] :
        s \in IF ChallengeWanted THEN Sums ELSE {<<>>}}

\* Whether the handler gets as far as the form: an entry nobody may see is a
\* 404 but for an admin that asks, the contact page is about none.
Reaches(kind, adminview) == kind = "contact" \/ entry # "hidden" \/ adminview

\* postComment: the lists for everybody, then the points, then the rest.
CommentErrors(p) ==
    IF MatchWord(SpamWords, p.text) \/ MatchIP(IpBlocks, p.ip) THEN {"spamRefused"}
    ELSE IF setting.usecfp /\ ~login /\ Verify(p.trap, p.stamp, p.text, {}, {}, p.ip)
    THEN {"spamRefused"}
    ELSE ChallengeErrors(p.token, p.answer) \union (IF p.whole THEN {} ELSE {"correctIssues"})

\* antispamErrors: nothing for who is logged in, and no address list.
AntispamErrors(p) ==
    IF login THEN {}
    ELSE IF MatchWord(SpamWords, p.text) THEN {"spamRefused"}
    ELSE IF setting.usecfp /\ Verify(p.trap, p.stamp, p.text, {}, {}, p.ip) THEN {"spamRefused"}
    ELSE ChallengeErrors(p.token, p.answer)

\* handleContact and handleSend tell all that is wrong at once.
MailErrors(p) == (IF p.whole THEN {} ELSE {"correctIssues"}) \union AntispamErrors(p)

Errors(kind, p) == IF kind = "comment" THEN CommentErrors(p) ELSE MailErrors(p)

SpmStart ==
    /\ clock = 1
    /\ secret = CHOOSE s \in Secrets : TRUE
    /\ entry = "open"
    /\ form = NoForm
SpmInit ==
    /\ SpmStart
    /\ setting \in Settings
    /\ login \in BOOLEAN
SpmRest ==
    /\ SpmStart
    /\ setting = [usecfp |-> FALSE, usecaptcha |-> FALSE]
    /\ login = FALSE

OpenForm(kind) ==
    /\ form = NoForm
    /\ Reaches(kind, login)
    /\ form' \in Fresh(kind)
    /\ UNCHANGED <<clock, secret, setting, login, entry>>

\* The visitor posts: every hidden field as it came, or the honeypot filled, or
\* the stamp left out.  With errors the form comes back, a fresh one.  The
\* address a form is posted to does not ask for the admin's view.
Submit(p) ==
    /\ form # NoForm
    /\ Reaches(form.kind, FALSE)
    /\ form.kind = "comment" => entry # "closed"
    /\ IF Errors(form.kind, p) = {} THEN form' = NoForm ELSE form' \in Fresh(form.kind)
    /\ UNCHANGED <<clock, secret, setting, login, entry>>

\* All was right and the mail could not be sent: the form comes back.
MailFails(p) ==
    /\ form # NoForm /\ form.kind # "comment"
    /\ Reaches(form.kind, FALSE)
    /\ Errors(form.kind, p) = {}
    /\ form' \in Fresh(form.kind)
    /\ UNCHANGED <<clock, secret, setting, login, entry>>

\* The form is about an entry that meanwhile takes no comments, or is not there.
MeetClosed ==
    /\ form # NoForm
    /\ IF Reaches(form.kind, FALSE)
       THEN form.kind = "comment" /\ entry = "closed" /\ form' \in Fresh(form.kind)
       ELSE form' = NoForm
    /\ UNCHANGED <<clock, secret, setting, login, entry>>

TimePasses ==
    /\ form # NoForm
    /\ \E d \in Steps : clock + d <= MaxTime /\ clock' = clock + d
    /\ UNCHANGED <<secret, setting, login, entry, form>>

\* The owner, the author, the operator change things while a form is open.
SettingsChange ==
    /\ form # NoForm
    /\ setting' \in Settings \ {setting}
    /\ UNCHANGED <<clock, secret, login, entry, form>>
EntryChanges ==
    /\ form # NoForm
    /\ entry' \in {"open", "closed", "hidden"} \ {entry}
    /\ UNCHANGED <<clock, secret, setting, login, form>>
LogsInOrOut ==
    /\ form # NoForm
    /\ login' = ~login
    /\ UNCHANGED <<clock, secret, setting, entry, form>>
RestartWithSecret ==
    /\ form # NoForm
    /\ secret' \in Secrets \ {secret}
    /\ UNCHANGED <<clock, setting, login, entry, form>>

Posted(f) ==
    [trap : BOOLEAN, stamp : {f.stamp, NoStamp}, token : {f.token}, text : Texts, ip : Ips,
     answer : Guesses \union {f.sum}, whole : BOOLEAN]

SpmNext ==
    \/ \E k \in Kinds : OpenForm(k)
    \/ form # NoForm /\ \E p \in Posted(form) : Submit(p) \/ MailFails(p)
    \/ MeetClosed \/ TimePasses \/ SettingsChange \/ EntryChanges
    \/ LogsInOrOut \/ RestartWithSecret

SpmSpec == SpmInit /\ [][SpmNext]_spmVars

-----------------------------------------------------------------------------
(* What the guard promises, said without signatures, points or parsing. *)

\* A listed word, in any case, anywhere in the text.
SaysSpam(t) ==
    \E w \in SpamWords : LET word == TrimSpace(w) IN
        /\ word # <<>>
        /\ \E i \in 0..(Len(t) - Len(word)) :
              \A j \in 1..Len(word) : Lower(t)[i + j] = Lower(word)[j]

\* A star of the pattern stands for any run of characters: of each character of
\* the pattern there is a place where what it stands for ends.
StandsFor(b, s) ==
    \E end \in [0..Len(b) -> 0..Len(s)] :
        /\ end[0] = 0 /\ end[Len(b)] = Len(s)
        /\ \A n \in 1..Len(b) :
              IF b[n] = "*" THEN end[n] >= end[n - 1]
              ELSE end[n] = end[n - 1] + 1 /\ b[n] = s[end[n]]
BlocksAddress(b, s) ==
    /\ b # <<>> /\ s # <<>>
    /\ IF Stars(b) # {} THEN StandsFor(b, s) ELSE Lower(b) = Lower(s)
Listed == {ip \in Ips : \E b \in IpBlocks : BlocksAddress(TrimSpace(b), TrimSpace(ip))}

Links(t) ==
    Cardinality({i \in DOMAIN t :
        t[i] \in Schemes \/ (t[i] \in DOMAIN LowerCase /\ LowerCase[t[i]] \in Schemes)})

\* The digits typed are these, in their order, and no minus comes before all else.
Reads(answer, sum) ==
    /\ \A i \in DOMAIN answer : answer[i] = "-" => \E j \in 1..(i - 1) : answer[j] # " "
    /\ \E at \in [DOMAIN sum -> DOMAIN answer] :
          /\ \A m, n \in DOMAIN sum : m < n => at[m] < at[n]
          /\ \A n \in DOMAIN sum : answer[at[n]] = sum[n]
          /\ \A i \in DOMAIN answer : answer[i] \in Digits => \E n \in DOMAIN sum : at[n] = i

\* The visitor answers what the form in front of them asks, within the hour, to
\* the blog as it runs.
RightAnswer(answer) ==
    /\ form.asks
    /\ Reads(answer, form.sum)
    /\ form.token = Token(secret, form.at, form.sum)
    /\ clock <= form.at + Ttl

\* Whatever happened since a form went out, it is taken exactly when the text
\* has no listed word, the honeypot is empty and the links are at most six, and
\* the question was answered that the form asked, within the hour, under the
\* secret it was asked under; who is logged in is asked nothing, a blog that
\* does not use a check does not run it, and the age of the stamp decides
\* nothing by itself (Verify, checkStamp, VerifyChallenge, postComment,
\* antispamErrors).
FormVerdicts ==
    form # NoForm => \A p \in Posted(form) :
        LET listed == \/ SaysSpam(p.text) /\ ~(login /\ form.kind # "comment")
                      \/ p.ip \in Listed /\ form.kind = "comment"
            caught == ~login /\ setting.usecfp /\ (p.trap \/ Links(p.text) > 6)
            silent == ~login /\ setting.usecaptcha /\ ~RightAnswer(p.answer)
        IN Errors(form.kind, p) = {} <=> p.whole /\ ~listed /\ ~caught /\ ~silent
=============================================================================
