----------------------------- MODULE EdgesProofs -----------------------------
(***************************************************************************)
(* Theorems about the forms a visitor posts (Antispam), for any words,     *)
(* patterns, addresses, texts, questions and secrets, and with those of    *)
(* the clients and the readers the one about the edges together.           *)
(*                                                                         *)
(* The walk over the stars of a pattern is a recursive function: that it   *)
(* is one, and what it finds, is proved by looking at the least number     *)
(* something could be wrong for.                                           *)
(***************************************************************************)
EXTENDS Edges, XmlrpcProofs, ReadingProofs

-----------------------------------------------------------------------------
(* Patterns. *)

\* The star before a place stands before it, and none stands between.
LEMMA StarFacts ==
    ASSUME NEW S, NEW b \in Seq(S)
    PROVE  /\ Stars(b) \subseteq 1..Len(b)
           /\ \A i \in 1..(Len(b) + 1) :
                 /\ StarsBefore(b, i) \subseteq Stars(b)
                 /\ StarsBefore(b, i) # {} =>
                       /\ Max(StarsBefore(b, i)) \in Stars(b)
                       /\ Max(StarsBefore(b, i)) < i
                       /\ \A j \in Stars(b) : j < i => j <= Max(StarsBefore(b, i))
<1>1. DOMAIN b = 1..Len(b) /\ Len(b) \in Nat
  BY LenProperties
<1>2. Stars(b) \subseteq 1..Len(b)
  BY <1>1 DEF Stars
<1>3. ASSUME NEW i \in 1..(Len(b) + 1)
      PROVE  /\ StarsBefore(b, i) \subseteq Stars(b)
             /\ StarsBefore(b, i) # {} =>
                       /\ Max(StarsBefore(b, i)) \in Stars(b)
                       /\ Max(StarsBefore(b, i)) < i
                       /\ \A j \in Stars(b) : j < i => j <= Max(StarsBefore(b, i))
  <2> DEFINE B == StarsBefore(b, i)
  <2>1. B \subseteq Stars(b) /\ B \subseteq 0..Len(b) /\ \A j \in B : j < i
    BY <1>1, <1>2 DEF StarsBefore
  <2>2. \A j \in Stars(b) : j < i => j \in B
    BY DEF StarsBefore
  <2> HIDE DEF B
  <2>3. B # {} => Max(B) \in B /\ \A j \in B : Max(B) >= j
    BY <2>1, <1>1, MaxOf
  <2>4. \A j \in B : j \in Nat
    BY <2>1, <1>1
  <2>5. B # {} => Max(B) \in Stars(b) /\ Max(B) < i /\ \A j \in Stars(b) : j < i => j <= Max(B)
    BY <2>1, <2>2, <2>3, <2>4
  <2> QED
    BY <2>1, <2>5 DEF B
<1> QED
  BY <1>2, <1>3

\* The places behind what is used up, and where the part ends at the first.
PlacesFor(b, s, f, i) ==
    IF StarsBefore(b, i) = {} THEN Places(PartBefore(b, i), s) \intersect {1}
    ELSE {k \in Places(PartBefore(b, i), s) : k > f[Max(StarsBefore(b, i))]}
UsedAt(b, s, f, i) ==
    IF PlacesFor(b, s, f, i) = {} THEN Len(s) + 1
    ELSE Min(PlacesFor(b, s, f, i)) + Len(PartBefore(b, i)) - 1

\* The walk over the stars of a pattern is defined.
LEMMA UsedDefined ==
    ASSUME NEW S, NEW b \in Seq(S), NEW s
    PROVE  \A i \in Stars(b) : Used(b, s)[i] = UsedAt(b, s, Used(b, s), i)
<1> DEFINE Till(g, n) == \A i \in Stars(b) : i <= n => g[i] = UsedAt(b, s, g, i)
           T == {n \in Nat : \E g : Till(g, n)}
<1>0. Len(b) \in Nat
  BY LenProperties
<1>1. 0 \in T
  BY StarFacts, <1>0
<1>2. ASSUME NEW n \in T PROVE n + 1 \in T
  <2>1. PICK g : Till(g, n)
    OBVIOUS
  <2> DEFINE h == [i \in Stars(b) |-> IF i <= n THEN g[i] ELSE UsedAt(b, s, g, i)]
  <2>2. ASSUME NEW i \in Stars(b), i <= n + 1
        PROVE  UsedAt(b, s, h, i) = UsedAt(b, s, g, i)
    <3>1. i \in 1..(Len(b) + 1)
      BY StarFacts, <1>0
    <3>2. StarsBefore(b, i) # {} =>
            Max(StarsBefore(b, i)) \in Stars(b) /\ Max(StarsBefore(b, i)) < i /\ Max(StarsBefore(b, i)) \in Nat
      BY <3>1, <1>0, StarFacts
    <3>3. StarsBefore(b, i) # {} => h[Max(StarsBefore(b, i))] = g[Max(StarsBefore(b, i))]
      BY <2>2, <3>1, <3>2
    <3>4. PlacesFor(b, s, h, i) = PlacesFor(b, s, g, i)
      BY <3>3, Zenon DEF PlacesFor
    <3> QED
      BY <3>4, Zenon DEF UsedAt
  <2>3. ASSUME NEW i \in Stars(b), i <= n + 1 PROVE h[i] = UsedAt(b, s, g, i)
    <3>1. h[i] = IF i <= n THEN g[i] ELSE UsedAt(b, s, g, i)
      OBVIOUS
    <3> QED
      BY <3>1, <2>1
  <2>4. Till(h, n + 1)
    BY <2>2, <2>3
  <2> HIDE DEF h, Till
  <2> QED
    BY <2>4
<1>3. PICK g : Till(g, Len(b))
  <2> HIDE DEF Till
  <2>1. \A n \in Nat : n \in T
    BY <1>1, <1>2, Induct
  <2> QED
    BY <2>1, <1>0
<1> DEFINE h == [i \in Stars(b) |-> g[i]]
<1>4. ASSUME NEW i \in Stars(b) PROVE UsedAt(b, s, h, i) = g[i]
  <2>1. i \in 1..(Len(b) + 1) /\ i <= Len(b)
    BY StarFacts, <1>0
  <2>2. StarsBefore(b, i) # {} => h[Max(StarsBefore(b, i))] = g[Max(StarsBefore(b, i))]
    BY <2>1, StarFacts
  <2>3. PlacesFor(b, s, h, i) = PlacesFor(b, s, g, i)
    BY <2>2, Zenon DEF PlacesFor
  <2>4. UsedAt(b, s, h, i) = UsedAt(b, s, g, i)
    BY <2>3, Zenon DEF UsedAt
  <2> QED
    BY <2>4, <2>1, <1>3
<1>5. h = [i \in Stars(b) |-> UsedAt(b, s, h, i)]
  BY <1>4
<1> HIDE DEF h
<1>6. Used(b, s) = [i \in Stars(b) |-> UsedAt(b, s, Used(b, s), i)]
  BY <1>5 DEF Used, UsedAt, PlacesFor
<1> QED
  BY <1>6

-----------------------------------------------------------------------------
\* The star before a place of a pattern, and how long the part between is.
Prev(b, i) == IF StarsBefore(b, i) = {} THEN 0 ELSE Max(StarsBefore(b, i))
PartLen(b, i) == i - 1 - Prev(b, i)

\* The same of Prev, which is 0 where no star stands before.
LEMMA PrevFacts ==
    ASSUME NEW S, NEW b \in Seq(S), NEW i \in 1..(Len(b) + 1)
    PROVE  /\ Len(b) \in Nat
           /\ Prev(b, i) \in 0..(i - 1) /\ PartLen(b, i) \in Nat
           /\ Prev(b, i) # 0 => Prev(b, i) \in Stars(b)
           /\ Prev(b, i) = 0 <=> StarsBefore(b, i) = {}
           /\ StarsBefore(b, i) # {} => Prev(b, i) = Max(StarsBefore(b, i))
           /\ \A j \in Stars(b) : j < i => j <= Prev(b, i)
<1>1. Len(b) \in Nat
  BY LenProperties
<1>2. CASE StarsBefore(b, i) = {}
  <2>1. \A j \in Stars(b) : ~(j < i)
    BY <1>2 DEF StarsBefore
  <2> QED
    BY <1>1, <1>2, <2>1 DEF Prev, PartLen
<1>3. CASE StarsBefore(b, i) # {}
  <2> DEFINE m == Max(StarsBefore(b, i))
  <2>1. m \in Stars(b) /\ m < i /\ (\A j \in Stars(b) : j < i => j <= m) /\ m \in 1..Len(b)
    BY <1>3, StarFacts
  <2>2. Prev(b, i) = m
    BY <1>3 DEF Prev
  <2> HIDE DEF m
  <2>3. m # 0 /\ m \in 0..(i - 1)
    BY <2>1, <1>1
  <2>4. Prev(b, i) = Max(StarsBefore(b, i))
    BY <1>3 DEF Prev
  <2> QED
    BY <1>1, <1>3, <2>1, <2>2, <2>3, <2>4 DEF PartLen
<1> QED
  BY <1>2, <1>3

\* The part before a place, character by character.
LEMMA PartFacts ==
    ASSUME NEW S, NEW b \in Seq(S), NEW i \in 1..(Len(b) + 1)
    PROVE  /\ PartBefore(b, i) \in Seq(S) /\ Len(PartBefore(b, i)) = PartLen(b, i)
           /\ \A n \in 1..PartLen(b, i) : PartBefore(b, i)[n] = b[Prev(b, i) + n]
<1> DEFINE j == Prev(b, i)
<1>1. PartBefore(b, i) = SubSeq(b, j + 1, i - 1)
  <2>1. CASE StarsBefore(b, i) = {}
    <3>1. j = 0 /\ PartBefore(b, i) = SubSeq(b, 1, i - 1)
      BY <2>1 DEF Prev, PartBefore
    <3> QED
      BY <3>1
  <2>2. CASE StarsBefore(b, i) # {}
    BY <2>2, Zenon DEF Prev, PartBefore
  <2> QED
    BY <2>1, <2>2
<1>2. Len(b) \in Nat /\ j \in 0..(i - 1) /\ \A n \in 1..Len(b) : b[n] \in S
  BY PrevFacts, ElementOfSeq
<1>3. PartLen(b, i) = i - 1 - j /\ PartLen(b, i) \in Nat
  BY PrevFacts DEF PartLen
<1> HIDE DEF j
<1>4. j + 1 \in Int /\ i - 1 \in Int /\ \A n \in (j + 1)..(i - 1) : b[n] \in S
  BY <1>2
<1>5. /\ SubSeq(b, j + 1, i - 1) \in Seq(S)
      /\ Len(SubSeq(b, j + 1, i - 1)) = IF j + 1 <= i - 1 THEN i - 1 - (j + 1) + 1 ELSE 0
      /\ \A n \in 1..(i - 1 - (j + 1) + 1) : SubSeq(b, j + 1, i - 1)[n] = b[j + 1 + n - 1]
  BY <1>4, SubSeqProperties
<1>6. Len(SubSeq(b, j + 1, i - 1)) = PartLen(b, i)
  BY <1>2, <1>3, <1>5
<1>7. \A n \in 1..PartLen(b, i) : SubSeq(b, j + 1, i - 1)[n] = b[j + n]
  <2>1. i - 1 - (j + 1) + 1 = PartLen(b, i) /\ \A n \in 1..PartLen(b, i) : j + 1 + n - 1 = j + n
    BY <1>2, <1>3
  <2> QED
    BY <1>5, <2>1
<1> QED
  BY <1>1, <1>5, <1>6, <1>7 DEF j

\* A piece of a text equals another text, character by character.
LEMMA PieceIs ==
    ASSUME NEW S, NEW s \in Seq(S), NEW p \in Seq(S), NEW k \in 1..(Len(s) - Len(p) + 1)
    PROVE  SubSeq(s, k, k + Len(p) - 1) = p <=> \A n \in 1..Len(p) : s[k + n - 1] = p[n]
<1>1. Len(s) \in Nat /\ Len(p) \in Nat /\ \A n \in 1..Len(s) : s[n] \in S
  BY LenProperties, ElementOfSeq
<1>2. \A n \in k..(k + Len(p) - 1) : s[n] \in S
  BY <1>1
<1> DEFINE q == SubSeq(s, k, k + Len(p) - 1)
<1>3. /\ q \in Seq(S) /\ Len(q) = IF k <= k + Len(p) - 1 THEN k + Len(p) - 1 - k + 1 ELSE 0
      /\ \A n \in 1..(k + Len(p) - 1 - k + 1) : q[n] = s[k + n - 1]
  BY <1>1, <1>2, SubSeqProperties
<1> HIDE DEF q
<1>4. Len(q) = Len(p) /\ k + Len(p) - 1 - k + 1 = Len(p)
  BY <1>1, <1>3
<1>5. \A n \in 1..Len(p) : q[n] = s[k + n - 1]
  BY <1>3, <1>4
<1>6. q = p <=> \A n \in 1..Len(q) : q[n] = p[n]
  BY <1>3, <1>4, SeqEqual
<1> QED
  BY <1>4, <1>5, <1>6 DEF q

\* Where a part stands in a text, character by character.
LEMMA PlacesAre ==
    ASSUME NEW S, NEW b \in Seq(S), NEW s \in Seq(S), NEW i \in 1..(Len(b) + 1), NEW k
    PROVE  k \in Places(PartBefore(b, i), s) <=>
              /\ k \in 1..(Len(s) - PartLen(b, i) + 1)
              /\ \A n \in 1..PartLen(b, i) : s[k + n - 1] = b[Prev(b, i) + n]
<1> DEFINE p == PartBefore(b, i)
<1>1. p \in Seq(S) /\ Len(p) = PartLen(b, i) /\ \A n \in 1..Len(p) : p[n] = b[Prev(b, i) + n]
  BY PartFacts
<1> HIDE DEF p
<1>2. k \in Places(p, s) <=> k \in 1..(Len(s) - Len(p) + 1) /\ SubSeq(s, k, k + Len(p) - 1) = p
  BY DEF Places
<1>3. ASSUME k \in 1..(Len(s) - Len(p) + 1)
      PROVE  SubSeq(s, k, k + Len(p) - 1) = p <=> \A n \in 1..Len(p) : s[k + n - 1] = p[n]
  <2>1. s \in Seq(S) /\ p \in Seq(S)
    BY <1>1
  <2>2. \A m \in 1..(Len(s) - Len(p) + 1) :
            SubSeq(s, m, m + Len(p) - 1) = p <=> \A n \in 1..Len(p) : s[m + n - 1] = p[n]
    BY <2>1, PieceIs
  <2> QED
    BY <1>3, <2>2, Zenon
<1> QED
  BY <1>1, <1>2, <1>3 DEF p

\* What is used up at a star: nowhere, or the end of the first place its part has.
LEMMA UsedFacts ==
    ASSUME NEW S, NEW b \in Seq(S), NEW s \in Seq(S), NEW i \in Stars(b)
    PROVE  LET P == PlacesFor(b, s, Used(b, s), i) IN
           /\ Used(b, s)[i] \in 0..(Len(s) + 1)
           /\ Used(b, s)[i] <= Len(s) <=> P # {}
           /\ P # {} => \E k \in P : /\ Used(b, s)[i] = k + PartLen(b, i) - 1
                                     /\ \A m \in P : m \in Nat /\ k <= m
<1> DEFINE P == PlacesFor(b, s, Used(b, s), i)
<1>1. i \in 1..Len(b) /\ Len(b) \in Nat /\ Len(s) \in Nat
  BY StarFacts, LenProperties
<1>2. PartLen(b, i) \in Nat /\ Len(PartBefore(b, i)) = PartLen(b, i)
  BY <1>1, PrevFacts, PartFacts
<1>3. P \subseteq Places(PartBefore(b, i), s)
  BY DEF PlacesFor
<1>4. \A k \in P : k \in 1..(Len(s) - PartLen(b, i) + 1)
  BY <1>1, <1>3, PlacesAre
<1>5. Used(b, s)[i] = IF P = {} THEN Len(s) + 1 ELSE Min(P) + PartLen(b, i) - 1
  <2>1. Used(b, s)[i] = UsedAt(b, s, Used(b, s), i)
    BY UsedDefined
  <2> QED
    BY <2>1, <1>2 DEF UsedAt
<1> HIDE DEF P
<1>6. P \subseteq Nat
  BY <1>4, <1>2, <1>1
<1>7. P # {} => Min(P) \in P /\ \A m \in P : Min(P) <= m
  BY <1>6, MinOf
<1>8. CASE P = {}
  <2>1. Used(b, s)[i] = Len(s) + 1
    BY <1>5, <1>8
  <2> QED
    BY <1>1, <1>8, <2>1 DEF P
<1>9. CASE P # {}
  <2> DEFINE m == Min(P)
  <2>1. m \in P /\ m \in 1..(Len(s) - PartLen(b, i) + 1) /\ Used(b, s)[i] = m + PartLen(b, i) - 1
    BY <1>4, <1>5, <1>7, <1>9
  <2>2. \A k \in P : k \in Nat /\ m <= k
    BY <1>6, <1>7, <1>9
  <2> HIDE DEF m
  <2>3. Used(b, s)[i] \in 0..(Len(s) + 1) /\ Used(b, s)[i] <= Len(s)
    BY <2>1, <1>1, <1>2
  <2> QED
    BY <1>9, <2>1, <2>2, <2>3 DEF P
<1> QED
  BY <1>8, <1>9

-----------------------------------------------------------------------------
\* What StandsFor asks of the places where things end.
Fits(b, s, end) ==
    /\ end \in [0..Len(b) -> 0..Len(s)]
    /\ end[0] = 0 /\ end[Len(b)] = Len(s)
    /\ \A n \in 1..Len(b) :
          IF b[n] = "*" THEN end[n] >= end[n - 1]
          ELSE end[n] = end[n - 1] + 1 /\ b[n] = s[end[n]]

\* Between two stars a fit goes on by one character each.
LEMMA Runs ==
    ASSUME NEW S, NEW b \in Seq(S), NEW s \in Seq(S), NEW g, Fits(b, s, g), NEW i \in 1..(Len(b) + 1)
    PROVE  /\ \A n \in 0..PartLen(b, i) : g[Prev(b, i) + n] = g[Prev(b, i)] + n
           /\ \A n \in 1..PartLen(b, i) : b[Prev(b, i) + n] = s[g[Prev(b, i)] + n]
<1> DEFINE j == Prev(b, i)  len == PartLen(b, i)
           T == {n \in Nat : n <= len => g[j + n] = g[j] + n}
<1>1. Len(b) \in Nat /\ Len(s) \in Nat /\ DOMAIN b = 1..Len(b)
  BY LenProperties
<1>2. j \in 0..(i - 1) /\ len \in Nat /\ len = i - 1 - j
  BY PrevFacts DEF PartLen
<1>3. \A n \in 1..len : j + n \in 1..Len(b) /\ j + n \notin Stars(b)
  <2>1. \A k \in Stars(b) : k < i => k <= j
    BY PrevFacts
  <2> HIDE DEF j, len
  <2> QED
    BY <1>1, <1>2, <2>1
<1> HIDE DEF j, len
<1>4. \A n \in 1..len : b[j + n] # "*"
  BY <1>1, <1>3 DEF Stars
<1>5. \A n \in 0..Len(b) : g[n] \in 0..Len(s)
  BY DEF Fits
<1>6. ASSUME NEW n \in 1..len PROVE g[j + n] = g[(j + n) - 1] + 1 /\ b[j + n] = s[g[j + n]]
  <2> DEFINE m == j + n
  <2>1. m \in 1..Len(b) /\ b[m] # "*"
    BY <1>3, <1>4
  <2> HIDE DEF m
  <2>2. g[m] = g[m - 1] + 1 /\ b[m] = s[g[m]]
    BY <2>1, Zenon DEF Fits
  <2> QED
    BY <2>2 DEF m
<1>7. 0 \in T
  BY <1>2, <1>5, <1>1
<1>8. ASSUME NEW n \in T PROVE n + 1 \in T
  <2>1. SUFFICES ASSUME n + 1 <= len PROVE g[j + (n + 1)] = g[j] + (n + 1)
    OBVIOUS
  <2>2. n + 1 \in 1..len /\ n \in Nat
    BY <2>1, <1>2
  <2>3. g[j + n] = g[j] + n
    BY <2>1, <2>2, <1>2
  <2>4. (j + (n + 1)) - 1 = j + n /\ j \in Nat
    BY <2>2, <1>2
  <2>5. g[j + (n + 1)] = g[j + n] + 1
    BY <1>6, <2>2, <2>4
  <2>6. g[j] \in Int
    BY <1>1, <1>2, <1>5
  <2> QED
    BY <2>2, <2>3, <2>5, <2>6
<1>9. \A n \in 0..len : g[j + n] = g[j] + n
  <2>1. \A n \in Nat : n \in T
    BY <1>7, <1>8, Induct
  <2> QED
    BY <2>1, <1>2
<1>10. \A n \in 1..len : b[j + n] = s[g[j] + n]
  <2>1. \A n \in 1..len : n \in 0..len
    BY <1>2
  <2> QED
    BY <1>6, <1>9, <2>1
<1> QED
  BY <1>9, <1>10 DEF j, len

\* The walk uses up no more than any fit.
LEMMA WalkIsFirst ==
    ASSUME NEW S, NEW b \in Seq(S), NEW s \in Seq(S), NEW g, Fits(b, s, g)
    PROVE  \A i \in Stars(b) : Used(b, s)[i] <= g[i - 1]
<1> DEFINE U == Used(b, s)
           Bad == {i \in Stars(b) : ~(U[i] <= g[i - 1])}
<1>1. Len(b) \in Nat /\ Len(s) \in Nat /\ Stars(b) \subseteq 1..Len(b)
  BY LenProperties, StarFacts
<1>2. \A n \in 0..Len(b) : g[n] \in 0..Len(s)
  BY DEF Fits
<1> HIDE DEF U
<1> SUFFICES ASSUME Bad # {} PROVE FALSE
  BY DEF U
<1>3. PICK i \in Bad : \A j \in Bad : i <= j
  <2>1. Bad \subseteq Nat
    BY <1>1
  <2> HIDE DEF Bad
  <2> QED
    BY <2>1, Least
<1> DEFINE j == Prev(b, i)  len == PartLen(b, i)  P == PlacesFor(b, s, U, i)
<1>4. i \in Stars(b) /\ i \in 1..Len(b) /\ i \in 1..(Len(b) + 1)
  BY <1>1, <1>3
<1>5. j \in 0..(i - 1) /\ len \in Nat /\ len = i - 1 - j
  BY <1>4, PrevFacts DEF PartLen
<1>6. /\ \A n \in 0..len : g[j + n] = g[j] + n
      /\ \A n \in 1..len : b[j + n] = s[g[j] + n]
  BY <1>4, Runs
<1>7. g[i - 1] = g[j] + len /\ g[j] \in 0..Len(s) /\ g[i - 1] \in 0..Len(s)
  <2> HIDE DEF j, len
  <2>1. j + len = i - 1 /\ len \in 0..len /\ j \in 0..Len(b) /\ i - 1 \in 0..Len(b)
    BY <1>1, <1>4, <1>5
  <2>2. g[j + len] = g[j] + len
    BY <1>6, <2>1
  <2> QED
    BY <1>2, <2>1, <2>2
<1>8. g[j] + 1 \in Places(PartBefore(b, i), s)
  <2>1. g[j] + 1 \in 1..(Len(s) - len + 1)
    <3> DEFINE x == g[j]
    <3>1. x \in 0..Len(s) /\ x + len \in 0..Len(s)
      BY <1>7
    <3> HIDE DEF x, j, len
    <3>2. x + 1 \in 1..(Len(s) - len + 1)
      BY <1>1, <1>5, <3>1
    <3> QED
      BY <3>2 DEF x
  <2>2. \A n \in 1..len : s[g[j] + 1 + n - 1] = b[j + n]
    <3> HIDE DEF j, len
    <3>1. \A n \in 1..len : g[j] + 1 + n - 1 = g[j] + n
      BY <1>5, <1>7
    <3> QED
      BY <1>6, <3>1
  <2> QED
    BY <1>4, <2>1, <2>2, PlacesAre
<1>9. g[j] + 1 \in P
  <2>1. CASE StarsBefore(b, i) = {}
    <3>1. j = 0 /\ g[j] = 0
      BY <2>1, <1>4, PrevFacts DEF Fits
    <3> HIDE DEF j
    <3> QED
      BY <1>8, <2>1, <3>1 DEF PlacesFor
  <2>2. CASE StarsBefore(b, i) # {}
    <3>1. j = Max(StarsBefore(b, i)) /\ j \in Stars(b) /\ j < i
      BY <2>2, <1>4, StarFacts, PrevFacts
    <3>2. U[j] \in 0..(Len(s) + 1)
      BY <3>1, UsedFacts DEF U
    <3>3. j \notin Bad
      <4> HIDE DEF Bad, j
      <4>1. j \in Nat /\ i \in Nat
        BY <1>1, <1>4, <3>1
      <4> QED
        BY <1>3, <3>1, <4>1
    <3>4. U[j] <= g[j - 1]
      BY <3>1, <3>3
    <3>5. g[j - 1] <= g[j] /\ g[j - 1] \in Int
      <4> HIDE DEF j
      <4>1. j \in 1..Len(b) /\ b[j] = "*"
        BY <1>1, <3>1 DEF Stars
      <4>2. g[j] >= g[j - 1]
        BY <4>1, Zenon DEF Fits
      <4>3. j - 1 \in 0..Len(b)
        BY <1>1, <4>1
      <4> QED
        BY <1>2, <1>7, <4>2, <4>3
    <3>6. g[j] + 1 > U[j]
      <4> HIDE DEF j
      <4> QED
        BY <1>7, <3>2, <3>4, <3>5
    <3> QED
      BY <1>8, <2>2, <3>1, <3>6 DEF PlacesFor
  <2> QED
    BY <2>1, <2>2
<1>10. PICK k \in P : U[i] = k + len - 1 /\ \A m \in P : m \in Nat /\ k <= m
  <2>1. P # {}
    BY <1>9
  <2> QED
    BY <2>1, <1>4, UsedFacts DEF U
<1>11. U[i] <= g[i - 1]
  <2>1. k <= g[j] + 1 /\ k \in Nat
    BY <1>9, <1>10
  <2> HIDE DEF j, len, P
  <2> QED
    BY <2>1, <1>5, <1>7, <1>10
<1> QED
  BY <1>3, <1>11

\* A text that fits is found.
LEMMA GlobFinds ==
    ASSUME NEW S, NEW b \in Seq(S), NEW s \in Seq(S), Stars(b) # {}, StandsFor(b, s)
    PROVE  GlobMatch(b, s)
<1>1. PICK g \in [0..Len(b) -> 0..Len(s)] : Fits(b, s, g)
  BY DEF StandsFor, Fits
<1> DEFINE e == Len(b) + 1  l == Prev(b, e)  len == PartLen(b, e)  p == PartBefore(b, e)
<1>2. Len(b) \in Nat /\ Len(s) \in Nat /\ e \in 1..(Len(b) + 1)
  BY LenProperties
<1>3. l \in 0..Len(b) /\ len \in Nat /\ len = Len(b) - l
  BY <1>2, PrevFacts DEF PartLen
<1>4. StarsBefore(b, e) = Stars(b)
  BY <1>2, StarFacts DEF StarsBefore
<1>5. l = Max(Stars(b)) /\ l \in Stars(b) /\ l \in 1..Len(b)
  BY <1>2, <1>4, PrevFacts, StarFacts
<1>6. p \in Seq(S) /\ Len(p) = len /\ \A n \in 1..len : p[n] = b[l + n]
  BY <1>2, PartFacts
<1>7. /\ \A n \in 0..len : g[l + n] = g[l] + n
      /\ \A n \in 1..len : b[l + n] = s[g[l] + n]
  <2>1. ASSUME NEW i \in 1..(Len(b) + 1)
        PROVE  /\ \A n \in 0..PartLen(b, i) : g[Prev(b, i) + n] = g[Prev(b, i)] + n
               /\ \A n \in 1..PartLen(b, i) : b[Prev(b, i) + n] = s[g[Prev(b, i)] + n]
    <3>1. Fits(b, s, g)
      BY <1>1
    <3> HIDE DEF e, l, len, p
    <3> QED
      BY <3>1, Runs, SMTT(60)
  <2> HIDE DEF e
  <2> QED
    BY <1>2, <2>1, Zenon
<1>8. Used(b, s)[l] <= g[l - 1] /\ Used(b, s)[l] \in Int
  BY <1>1, <1>5, <1>2, WalkIsFirst, UsedFacts
<1> HIDE DEF e, l, len, p
<1>9. g[l - 1] <= g[l] /\ g[l - 1] \in 0..Len(s) /\ g[l] \in 0..Len(s)
  <2>1. b[l] = "*"
    BY <1>5 DEF Stars
  <2>2. g[l] >= g[l - 1]
    BY <1>1, <1>5, <2>1, Zenon DEF Fits
  <2>3. l - 1 \in 0..Len(b) /\ l \in 0..Len(b)
    BY <1>2, <1>5
  <2> QED
    BY <2>2, <2>3
<1>10. g[l] + len = Len(s)
  <2>1. l + len = Len(b) /\ len \in 0..len
    BY <1>2, <1>3
  <2>2. g[Len(b)] = Len(s)
    BY <1>1 DEF Fits
  <2> QED
    BY <1>7, <2>1, <2>2
<1>11. Used(b, s)[l] + Len(p) <= Len(s)
  <2> DEFINE u == Used(b, s)[l]  x == g[l - 1]  y == g[l]
  <2>1. u <= x /\ u \in Int /\ x <= y /\ x \in Int /\ y \in Int /\ y + len = Len(s) /\ Len(p) = len
    BY <1>6, <1>8, <1>9, <1>10
  <2> HIDE DEF u, x, y
  <2>2. u + Len(p) <= Len(s)
    BY <1>2, <1>3, <2>1
  <2> QED
    BY <2>2 DEF u
<1>12. SubSeq(s, Len(s) - Len(p) + 1, Len(s)) = p
  <2> DEFINE k == Len(s) - len + 1
  <2>1. k \in 1..(Len(s) - Len(p) + 1) /\ k = g[l] + 1 /\ k + Len(p) - 1 = Len(s) /\ k = Len(s) - Len(p) + 1
    <3>1. Len(p) = len
      BY <1>6
    <3>2. k \in 1..(Len(s) - len + 1) /\ k = g[l] + 1 /\ k + len - 1 = Len(s)
      BY <1>2, <1>3, <1>9, <1>10
    <3> HIDE DEF k
    <3> QED
      BY <3>1, <3>2, <1>2, <1>3 DEF k
  <2>2. ASSUME NEW n \in 1..Len(p) PROVE s[k + n - 1] = p[n]
    <3>1. k + n - 1 = g[l] + n /\ n \in 1..len
      <4>1. Len(p) = len /\ k = g[l] + 1
        BY <1>6, <2>1
      <4> HIDE DEF k
      <4> QED
        BY <4>1, <1>3, <1>9
    <3> HIDE DEF k
    <3> QED
      BY <3>1, <1>6, <1>7
  <2> HIDE DEF k
  <2>3. SubSeq(s, k, k + Len(p) - 1) = p
    BY <1>6, <2>1, <2>2, PieceIs
  <2> QED
    BY <2>1, <2>3
<1>13. p = PartBefore(b, Len(b) + 1)
  BY DEF p, e
<1> QED
  BY <1>5, <1>11, <1>12, <1>13 DEF GlobMatch

-----------------------------------------------------------------------------
\* Where what stands before a star, or the end of the pattern, ends.
EndAt(b, s, i) == IF i = Len(b) + 1 THEN Len(s) ELSE Used(b, s)[i]
StartAt(b, s, i) == EndAt(b, s, i) - PartLen(b, i)

\* Of a text that is found each part has its place, behind the part before it.
LEMMA PartsStand ==
    ASSUME NEW S, NEW b \in Seq(S), NEW s \in Seq(S), Stars(b) # {}, GlobMatch(b, s),
           NEW i \in Stars(b) \union {Len(b) + 1}
    PROVE  /\ EndAt(b, s, i) \in 0..Len(s) /\ StartAt(b, s, i) \in 0..Len(s)
           /\ \A n \in 1..PartLen(b, i) : s[StartAt(b, s, i) + n] = b[Prev(b, i) + n]
           /\ IF StarsBefore(b, i) = {} THEN StartAt(b, s, i) = 0
              ELSE StartAt(b, s, i) >= EndAt(b, s, Prev(b, i))
<1> DEFINE U == Used(b, s)  e == Len(b) + 1  last == Max(Stars(b))
<1>1. Len(b) \in Nat /\ Len(s) \in Nat /\ Stars(b) \subseteq 1..Len(b) /\ e \in 1..(Len(b) + 1)
  BY LenProperties, StarFacts
<1>2. StarsBefore(b, e) = Stars(b)
  BY <1>1 DEF StarsBefore
<1>3. last = Prev(b, e) /\ last \in Stars(b) /\ \A j \in Stars(b) : j <= last
  <2> HIDE DEF e, last
  <2>1. last = Prev(b, e)
    BY <1>1, <1>2, PrevFacts DEF last
  <2>2. last \in Stars(b)
    BY <1>1, <1>2, <2>1, StarFacts DEF last
  <2>3. \A j \in Stars(b) : j < e
    BY <1>1 DEF e
  <2>4. \A j \in Stars(b) : j <= last
    BY <1>1, <2>1, <2>3, PrevFacts
  <2> QED
    BY <2>1, <2>2, <2>4
<1>4. \A j \in Stars(b) : U[j] \in 0..(Len(s) + 1)
  BY UsedFacts
\* The part before a star that is reached.
<1>5. ASSUME NEW j \in Stars(b), U[j] <= Len(s)
      PROVE  /\ U[j] - PartLen(b, j) \in 0..Len(s)
             /\ \A n \in 1..PartLen(b, j) : s[U[j] - PartLen(b, j) + n] = b[Prev(b, j) + n]
             /\ IF StarsBefore(b, j) = {} THEN U[j] - PartLen(b, j) = 0
                ELSE U[j] - PartLen(b, j) >= U[Prev(b, j)] /\ U[Prev(b, j)] <= Len(s)
  <2> DEFINE P == PlacesFor(b, s, U, j)  len == PartLen(b, j)
  <2>1. j \in 1..Len(b) /\ j \in 1..(Len(b) + 1)
    BY <1>1
  <2>2. len \in Nat
    BY <2>1, PrevFacts
  <2>3. PICK k \in P : U[j] = k + len - 1
    BY <1>5, UsedFacts
  <2>4. k \in Places(PartBefore(b, j), s)
    BY DEF PlacesFor
  <2>5. k \in 1..(Len(s) - len + 1) /\ \A n \in 1..len : s[k + n - 1] = b[Prev(b, j) + n]
    BY <2>1, <2>4, PlacesAre
  <2>6. StarsBefore(b, j) = {} => k = 1
    BY DEF PlacesFor
  <2>7. StarsBefore(b, j) # {} =>
            k > U[Prev(b, j)] /\ U[Prev(b, j)] \in 0..(Len(s) + 1)
    <3>1. StarsBefore(b, j) # {} => Prev(b, j) = Max(StarsBefore(b, j)) /\ Prev(b, j) \in Stars(b)
      BY <2>1, PrevFacts
    <3> QED
      BY <3>1, <1>4 DEF PlacesFor
  <2> HIDE DEF P, len, U
  <2>8. U[j] - len = k - 1 /\ k \in Nat
    BY <2>2, <2>3, <2>5, <1>1
  <2>9. \A n \in 1..len : s[U[j] - len + n] = b[Prev(b, j) + n]
    <3>1. \A n \in 1..len : U[j] - len + n = k + n - 1
      BY <2>2, <2>8
    <3> QED
      BY <2>5, <3>1
  <2>10. U[j] - len \in 0..Len(s)
    BY <2>2, <2>5, <2>8, <1>1
  <2>11. StarsBefore(b, j) # {} => U[j] - len >= U[Prev(b, j)] /\ U[Prev(b, j)] <= Len(s)
    BY <2>2, <2>5, <2>7, <2>8, <1>1
  <2>12. StarsBefore(b, j) = {} => U[j] - len = 0
    BY <2>6, <2>8
  <2> QED
    BY <2>9, <2>10, <2>11, <2>12 DEF len, U
\* The end of the pattern is a suffix.
<1>6. /\ U[last] <= Len(s) - PartLen(b, e) /\ PartLen(b, e) \in Nat
      /\ \A n \in 1..PartLen(b, e) : s[Len(s) - PartLen(b, e) + n] = b[last + n]
  <2> DEFINE p == PartBefore(b, e)  len == PartLen(b, e)
  <2> HIDE DEF e, last
  <2>1. p \in Seq(S) /\ Len(p) = len /\ len \in Nat /\ \A n \in 1..len : p[n] = b[last + n]
    BY <1>1, <1>3, PartFacts, PrevFacts
  <2>2. U[last] + Len(p) <= Len(s) /\ SubSeq(s, Len(s) - Len(p) + 1, Len(s)) = p
    BY DEF GlobMatch, e, last
  <2>3. U[last] \in 0..(Len(s) + 1)
    BY <1>3, <1>4
  <2> HIDE DEF p, len, U
  <2>4. U[last] <= Len(s) - len
    BY <1>1, <2>1, <2>2, <2>3
  <2> DEFINE k == Len(s) - Len(p) + 1
  <2>5. k \in 1..(Len(s) - Len(p) + 1) /\ k + Len(p) - 1 = Len(s)
    <3>1. Len(p) \in Nat /\ Len(p) <= Len(s)
      BY <1>1, <2>1, <2>3, <2>4
    <3> QED
      BY <1>1, <3>1
  <2> HIDE DEF k
  <2>6. SubSeq(s, k, k + Len(p) - 1) = p
    BY <2>2, <2>5 DEF k
  <2>7. \A n \in 1..Len(p) : s[k + n - 1] = p[n]
    BY <2>1, <2>5, <2>6, PieceIs
  <2>8. \A n \in 1..len : s[Len(s) - len + n] = b[last + n]
    <3>1. \A n \in 1..len : k + n - 1 = Len(s) - len + n
      BY <1>1, <2>1 DEF k
    <3> QED
      BY <2>1, <2>7, <3>1
  <2> QED
    BY <2>1, <2>4, <2>8 DEF len, U
\* Hence every star is reached.
<1>7. \A j \in Stars(b) : U[j] <= Len(s)
  <2> DEFINE T == {n \in Nat : \A j \in Stars(b) : last - j <= n => U[j] <= Len(s)}
  <2> HIDE DEF U, last, e
  <2>1. 0 \in T
    <3>1. \A j \in Stars(b) : last - j <= 0 => j = last
      BY <1>1, <1>3
    <3>2. U[last] <= Len(s)
      BY <1>1, <1>3, <1>4, <1>6
    <3> QED
      BY <3>1, <3>2
  <2>2. ASSUME NEW n \in T PROVE n + 1 \in T
    <3>1. SUFFICES ASSUME NEW j \in Stars(b), last - j <= n + 1 PROVE U[j] <= Len(s)
      OBVIOUS
    <3>2. CASE j = last
      BY <3>2, <1>1, <1>3, <1>4, <1>6
    <3>3. CASE j # last
      <4> DEFINE After == {k \in Stars(b) : k > j}
      <4>1. After # {} /\ After \subseteq Nat
        BY <3>3, <1>1, <1>3
      <4> HIDE DEF After
      <4>2. PICK k \in After : \A m \in After : k <= m
        BY <4>1, Least
      <4>3. k \in Stars(b) /\ k > j /\ k \in 1..Len(b) /\ k \in 1..(Len(b) + 1)
        BY <4>2, <1>1 DEF After
      <4>4. last - k <= n
        BY <4>3, <3>1, <1>1, <1>3
      <4>5. U[k] <= Len(s)
        BY <4>3, <4>4
      <4>6. Prev(b, k) = j /\ StarsBefore(b, k) # {}
        <5>1. j \in StarsBefore(b, k)
          BY <4>3 DEF StarsBefore
        <5>2. Prev(b, k) \in Stars(b) /\ Prev(b, k) \in 0..(k - 1) /\ j <= Prev(b, k)
          BY <4>3, <5>1, PrevFacts
        <5>3. ~(Prev(b, k) > j)
          BY <4>2, <4>3, <5>2, <1>1 DEF After
        <5> QED
          BY <5>1, <5>2, <5>3, <1>1
      <4> QED
        BY <1>5, <4>3, <4>5, <4>6
    <3> QED
      BY <3>2, <3>3
  <2>3. \A n \in Nat : n \in T
    <3> HIDE DEF T
    <3>1. T \subseteq Nat
      BY DEF T
    <3> QED
      BY <2>1, <2>2, <3>1, Induct
  <2>4. ASSUME NEW j \in Stars(b) PROVE U[j] <= Len(s)
    <3>1. last - j \in Nat
      BY <1>1, <1>3
    <3> QED
      BY <2>3, <3>1
  <2> QED
    BY <2>4
<1>8. CASE i \in Stars(b)
  <2>1. i # Len(b) + 1 /\ i \in 1..(Len(b) + 1)
    BY <1>1, <1>8
  <2>2. EndAt(b, s, i) = U[i] /\ StartAt(b, s, i) = U[i] - PartLen(b, i)
    BY <2>1 DEF EndAt, StartAt
  <2>3. StarsBefore(b, i) # {} => EndAt(b, s, Prev(b, i)) = U[Prev(b, i)]
    <3>1. StarsBefore(b, i) # {} => Prev(b, i) \in Stars(b)
      BY <2>1, PrevFacts
    <3>2. StarsBefore(b, i) # {} => Prev(b, i) # Len(b) + 1
      BY <3>1, <1>1
    <3> QED
      BY <3>2 DEF EndAt
  <2>4. U[i] \in 0..Len(s)
    BY <1>1, <1>4, <1>7, <1>8
  <2> HIDE DEF U
  <2> QED
    BY <1>5, <1>7, <1>8, <2>2, <2>3, <2>4
<1>9. CASE i = Len(b) + 1
  <2>1. EndAt(b, s, i) = Len(s) /\ StartAt(b, s, i) = Len(s) - PartLen(b, e) /\ i = e
    BY <1>9 DEF EndAt, StartAt
  <2>2. EndAt(b, s, Prev(b, i)) = U[last]
    <3>1. last # Len(b) + 1
      BY <1>1, <1>3
    <3> QED
      BY <2>1, <3>1, <1>3 DEF EndAt
  <2>3. U[last] \in 0..(Len(s) + 1) /\ StarsBefore(b, i) # {}
    BY <1>2, <1>3, <1>4, <2>1
  <2>4. Len(s) - PartLen(b, e) \in 0..Len(s)
    <3> HIDE DEF U, e, last
    <3> QED
      BY <1>1, <1>6, <2>3
  <2> HIDE DEF U, e, last
  <2> QED
    BY <1>1, <1>3, <1>6, <2>1, <2>2, <2>3, <2>4
<1> QED
  BY <1>8, <1>9

-----------------------------------------------------------------------------
\* The star behind a place of a pattern, or its end.
NextStar(b, n) == Min({k \in Stars(b) \union {Len(b) + 1} : k > n})

\* Between a place and the star behind it there is no other.
LEMMA NextStarFacts ==
    ASSUME NEW S, NEW b \in Seq(S), NEW n \in 0..Len(b)
    PROVE  /\ Len(b) \in Nat
           /\ NextStar(b, n) \in Stars(b) \union {Len(b) + 1} /\ NextStar(b, n) \in 1..(Len(b) + 1)
           /\ NextStar(b, n) > n
           /\ \A k \in Stars(b) : k > n => NextStar(b, n) <= k
           /\ Prev(b, NextStar(b, n)) \in 0..n /\ (n \in Stars(b) => Prev(b, NextStar(b, n)) = n)
<1> DEFINE T == {k \in Stars(b) \union {Len(b) + 1} : k > n}
<1>1. Len(b) \in Nat /\ Stars(b) \subseteq 1..Len(b)
  BY LenProperties, StarFacts
<1>2. T \subseteq Nat /\ Len(b) + 1 \in T
  BY <1>1
<1> HIDE DEF T
<1>3. Min(T) \in T /\ \A k \in T : Min(T) <= k
  BY <1>2, MinOf
<1> DEFINE i == NextStar(b, n)
<1>4. i = Min(T)
  BY DEF NextStar, T
<1> HIDE DEF i
<1>5. /\ i \in Stars(b) \union {Len(b) + 1} /\ i > n
      /\ \A k \in Stars(b) : k > n => i <= k
  BY <1>3, <1>4 DEF T
<1>6. i \in 1..(Len(b) + 1)
  BY <1>1, <1>5
<1>7. /\ Prev(b, i) \in 0..(i - 1) /\ (Prev(b, i) # 0 => Prev(b, i) \in Stars(b))
      /\ \A j \in Stars(b) : j < i => j <= Prev(b, i)
  BY <1>6, PrevFacts
<1>8. Prev(b, i) <= n
  BY <1>1, <1>5, <1>6, <1>7
<1>9. n \in Stars(b) => Prev(b, i) = n
  BY <1>1, <1>5, <1>6, <1>7, <1>8
<1>10. Prev(b, i) \in 0..n
  BY <1>6, <1>7, <1>8
<1> QED
  BY <1>1, <1>5, <1>6, <1>9, <1>10 DEF i

\* What is found fits: each character ends as far before its part's end as it
\* stands before the star.
LEMMA GlobFits ==
    ASSUME NEW S, NEW b \in Seq(S), NEW s \in Seq(S), Stars(b) # {}, GlobMatch(b, s)
    PROVE  StandsFor(b, s)
<1> DEFINE at(n) == EndAt(b, s, NextStar(b, n)) - (NextStar(b, n) - 1 - n)
           g == [n \in 0..Len(b) |-> at(n)]
<1>1. Len(b) \in Nat /\ Len(s) \in Nat /\ Stars(b) \subseteq 1..Len(b) /\ DOMAIN b = 1..Len(b)
  BY LenProperties, StarFacts
<1>2. ASSUME NEW n \in 0..Len(b)
      PROVE  /\ at(n) \in 0..Len(s)
             /\ at(n) = StartAt(b, s, NextStar(b, n)) + (n - Prev(b, NextStar(b, n)))
  <2> DEFINE i == NextStar(b, n)
  <2>1. i \in Stars(b) \union {Len(b) + 1} /\ i \in 1..(Len(b) + 1) /\ i > n /\ Prev(b, i) \in 0..n
    BY NextStarFacts
  <2> HIDE DEF i
  <2>2. EndAt(b, s, i) \in 0..Len(s) /\ StartAt(b, s, i) \in 0..Len(s)
    BY <2>1, PartsStand
  <2>3. StartAt(b, s, i) = EndAt(b, s, i) - (i - 1 - Prev(b, i))
    BY DEF StartAt, PartLen
  <2>4. EndAt(b, s, i) - (i - 1 - n) = StartAt(b, s, i) + (n - Prev(b, i))
    BY <1>1, <2>1, <2>2, <2>3
  <2>5. EndAt(b, s, i) - (i - 1 - n) \in 0..Len(s)
    BY <1>1, <2>1, <2>2, <2>3
  <2> QED
    BY <2>4, <2>5 DEF i
<1>3. g \in [0..Len(b) -> 0..Len(s)] /\ \A n \in 0..Len(b) : g[n] = at(n)
  BY <1>2
<1>4. at(0) = 0
  <2> DEFINE i == NextStar(b, 0)
  <2>1. i \in Stars(b) \union {Len(b) + 1} /\ i \in 1..(Len(b) + 1) /\ Prev(b, i) = 0
    <3>1. NextStar(b, 0) \in Stars(b) \union {Len(b) + 1} /\ NextStar(b, 0) \in 1..(Len(b) + 1) /\ Prev(b, NextStar(b, 0)) \in 0..0
      BY <1>1, NextStarFacts
    <3> QED
      BY <3>1
  <2> HIDE DEF i
  <2>2. StarsBefore(b, i) = {}
    BY <2>1, PrevFacts
  <2>3. StartAt(b, s, i) = 0
    BY <2>1, <2>2, PartsStand
  <2>4. at(0) = StartAt(b, s, i) + (0 - Prev(b, i))
    BY <1>1, <1>2 DEF i
  <2> QED
    BY <2>1, <2>3, <2>4
<1>5. at(Len(b)) = Len(s)
  <2>1. NextStar(b, Len(b)) = Len(b) + 1
    <3>1. NextStar(b, Len(b)) \in 1..(Len(b) + 1) /\ NextStar(b, Len(b)) > Len(b)
      BY <1>1, NextStarFacts
    <3> QED
      BY <1>1, <3>1
  <2>2. EndAt(b, s, Len(b) + 1) = Len(s)
    BY DEF EndAt
  <2> QED
    BY <1>1, <2>1, <2>2
<1>6. ASSUME NEW n \in 1..Len(b), b[n] = "*" PROVE at(n) >= at(n - 1)
  <2> DEFINE i == NextStar(b, n)
  <2>1. n \in Stars(b) /\ n \in 0..Len(b) /\ n - 1 \in 0..Len(b) /\ n \in Nat
    BY <1>1, <1>6 DEF Stars
  <2>2. i \in Stars(b) \union {Len(b) + 1} /\ i \in 1..(Len(b) + 1) /\ Prev(b, i) = n
    BY <2>1, NextStarFacts
  <2>3. NextStar(b, n - 1) = n
    <3>1. NextStar(b, n - 1) \in 1..(Len(b) + 1) /\ NextStar(b, n - 1) > n - 1 /\ NextStar(b, n - 1) <= n
      <4>1. n > n - 1
        BY <2>1
      <4> QED
        BY <2>1, <4>1, NextStarFacts
    <3> QED
      BY <2>1, <3>1
  <2>4. at(n - 1) = EndAt(b, s, n)
    <3>1. EndAt(b, s, n) \in 0..Len(s)
      BY <2>1, PartsStand
    <3>2. at(n - 1) = EndAt(b, s, n) - (n - 1 - (n - 1))
      BY <2>3, Zenon
    <3> QED
      BY <2>1, <3>1, <3>2
  <2> HIDE DEF i
  <2>5. StarsBefore(b, i) # {} /\ StartAt(b, s, i) \in 0..Len(s)
    <3>1. Prev(b, i) # 0
      BY <1>1, <2>2
    <3>2. Prev(b, i) = 0 <=> StarsBefore(b, i) = {}
      BY <2>2, PrevFacts
    <3> QED
      BY <2>2, <3>1, <3>2, PartsStand
  <2>6. StartAt(b, s, i) >= EndAt(b, s, n)
    BY <2>2, <2>5, PartsStand
  <2>7. at(n) = StartAt(b, s, i) + (n - Prev(b, i))
    BY <1>2, <2>1 DEF i
  <2> QED
    BY <2>1, <2>2, <2>4, <2>5, <2>6, <2>7
<1>7. ASSUME NEW n \in 1..Len(b), b[n] # "*" PROVE at(n) = at(n - 1) + 1 /\ b[n] = s[at(n)]
  <2> DEFINE i == NextStar(b, n)
  <2>1. n \notin Stars(b) /\ n \in 0..Len(b) /\ n - 1 \in 0..Len(b) /\ n \in Nat
    BY <1>1, <1>7 DEF Stars
  <2>2. i \in Stars(b) \union {Len(b) + 1} /\ i \in 1..(Len(b) + 1) /\ i > n
        /\ Prev(b, i) \in 0..n /\ \A k \in Stars(b) : k > n => i <= k
    BY <2>1, NextStarFacts
  <2>3. NextStar(b, n - 1) = i
    <3> DEFINE h == NextStar(b, n - 1)
    <3>1. /\ h \in Stars(b) \union {Len(b) + 1} /\ h \in 1..(Len(b) + 1) /\ h > n - 1
          /\ \A k \in Stars(b) : k > n - 1 => h <= k
      BY <2>1, NextStarFacts
    <3> HIDE DEF h, i
    <3>2. h > n
      BY <1>1, <2>1, <3>1
    <3>3. i <= h
      BY <1>1, <2>2, <3>1, <3>2
    <3>4. h <= i
      BY <1>1, <2>1, <2>2, <3>1
    <3> QED
      BY <1>1, <2>2, <3>1, <3>3, <3>4 DEF h
  <2>4. EndAt(b, s, i) \in 0..Len(s) /\ StartAt(b, s, i) \in 0..Len(s)
        /\ \A m \in 1..PartLen(b, i) : s[StartAt(b, s, i) + m] = b[Prev(b, i) + m]
    BY <2>2, PartsStand
  <2>5. at(n - 1) = EndAt(b, s, i) - (i - 1 - (n - 1)) /\ at(n) = EndAt(b, s, i) - (i - 1 - n)
    BY <2>3, Zenon
  <2>6. at(n) = StartAt(b, s, i) + (n - Prev(b, i))
    BY <1>2, <2>1
  <2>7. Prev(b, i) # n
    <3>1. Prev(b, i) # 0 => Prev(b, i) \in Stars(b)
      BY <2>2, PrevFacts
    <3> QED
      BY <2>1, <3>1
  <2> DEFINE m == n - Prev(b, i)
  <2>8. m \in 1..PartLen(b, i) /\ Prev(b, i) + m = n
    <3> HIDE DEF i
    <3>1. PartLen(b, i) = i - 1 - Prev(b, i)
      BY DEF PartLen
    <3> QED
      BY <1>1, <2>1, <2>2, <2>7, <3>1
  <2> HIDE DEF m
  <2>9. s[StartAt(b, s, i) + m] = b[n]
    <3> HIDE DEF i
    <3> QED
      BY <2>4, <2>8
  <2>10. at(n) = StartAt(b, s, i) + m
    BY <2>6 DEF m
  <2>11. at(n) = at(n - 1) + 1
    <3> HIDE DEF i
    <3> QED
      BY <1>1, <2>1, <2>2, <2>4, <2>5
  <2> QED
    BY <2>9, <2>10, <2>11, Zenon
<1> HIDE DEF at
<1>8. \A n \in 1..Len(b) : n \in 0..Len(b) /\ n - 1 \in 0..Len(b)
  BY <1>1
<1>9. g[0] = 0 /\ g[Len(b)] = Len(s)
  BY <1>1, <1>3, <1>4, <1>5
<1>10. \A n \in 1..Len(b) : g[n] = at(n) /\ g[n - 1] = at(n - 1)
  BY <1>3, <1>8
<1> HIDE DEF g
<1>11. ASSUME NEW n \in 1..Len(b)
       PROVE  IF b[n] = "*" THEN g[n] >= g[n - 1] ELSE g[n] = g[n - 1] + 1 /\ b[n] = s[g[n]]
  BY <1>6, <1>7, <1>10, Zenon
<1> QED
  BY <1>3, <1>9, <1>11 DEF StandsFor

\* A pattern with stars matches exactly the texts its stars can make of it.
LEMMA GlobIsStandsFor ==
    ASSUME NEW S, NEW b \in Seq(S), NEW s \in Seq(S), Stars(b) # {}
    PROVE  GlobMatch(b, s) <=> StandsFor(b, s)
BY GlobFinds, GlobFits

-----------------------------------------------------------------------------
\* A text in small letters has as many characters.
LEMMA LowerFacts ==
    ASSUME NEW t \in Seq(STRING)
    PROVE  Lower(t) \in Seq(STRING) /\ Len(Lower(t)) = Len(t) /\ Len(t) \in Nat
<1>1. Len(t) \in Nat /\ DOMAIN t = 1..Len(t) /\ \A i \in 1..Len(t) : t[i] \in STRING
  BY LenProperties, ElementOfSeq
<1>2. ASSUME NEW c \in STRING PROVE (IF c \in DOMAIN LowerCase THEN LowerCase[c] ELSE c) \in STRING
  BY AntispamAssumption
<1> DEFINE small(c) == IF c \in DOMAIN LowerCase THEN LowerCase[c] ELSE c
<1>3. Lower(t) = [i \in 1..Len(t) |-> small(t[i])]
  BY <1>1 DEF Lower
<1>4. \A i \in 1..Len(t) : small(t[i]) \in STRING
  BY <1>1, <1>2
<1> HIDE DEF small
<1>5. Lower(t) \in [1..Len(t) -> STRING]
  BY <1>3, <1>4
<1>6. Lower(t) \in Seq(STRING) /\ DOMAIN Lower(t) = 1..Len(t)
  BY <1>1, <1>5, SeqDef
<1> QED
  BY <1>1, <1>6, LenProperties

\* What is trimmed is blank, and stands around what is left.
LEMMA TrimFacts ==
    ASSUME NEW S, NEW t \in Seq(S)
    PROVE  /\ TrimSpace(t) \in Seq(S)
           /\ \E off \in Nat :
                 /\ Len(TrimSpace(t)) \in Nat /\ off + Len(TrimSpace(t)) <= Len(t)
                 /\ \A n \in 1..Len(TrimSpace(t)) : TrimSpace(t)[n] = t[off + n]
                 /\ \A i \in 1..Len(t) : t[i] # " " => i > off /\ i <= off + Len(TrimSpace(t))
                 /\ Len(TrimSpace(t)) # 0 => t[off + 1] # " "
<1> DEFINE ink == {i \in DOMAIN t : t[i] # " "}
           from == CHOOSE i \in ink : \A j \in ink : i <= j
           to == CHOOSE i \in ink : \A j \in ink : i >= j
<1>1. Len(t) \in Nat /\ DOMAIN t = 1..Len(t) /\ \A i \in 1..Len(t) : t[i] \in S
  BY LenProperties, ElementOfSeq
<1>2. TrimSpace(t) = IF ink = {} THEN <<>> ELSE SubSeq(t, from, to)
  BY DEF TrimSpace
<1>3. ink \subseteq 1..Len(t)
  BY <1>1
<1>6. \A i \in 1..Len(t) : t[i] # " " => i \in ink
  BY <1>1
<1>4. CASE ink = {}
  <2>1. TrimSpace(t) = <<>>
    BY <1>2, <1>4
  <2>2. TrimSpace(t) \in Seq(S) /\ Len(TrimSpace(t)) = 0
    BY <2>1, EmptySeq
  <2>3. \A i \in 1..Len(t) : ~(t[i] # " ")
    BY <1>4, <1>6, Zenon
  <2> DEFINE u == TrimSpace(t)
  <2> HIDE DEF ink, u
  <2>4. u \in Seq(S) /\ Len(u) = 0
    BY <2>2 DEF u
  <2>5. /\ Len(u) \in Nat /\ 0 + Len(u) <= Len(t)
        /\ \A n \in 1..Len(u) : u[n] = t[0 + n]
    BY <1>1, <2>4
  <2>6. /\ \A i \in 1..Len(t) : t[i] # " " => i > 0 /\ i <= 0 + Len(u)
        /\ Len(u) # 0 => t[0 + 1] # " "
    BY <2>3, <2>4, Zenon
  <2>7. 0 \in Nat
    OBVIOUS
  <2> QED
    BY <2>4, <2>5, <2>6, <2>7, Zenon DEF u
<1>5. CASE ink # {}
  <2> HIDE DEF ink
  <2>1. from \in ink /\ \A j \in ink : from <= j
    <3>1. ink \in SUBSET Nat
      BY <1>1, <1>3
    <3>2. \E i \in ink : \A j \in ink : i <= j
      BY <3>1, <1>5, Least
    <3> QED
      BY <3>2
  <2>2. to \in ink /\ \A j \in ink : to >= j
    <3>1. ink \in SUBSET (0..Len(t))
      BY <1>1, <1>3
    <3>2. Max(ink) \in ink /\ \A j \in ink : Max(ink) >= j
      BY <3>1, <1>1, <1>5, MaxOf
    <3> QED
      BY <3>2
  <2> HIDE DEF from, to
  <2>3. from \in 1..Len(t) /\ to \in 1..Len(t) /\ from <= to
    BY <2>1, <2>2, <1>3
  <2>4. TrimSpace(t) = SubSeq(t, from, to)
    BY <1>2, <1>5
  <2>5. \A i \in from..to : t[i] \in S
    BY <1>1, <2>3
  <2>6. /\ SubSeq(t, from, to) \in Seq(S)
        /\ Len(SubSeq(t, from, to)) = IF from <= to THEN to - from + 1 ELSE 0
        /\ \A i \in 1..(to - from + 1) : SubSeq(t, from, to)[i] = t[from + i - 1]
    BY <2>3, <2>5, SubSeqProperties
  <2> DEFINE u == TrimSpace(t)  off == from - 1
  <2>7. u \in Seq(S) /\ Len(u) = to - from + 1 /\ \A i \in 1..Len(u) : u[i] = t[from + i - 1]
    BY <2>3, <2>4, <2>6
  <2> HIDE DEF u
  <2>8. off \in Nat /\ Len(u) \in Nat /\ off + Len(u) <= Len(t) /\ off + Len(u) = to
    BY <1>1, <2>3, <2>7
  <2>9. \A n \in 1..Len(u) : u[n] = t[off + n]
    <3>1. \A n \in 1..Len(u) : from + n - 1 = off + n
      BY <2>3, <2>8
    <3> QED
      BY <2>7, <3>1
  <2>10. \A i \in 1..Len(t) : t[i] # " " => i > off /\ i <= off + Len(u)
    <3>1. ASSUME NEW i \in ink PROVE i > off /\ i <= off + Len(u)
      <4>1. from <= i /\ to >= i /\ i \in 1..Len(t)
        BY <1>3, <2>1, <2>2
      <4> QED
        BY <4>1, <2>3, <2>8
    <3> QED
      BY <3>1, <1>6, Zenon
  <2>11. t[off + 1] # " "
    <3>1. off + 1 = from
      BY <2>3
    <3>2. t[from] # " "
      BY <2>1, Zenon DEF ink
    <3> QED
      BY <3>1, <3>2, Zenon
  <2> HIDE DEF off
  <2> QED
    BY <2>7, <2>8, <2>9, <2>10, <2>11 DEF u
<1> QED
  BY <1>4, <1>5

-----------------------------------------------------------------------------
(* The word list, the address list, the links. *)

\* A word of the list is found exactly in the texts that say it.
LEMMA WordsFound == \A t \in Texts : MatchWord(SpamWords, t) <=> SaysSpam(t)
<1> SUFFICES ASSUME NEW t \in Texts PROVE MatchWord(SpamWords, t) <=> SaysSpam(t)
  OBVIOUS
<1>1. t \in Seq(STRING) /\ \A w \in SpamWords : w \in Seq(STRING)
  BY AntispamAssumption
<1>2. ASSUME NEW w \in SpamWords
      PROVE  Places(Lower(TrimSpace(w)), Lower(t)) # {} <=>
                \E i \in 0..(Len(t) - Len(TrimSpace(w))) :
                   \A j \in 1..Len(TrimSpace(w)) : Lower(t)[i + j] = Lower(TrimSpace(w))[j]
  <2> DEFINE v == TrimSpace(w)  p == Lower(TrimSpace(w))  s == Lower(t)
  <2>1. v \in Seq(STRING)
    BY <1>1, TrimFacts
  <2> HIDE DEF v
  <2>2. /\ p \in Seq(STRING) /\ s \in Seq(STRING)
        /\ Len(p) = Len(v) /\ Len(s) = Len(t) /\ Len(v) \in Nat /\ Len(t) \in Nat
    BY <1>1, <2>1, LowerFacts DEF v
  <2>3. Places(p, s) = {k \in 1..(Len(s) - Len(p) + 1) : SubSeq(s, k, k + Len(p) - 1) = p}
    BY DEF Places
  <2> HIDE DEF p, s
  <2>4. \A k \in 1..(Len(s) - Len(p) + 1) :
            SubSeq(s, k, k + Len(p) - 1) = p <=> \A n \in 1..Len(p) : s[k + n - 1] = p[n]
    BY <2>2, PieceIs
  <2>5. ASSUME NEW k \in Places(p, s)
        PROVE  \E i \in 0..(Len(t) - Len(v)) : \A j \in 1..Len(v) : s[i + j] = p[j]
    <3>1. k \in 1..(Len(s) - Len(p) + 1) /\ \A n \in 1..Len(p) : s[k + n - 1] = p[n]
      BY <2>3, <2>4
    <3>2. k - 1 \in 0..(Len(t) - Len(v)) /\ \A n \in 1..Len(p) : k + n - 1 = k - 1 + n
      BY <2>2, <3>1
    <3>3. \A j \in 1..Len(v) : s[k - 1 + j] = p[j]
      BY <2>2, <3>1, <3>2
    <3> QED
      BY <3>2, <3>3
  <2>6. ASSUME NEW i \in 0..(Len(t) - Len(v)), \A j \in 1..Len(v) : s[i + j] = p[j]
        PROVE  Places(p, s) # {}
    <3> DEFINE k == i + 1
    <3>1. k \in 1..(Len(s) - Len(p) + 1) /\ \A n \in 1..Len(p) : k + n - 1 = i + n
      BY <2>2
    <3> HIDE DEF k
    <3>2. \A n \in 1..Len(p) : s[k + n - 1] = p[n]
      BY <2>2, <2>6, <3>1
    <3>3. k \in Places(p, s)
      BY <2>3, <2>4, <3>1, <3>2
    <3> QED
      BY <3>3
  <2> QED
    BY <2>5, <2>6 DEF p, s, v
<1> QED
  BY <1>2, Zenon DEF MatchWord, SaysSpam

\* The address list takes exactly the addresses it stands for.
LEMMA AddressesFound == \A ip \in Ips : MatchIP(IpBlocks, ip) <=> ip \in Listed
<1> SUFFICES ASSUME NEW ip \in Ips PROVE MatchIP(IpBlocks, ip) <=> ip \in Listed
  OBVIOUS
<1>1. ip \in Seq(STRING) /\ \A b \in IpBlocks : b \in Seq(STRING)
  BY AntispamAssumption
<1>2. TrimSpace(ip) \in Seq(STRING) /\ \A b \in IpBlocks : TrimSpace(b) \in Seq(STRING)
  BY <1>1, TrimFacts
<1>3. \A b \in IpBlocks : Stars(TrimSpace(b)) # {} =>
          (GlobMatch(TrimSpace(b), TrimSpace(ip)) <=> StandsFor(TrimSpace(b), TrimSpace(ip)))
  BY <1>2, GlobIsStandsFor
<1>4. ip \in Listed <=> \E b \in IpBlocks : BlocksAddress(TrimSpace(b), TrimSpace(ip))
  BY DEF Listed
<1>5. ASSUME NEW b \in IpBlocks
      PROVE  BlocksAddress(TrimSpace(b), TrimSpace(ip)) <=>
                /\ TrimSpace(ip) # <<>> /\ TrimSpace(b) # <<>>
                /\ IF Stars(TrimSpace(b)) # {} THEN GlobMatch(TrimSpace(b), TrimSpace(ip))
                   ELSE Lower(TrimSpace(b)) = Lower(TrimSpace(ip))
  BY <1>3, Zenon DEF BlocksAddress
<1>6. MatchIP(IpBlocks, ip) <=>
          /\ TrimSpace(ip) # <<>>
          /\ \E b \in IpBlocks :
                /\ TrimSpace(b) # <<>>
                /\ IF Stars(TrimSpace(b)) # {} THEN GlobMatch(TrimSpace(b), TrimSpace(ip))
                   ELSE Lower(TrimSpace(b)) = Lower(TrimSpace(ip))
  BY Zenon DEF MatchIP
<1> QED
  BY <1>4, <1>5, <1>6, Zenon

\* Links are counted in any case.
LEMMA LinksCounted == \A t \in Texts : CountURLs(t) = Links(t)
<1> SUFFICES ASSUME NEW t \in Texts PROVE CountURLs(t) = Links(t)
  OBVIOUS
<1>1. ASSUME NEW i \in DOMAIN t
      PROVE  Lower(t)[i] \in Schemes <=>
                t[i] \in Schemes \/ (t[i] \in DOMAIN LowerCase /\ LowerCase[t[i]] \in Schemes)
  <2>1. Lower(t)[i] = IF t[i] \in DOMAIN LowerCase THEN LowerCase[t[i]] ELSE t[i]
    BY Zenon DEF Lower
  <2>2. ~(t[i] \in Schemes /\ t[i] \in DOMAIN LowerCase)
    BY AntispamAssumption
  <2> QED
    BY <2>1, <2>2, Zenon
<1>2. {i \in DOMAIN t : Lower(t)[i] \in Schemes} =
      {i \in DOMAIN t : t[i] \in Schemes \/ (t[i] \in DOMAIN LowerCase /\ LowerCase[t[i]] \in Schemes)}
  BY <1>1, Zenon
<1> QED
  BY <1>2, Zenon DEF CountURLs, Links

-----------------------------------------------------------------------------
(* What is kept of an answer, in its order. *)

\* What of an answer is kept: digits, and a minus before all else.
Kept(t) == {i \in DOMAIN t : t[i] \in Digits \/ (i = 1 /\ t[i] = "-")}

\* Neither a blank nor a minus is a digit.
LEMMA NoDigits == " " \notin Digits /\ "-" \notin Digits /\ " " # "-"
BY DEF Digits

\* The answer is read as the digits of the question exactly if it reads so.
LEMMA AnswerIsRead ==
    ASSUME NEW S, NEW answer \in Seq(S), NEW sum \in Seq(Digits)
    PROVE  NormalizeAnswer(answer) = sum <=> Reads(answer, sum)
<1> DEFINE t == TrimSpace(answer)  N == Len(t)  K == Kept(t)  c == Cardinality(K)  m == Len(sum)
<1>1. t \in Seq(S) /\ N \in Nat /\ DOMAIN t = 1..N
  BY TrimFacts, LenProperties
<1>2. DOMAIN answer = 1..Len(answer) /\ Len(answer) \in Nat
  BY LenProperties
<1>3. DOMAIN sum = 1..m /\ m \in Nat /\ \A n \in 1..m : sum[n] \in Digits
  BY LenProperties, ElementOfSeq
<1>4. PICK off \in Nat :
          /\ off + N <= Len(answer)
          /\ \A n \in 1..N : t[n] = answer[off + n]
          /\ \A i \in 1..Len(answer) : answer[i] # " " => i > off /\ i <= off + N
          /\ N # 0 => answer[off + 1] # " "
  BY TrimFacts
<1> HIDE DEF t, N
<1>5. K \in SUBSET (1..N)
  BY <1>1 DEF Kept
<1>6. \A n \in 1..N : n \in K <=> t[n] \in Digits \/ (n = 1 /\ t[n] = "-")
  BY <1>1, Zenon DEF Kept
<1>7. NormalizeAnswer(answer) = [n \in 1..c |-> t[Nth(K, n)]]
  BY Zenon DEF NormalizeAnswer, Kept, Nth, Rank, t
<1>8. /\ c \in Nat
      /\ \A i \in K : Rank(K, i) \in 1..c
      /\ \A i, j \in K : i < j => Rank(K, i) < Rank(K, j)
      /\ \A n \in 1..c : Nth(K, n) \in K /\ Rank(K, Nth(K, n)) = n
  BY <1>1, <1>5, Ranks
<1> HIDE DEF K, c, m
<1>9. \A n \in 1..N : off + n \in 1..Len(answer)
  <2>1. off + N <= Len(answer)
    BY <1>4, Zenon
  <2> QED
    BY <1>1, <1>2, <2>1
<1>10. \A i \in K : Nth(K, Rank(K, i)) = i
  <2> SUFFICES ASSUME NEW i \in K PROVE Nth(K, Rank(K, i)) = i
    OBVIOUS
  <2> DEFINE j == Nth(K, Rank(K, i))
  <2>1. j \in K /\ Rank(K, j) = Rank(K, i) /\ Rank(K, i) \in Nat
    BY <1>8
  <2> HIDE DEF j
  <2>2. ~(i < j) /\ ~(j < i)
    BY <2>1, <1>8
  <2>3. i \in Nat /\ j \in Nat
    BY <2>1, <1>5
  <2> QED
    BY <2>2, <2>3 DEF j
\* Where in the whole answer something stands that is not blank.
<1>11. ASSUME NEW i \in 1..Len(answer), answer[i] # " "
       PROVE  i - off \in 1..N /\ t[i - off] = answer[i]
  <2>1. i > off /\ i <= off + N
    BY <1>4, <1>11
  <2>2. i - off \in 1..N /\ off + (i - off) = i
    BY <2>1, <1>1, <1>2
  <2> QED
    BY <2>2, <1>4
<1>12. ASSUME NormalizeAnswer(answer) = sum PROVE Reads(answer, sum)
  <2>1. c = m
    <3>1. DOMAIN NormalizeAnswer(answer) = 1..c
      BY <1>7
    <3>2. 1..c = 1..m
      BY <1>3, <1>12, <3>1
    <3> QED
      BY <1>3, <1>8, <3>2
  <2>2. \A n \in 1..m : sum[n] = t[Nth(K, n)]
    BY <1>7, <1>12, <2>1
  <2>3. \A i \in K : t[i] \in Digits
    <3> SUFFICES ASSUME NEW i \in K PROVE t[i] \in Digits
      OBVIOUS
    <3>1. Rank(K, i) \in 1..m /\ Nth(K, Rank(K, i)) = i
      BY <1>8, <1>10, <2>1
    <3> QED
      BY <3>1, <2>2, <1>3, Zenon
  <2> DEFINE at == [n \in 1..m |-> off + Nth(K, n)]
  <2>4. \A n \in 1..m : Nth(K, n) \in K /\ Nth(K, n) \in 1..N
    BY <1>5, <1>8, <2>1
  <2>5. at \in [DOMAIN sum -> DOMAIN answer] /\ \A n \in 1..m : at[n] = off + Nth(K, n)
    BY <1>2, <1>3, <1>9, <2>4
  <2> HIDE DEF at
  <2>6. ASSUME NEW k \in 1..m, NEW n \in 1..m, k < n PROVE at[k] < at[n]
    <3> DEFINE a == Nth(K, k)  b == Nth(K, n)
    <3>1. a \in K /\ b \in K /\ Rank(K, a) = k /\ Rank(K, b) = n
      BY <1>8, <2>1
    <3>2. at[k] = off + a /\ at[n] = off + b
      BY <2>5
    <3> HIDE DEF a, b
    <3>3. a \in Nat /\ b \in Nat
      BY <3>1, <1>5
    <3>4. ~(b < a) /\ a # b
      BY <3>1, <1>8, <1>3, <2>6
    <3>5. a < b
      BY <3>3, <3>4
    <3> QED
      BY <3>2, <3>3, <3>5
  <2>7. ASSUME NEW n \in 1..m PROVE answer[at[n]] = sum[n]
    BY <2>2, <2>4, <2>5, <1>4
  <2>8. ASSUME NEW i \in 1..Len(answer), answer[i] \in Digits PROVE \E n \in 1..m : at[n] = i
    <3>1. answer[i] # " "
      BY <2>8, NoDigits, Zenon
    <3>2. i - off \in 1..N /\ t[i - off] = answer[i]
      BY <3>1, <1>11
    <3>3. i - off \in K
      BY <3>2, <2>8, <1>6, Zenon
    <3> DEFINE n == Rank(K, i - off)
    <3>4. n \in 1..m /\ Nth(K, n) = i - off
      BY <3>3, <1>8, <1>10, <2>1
    <3> HIDE DEF n
    <3>5. at[n] = off + (i - off)
      BY <3>4, <2>5
    <3>6. off + (i - off) = i
      BY <1>2
    <3> QED
      BY <3>4, <3>5, <3>6
  <2>9. ASSUME NEW i \in 1..Len(answer), answer[i] = "-" PROVE \E j \in 1..(i - 1) : answer[j] # " "
    <3>1. answer[i] # " "
      BY <2>9, NoDigits, Zenon
    <3>2. i - off \in 1..N /\ t[i - off] = answer[i]
      BY <3>1, <1>11
    <3>3. i - off # 1
      <4>1. i - off = 1 => i - off \in K
        BY <3>2, <2>9, <1>6, Zenon
      <4>2. i - off \notin K
        BY <3>2, <2>3, <2>9, NoDigits, Zenon
      <4> QED
        BY <4>1, <4>2
    <3>4. off + 1 \in 1..(i - 1) /\ N # 0
      BY <3>2, <3>3, <1>1, <1>2
    <3> QED
      BY <3>4, <1>4
  <2>10. /\ \A k, n \in DOMAIN sum : k < n => at[k] < at[n]
         /\ \A n \in DOMAIN sum : answer[at[n]] = sum[n]
         /\ \A i \in DOMAIN answer : answer[i] \in Digits => \E n \in DOMAIN sum : at[n] = i
    BY <2>6, <2>7, <2>8, <1>2, <1>3, Zenon
  <2>11. \A i \in DOMAIN answer : answer[i] = "-" => \E j \in 1..(i - 1) : answer[j] # " "
    BY <2>9, <1>2, Zenon
  <2> QED
    BY <2>5, <2>10, <2>11, Zenon DEF Reads
<1>13. ASSUME Reads(answer, sum) PROVE NormalizeAnswer(answer) = sum
  <2>1. PICK at \in [1..m -> 1..Len(answer)] :
            /\ \A k, n \in 1..m : k < n => at[k] < at[n]
            /\ \A n \in 1..m : answer[at[n]] = sum[n]
            /\ \A i \in 1..Len(answer) : answer[i] \in Digits => \E n \in 1..m : at[n] = i
    <3>1. PICK at \in [DOMAIN sum -> DOMAIN answer] :
              /\ \A k, n \in DOMAIN sum : k < n => at[k] < at[n]
              /\ \A n \in DOMAIN sum : answer[at[n]] = sum[n]
              /\ \A i \in DOMAIN answer : answer[i] \in Digits => \E n \in DOMAIN sum : at[n] = i
      BY <1>13, Zenon DEF Reads
    <3>2. DOMAIN sum = 1..m /\ DOMAIN answer = 1..Len(answer)
      BY <1>2, <1>3
    <3>3. at \in [1..m -> 1..Len(answer)]
      BY <3>2, Zenon
    <3>4. /\ \A k, n \in 1..m : k < n => at[k] < at[n]
          /\ \A n \in 1..m : answer[at[n]] = sum[n]
          /\ \A i \in 1..Len(answer) : answer[i] \in Digits => \E n \in 1..m : at[n] = i
      BY <3>1, <3>2, Zenon
    <3> QED
      BY <3>3, <3>4, Zenon
  <2>2. 1 \in 1..N => t[1] # "-"
    <3> SUFFICES ASSUME 1 \in 1..N, t[1] = "-" PROVE FALSE
      OBVIOUS
    <3>1. answer[off + 1] = "-" /\ off + 1 \in 1..Len(answer)
      BY <1>4, <1>9
    <3>2. \A i \in DOMAIN answer : answer[i] = "-" => \E j \in 1..(i - 1) : answer[j] # " "
      BY <1>13, Zenon DEF Reads
    <3>3. PICK j \in 1..((off + 1) - 1) : answer[j] # " "
      BY <3>1, <3>2, <1>2, Zenon
    <3>5. j \in 1..Len(answer) /\ j <= off
      <4>1. off + 1 \in 1..Len(answer)
        BY <3>1, Zenon
      <4> QED
        BY <4>1, <1>2
    <3>4. j > off
      BY <3>3, <3>5, <1>4
    <3> QED
      BY <3>4, <3>5, <1>2
  <2>3. \A i \in K : i \in 1..N /\ t[i] \in Digits
    BY <1>5, <1>6, <2>2
  <2> DEFINE b == [n \in 1..m |-> at[n] - off]
  <2>4. ASSUME NEW n \in 1..m PROVE at[n] \in 1..Len(answer) /\ at[n] - off \in K /\ t[at[n] - off] = sum[n]
    <3>1. at[n] \in 1..Len(answer) /\ answer[at[n]] = sum[n]
      BY <2>1
    <3>2. sum[n] \in Digits
      BY <1>3
    <3>3. answer[at[n]] # " "
      BY <3>1, <3>2, NoDigits, Zenon
    <3>4. at[n] - off \in 1..N /\ t[at[n] - off] = answer[at[n]]
      BY <3>1, <3>3, <1>11
    <3>5. at[n] - off \in K
      BY <3>1, <3>2, <3>4, <1>6, Zenon
    <3> QED
      BY <3>1, <3>4, <3>5, Zenon
  <2>5. b \in [1..m -> K] /\ \A n \in 1..m : b[n] = at[n] - off
    BY <2>4
  <2> HIDE DEF b
  <2>6. ASSUME NEW k \in 1..m, NEW n \in 1..m, k < n PROVE b[k] < b[n]
    <3>1. at[k] < at[n] /\ at[k] \in Nat /\ at[n] \in Nat
      BY <2>1, <2>6
    <3> QED
      BY <3>1, <2>5
  <2>7. ASSUME NEW i \in K PROVE \E n \in 1..m : b[n] = i
    <3>1. i \in 1..N /\ t[i] \in Digits
      BY <2>3
    <3>2. off + i \in 1..Len(answer) /\ answer[off + i] = t[i]
      BY <3>1, <1>4, <1>9
    <3>3. PICK n \in 1..m : at[n] = off + i
      BY <3>1, <3>2, <2>1, Zenon
    <3>4. b[n] = off + i - off /\ i \in Nat
      BY <3>1, <3>3, <2>5
    <3> QED
      BY <3>4
  <2>8. c = m /\ \A n \in 1..m : b[n] = Nth(K, n)
    <3>1. /\ \A k, n \in 1..m : k < n => b[k] < b[n]
          /\ \A i \in K : \E n \in 1..m : b[n] = i
      BY <2>6, <2>7
    <3>2. Cardinality(K) = m /\ \A n \in 1..m : b[n] = Nth(K, n)
      BY <1>1, <1>3, <1>5, <2>5, <3>1, OneCounting
    <3> QED
      BY <3>2 DEF c
  <2>9. \A n \in 1..m : t[Nth(K, n)] = sum[n]
    BY <2>4, <2>5, <2>8
  <2>10. NormalizeAnswer(answer) = [n \in 1..m |-> sum[n]]
    BY <1>7, <2>8, <2>9
  <2>11. sum = [n \in 1..m |-> sum[n]]
    BY <1>3, LenProperties DEF m
  <2> QED
    BY <2>10, <2>11
<1> QED
  BY <1>12, <1>13

\* What is nothing but blanks is no answer.
LEMMA BlankIsNoAnswer ==
    ASSUME NEW S, NEW answer \in Seq(S), NEW sum \in Seq(Digits), sum # <<>>, TrimSpace(answer) = <<>>
    PROVE  ~Reads(answer, sum)
<1>1. DOMAIN sum = 1..Len(sum) /\ Len(sum) \in Nat /\ Len(sum) # 0 /\ sum[1] \in Digits
  BY LenProperties, ElementOfSeq, EmptySeq
<1>2. DOMAIN answer = 1..Len(answer)
  BY LenProperties
<1>3. \A i \in 1..Len(answer) : answer[i] = " "
  <2>1. PICK off \in Nat : \A i \in 1..Len(answer) : answer[i] # " " => i > off /\ i <= off + Len(TrimSpace(answer))
    BY TrimFacts
  <2>2. Len(TrimSpace(answer)) = 0 /\ Len(answer) \in Nat
    BY LenProperties
  <2>3. \A i \in 1..Len(answer) : ~(i > off /\ i <= off + Len(TrimSpace(answer)))
    BY <2>2
  <2> QED
    BY <2>1, <2>3, Zenon
<1> SUFFICES ASSUME Reads(answer, sum) PROVE FALSE
  OBVIOUS
<1>4. PICK at \in [DOMAIN sum -> DOMAIN answer] : \A n \in DOMAIN sum : answer[at[n]] = sum[n]
  BY Zenon DEF Reads
<1>5. 1 \in DOMAIN sum
  BY <1>1
<1>6. at[1] \in DOMAIN answer /\ answer[at[1]] = sum[1]
  BY <1>4, <1>5
<1> QED
  BY <1>1, <1>2, <1>3, <1>6, NoDigits, Zenon

-----------------------------------------------------------------------------
(* The forms. *)

\* What a form carries was signed when it went out, with the secret of then: the
\* stamp, and, if it asks, what it asks for.
Signed(f) ==
    /\ f.kind \in Kinds /\ f.at \in Nat /\ f.at <= clock /\ f.asks \in BOOLEAN
    /\ f.asks => f.sum \in Sums
    /\ ~f.asks => f.sum = <<>>
    /\ \E k \in Secrets :
          /\ f.stamp = Sign(k, f.at)
          /\ f.token = IF f.asks THEN Token(k, f.at, f.sum) ELSE NoStamp

SpmInv ==
    /\ clock \in Nat /\ secret \in Secrets /\ setting \in Settings /\ login \in BOOLEAN
    /\ entry \in {"open", "closed", "hidden"}
    /\ form # NoForm => Signed(form)

\* It holds at the start.
LEMMA InitSpmInv == SpmInit => SpmInv
BY AntispamAssumption DEF SpmInit, SpmStart, SpmInv

\* A form that goes out is signed by the blog as it runs.
LEMMA FreshIsSigned ==
    ASSUME SpmInv, NEW kind \in Kinds, NEW f \in Fresh(kind)
    PROVE  Signed(f)
<1>1. PICK s \in IF ChallengeWanted THEN Sums ELSE {<<>>} :
          f = [kind |-> kind, at |-> clock, stamp |-> Sign(secret, clock),
               asks |-> ChallengeWanted, sum |-> s,
               token |-> IF ChallengeWanted THEN Token(secret, clock, s) ELSE NoStamp]
  BY DEF Fresh
<1>2. /\ f.kind = kind /\ f.at = clock /\ f.asks = ChallengeWanted /\ f.sum = s
      /\ f.stamp = Sign(secret, clock)
      /\ f.token = IF ChallengeWanted THEN Token(secret, clock, s) ELSE NoStamp
  BY <1>1
<1>3. clock \in Nat /\ clock <= clock /\ secret \in Secrets
  BY DEF SpmInv
<1>4. ChallengeWanted \in BOOLEAN
  BY DEF SpmInv, Settings, ChallengeWanted
<1>5. (ChallengeWanted => s \in Sums) /\ (~ChallengeWanted => s = <<>>)
  BY <1>1
<1>6. /\ f.stamp = Sign(secret, f.at)
      /\ f.token = IF f.asks THEN Token(secret, f.at, f.sum) ELSE NoStamp
  BY <1>2, Zenon
<1> QED
  BY <1>2, <1>3, <1>4, <1>5, <1>6, Zenon DEF Signed

\* A form that stays, while time goes on, stays signed.
LEMMA StaysSigned ==
    ASSUME SpmInv, form' = form, clock' \in Nat, clock <= clock'
    PROVE  form' # NoForm => Signed(form)'
<1> SUFFICES ASSUME form # NoForm PROVE Signed(form)'
  OBVIOUS
<1>1. Signed(form) /\ clock \in Nat
  BY DEF SpmInv
<1>2. form.at \in Nat /\ form.at <= clock
  BY <1>1 DEF Signed
<1>3. form'.at <= clock'
  BY <1>1, <1>2
<1> QED
  BY <1>1, <1>3 DEF Signed, Sign, Token, NoStamp

\* Every step keeps it.
LEMMA NextSpmInv == SpmInv /\ [SpmNext]_spmVars => SpmInv'
<1> SUFFICES ASSUME SpmInv, [SpmNext]_spmVars PROVE SpmInv'
  OBVIOUS
<1>1. /\ clock \in Nat /\ secret \in Secrets /\ setting \in Settings /\ login \in BOOLEAN
      /\ entry \in {"open", "closed", "hidden"}
  BY DEF SpmInv
<1>2. form # NoForm => form.kind \in Kinds
  BY DEF SpmInv, Signed
\* A fresh form, and nothing else new.
<1>3. ASSUME UNCHANGED <<clock, secret, setting, login, entry>>,
             form' = NoForm \/ \E kind \in Kinds : form' \in Fresh(kind)
      PROVE  SpmInv'
  <2>1. ASSUME form' # NoForm PROVE Signed(form)'
    <3>1. PICK kind \in Kinds : form' \in Fresh(kind)
      BY <1>3, <2>1
    <3>2. Signed(form')
      BY <3>1, FreshIsSigned
    <3> QED
      BY <3>2, <1>3 DEF Signed, Sign, Token, NoStamp
  <2> QED
    BY <2>1, <1>1, <1>3 DEF SpmInv
\* The same form, and time goes on.
<1>4. ASSUME form' = form, clock' \in Nat, clock <= clock',
             secret' \in Secrets, setting' \in Settings, login' \in BOOLEAN,
             entry' \in {"open", "closed", "hidden"}
      PROVE  SpmInv'
  BY <1>4, StaysSigned DEF SpmInv
<1>5. clock <= clock
  BY <1>1
<1>6. ASSUME NEW k \in Kinds, OpenForm(k) PROVE SpmInv'
  BY <1>3, <1>6 DEF OpenForm
<1>7. ASSUME NEW p \in Posted(form), Submit(p) PROVE SpmInv'
  <2>1. form # NoForm /\ (form' = NoForm \/ form' \in Fresh(form.kind))
        /\ UNCHANGED <<clock, secret, setting, login, entry>>
    BY <1>7 DEF Submit
  <2> QED
    BY <1>2, <1>3, <2>1
<1>8. ASSUME NEW p \in Posted(form), MailFails(p) PROVE SpmInv'
  <2>1. form # NoForm /\ form' \in Fresh(form.kind) /\ UNCHANGED <<clock, secret, setting, login, entry>>
    BY <1>8 DEF MailFails
  <2> QED
    BY <1>2, <1>3, <2>1
<1>9. CASE MeetClosed
  <2>1. form # NoForm /\ (form' = NoForm \/ form' \in Fresh(form.kind))
        /\ UNCHANGED <<clock, secret, setting, login, entry>>
    BY <1>9 DEF MeetClosed
  <2> QED
    BY <1>2, <1>3, <2>1
<1>10. CASE TimePasses
  <2>1. PICK d \in Steps : clock' = clock + d
    BY <1>10 DEF TimePasses
  <2>2. d \in Nat
    BY AntispamAssumption
  <2>3. clock' \in Nat /\ clock <= clock'
    BY <1>1, <2>1, <2>2
  <2>4. UNCHANGED <<secret, setting, login, entry, form>>
    BY <1>10 DEF TimePasses
  <2> QED
    BY <1>1, <1>4, <2>3, <2>4
<1>11. CASE SettingsChange
  BY <1>1, <1>4, <1>5, <1>11 DEF SettingsChange
<1>12. CASE EntryChanges
  BY <1>1, <1>4, <1>5, <1>12 DEF EntryChanges
<1>13. CASE LogsInOrOut
  BY <1>1, <1>4, <1>5, <1>13 DEF LogsInOrOut
<1>14. CASE RestartWithSecret
  BY <1>1, <1>4, <1>5, <1>14 DEF RestartWithSecret
<1>15. CASE UNCHANGED spmVars
  BY <1>1, <1>4, <1>5, <1>15 DEF spmVars
<1> QED
  BY <1>6, <1>7, <1>8, <1>9, <1>10, <1>11, <1>12, <1>13, <1>14, <1>15 DEF SpmNext

-----------------------------------------------------------------------------
(* The verdicts. *)

\* Without lists the points are the trap's and the links': the stamp's age alone
\* is never enough.
LEMMA PointsDecide ==
    ASSUME NEW trap \in BOOLEAN, NEW stamp, NEW t \in Texts, NEW ip
    PROVE  Verify(trap, stamp, t, {}, {}, ip) <=> trap \/ Links(t) > 6
<1>1. ~MatchWord({}, t) /\ ~MatchIP({}, ip)
  BY Zenon DEF MatchWord, MatchIP
<1>2. CountURLs(t) = Links(t)
  BY LinksCounted
<1> DEFINE late == CheckStamp(stamp) # ""
<1>3. late \in BOOLEAN
  OBVIOUS
<1>4. Verify(trap, stamp, t, {}, {}, ip) <=>
        \/ (IF trap THEN 3 ELSE 0) + (IF late THEN 2 ELSE 0)
             + (IF Links(t) > 6 THEN 3 ELSE 0) + (IF MatchWord({}, t) THEN 2 ELSE 0) >= 3
        \/ MatchWord({}, t) \/ MatchIP({}, ip)
  BY <1>2, Zenon DEF Verify, HoneypotPoints, TimingPoints, URLPoints, WordPoints, Limit, MaxURLs
<1> HIDE DEF late
<1>5. (IF trap THEN 3 ELSE 0) + (IF late THEN 2 ELSE 0)
             + (IF Links(t) > 6 THEN 3 ELSE 0) + 0 >= 3 <=> trap \/ Links(t) > 6
  OBVIOUS
<1> QED
  BY <1>1, <1>4, <1>5, Zenon

\* Tokens of one time are one only under one secret and for one answer.
LEMMA TokensDiffer ==
    ASSUME NEW a, NEW d, NEW at, NEW c, NEW e
    PROVE  Token(a, at, c) = Token(d, at, e) <=> a = d /\ c = e
<1>1. Token(a, at, c).mac = <<a, at, c>> /\ Token(d, at, e).mac = <<d, at, e>>
  BY DEF Token
<1>2. ASSUME Token(a, at, c) = Token(d, at, e) PROVE a = d /\ c = e
  <2>1. <<a, at, c>> = <<d, at, e>>
    BY <1>1, <1>2, Zenon
  <2> QED
    BY <2>1
<1>3. a = d /\ c = e => Token(a, at, c) = Token(d, at, e)
  BY Zenon
<1> QED
  BY <1>2, <1>3, Zenon

\* A token is good exactly if its form asked what the answer reads as, in time,
\* under the secret the blog still has.
LEMMA TokenDecides ==
    ASSUME SpmInv, form # NoForm, NEW answer \in Guesses \union {form.sum}
    PROVE  TrimSpace(answer) # <<>> /\ VerifyChallenge(form.token, answer) <=> RightAnswer(answer)
<1>1. Signed(form) /\ clock \in Nat
  BY DEF SpmInv
<1>2. PICK k \in Secrets :
          form.token = IF form.asks THEN Token(k, form.at, form.sum) ELSE NoStamp
  BY <1>1 DEF Signed
<1>3. CASE ~form.asks
  <2>1. form.token = NoStamp
    BY <1>2, <1>3
  <2>2. NoStamp # Token(secret, form.token.at, NormalizeAnswer(answer))
    <3>1. NoStamp.mac = <<"none">>
      BY DEF NoStamp
    <3>2. \A a, b : Token(secret, a, b).mac = <<secret, a, b>>
      BY DEF Token
    <3>3. \A a, b : <<"none">> # <<secret, a, b>>
      OBVIOUS
    <3> SUFFICES ASSUME NoStamp = Token(secret, form.token.at, NormalizeAnswer(answer)) PROVE FALSE
      OBVIOUS
    <3>4. NoStamp.mac = <<secret, form.token.at, NormalizeAnswer(answer)>>
      BY <3>2, Zenon
    <3> QED
      BY <3>1, <3>3, <3>4, Zenon
  <2> QED
    BY <1>3, <2>1, <2>2, Zenon DEF VerifyChallenge, RightAnswer
<1>4. CASE form.asks
  <2>1. form.sum \in Sums /\ form.at \in Nat /\ form.at <= clock
    BY <1>1, <1>4 DEF Signed
  <2>2. form.sum \in Seq(Digits) /\ form.sum # <<>>
    BY <2>1, AntispamAssumption
  <2>3. answer \in Seq(STRING) \/ answer \in Seq(Digits)
    <3>1. answer \in Guesses => answer \in Seq(STRING)
      BY AntispamAssumption
    <3> QED
      BY <2>2, <3>1
  <2>4. NormalizeAnswer(answer) = form.sum <=> Reads(answer, form.sum)
    BY <2>2, <2>3, AnswerIsRead
  <2>5. TrimSpace(answer) = <<>> => ~Reads(answer, form.sum)
    BY <2>2, <2>3, BlankIsNoAnswer
  <2>6. form.token = Token(k, form.at, form.sum)
    BY <1>2, <1>4
  <2>7. /\ Token(k, form.at, form.sum) = Token(secret, form.at, NormalizeAnswer(answer)) <=>
               k = secret /\ form.sum = NormalizeAnswer(answer)
        /\ Token(k, form.at, form.sum) = Token(secret, form.at, form.sum) <=> k = secret
    <3>1. \A b : Token(k, form.at, form.sum) = Token(secret, form.at, b) <=> k = secret /\ form.sum = b
      BY TokensDiffer
    <3> QED
      BY <3>1, Zenon
  <2>8. form.token.at = form.at
    BY <2>6 DEF Token
  <2>9. VerifyChallenge(form.token, answer) <=>
          clock - form.at \in 0..Ttl /\ k = secret /\ form.sum = NormalizeAnswer(answer)
    BY <2>6, <2>7, <2>8, Zenon DEF VerifyChallenge
  <2>10. RightAnswer(answer) <=> Reads(answer, form.sum) /\ k = secret /\ clock <= form.at + Ttl
    BY <1>4, <2>6, <2>7, Zenon DEF RightAnswer
  <2>11. clock - form.at \in 0..Ttl <=> clock <= form.at + Ttl
    <3>1. Ttl \in Nat
      BY AntispamAssumption
    <3> QED
      BY <1>1, <2>1, <3>1
  <2> QED
    BY <2>4, <2>5, <2>9, <2>10, <2>11, Zenon
<1> QED
  BY <1>3, <1>4

\* What is taken and what is refused.
LEMMA Verdicts == SpmInv => FormVerdicts
<1> SUFFICES ASSUME SpmInv, form # NoForm, NEW p \in Posted(form)
             PROVE  LET listed == \/ SaysSpam(p.text) /\ ~(login /\ form.kind # "comment")
                                  \/ p.ip \in Listed /\ form.kind = "comment"
                        caught == ~login /\ setting.usecfp /\ (p.trap \/ Links(p.text) > 6)
                        silent == ~login /\ setting.usecaptcha /\ ~RightAnswer(p.answer)
                    IN Errors(form.kind, p) = {} <=> p.whole /\ ~listed /\ ~caught /\ ~silent
  BY Zenon DEF FormVerdicts
<1>1. /\ p.trap \in BOOLEAN /\ p.whole \in BOOLEAN /\ p.token = form.token
      /\ p.text \in Texts /\ p.ip \in Ips /\ p.answer \in Guesses \union {form.sum}
  BY DEF Posted
<1>2. form.kind \in Kinds /\ login \in BOOLEAN /\ setting.usecfp \in BOOLEAN /\ setting.usecaptcha \in BOOLEAN
  BY DEF SpmInv, Signed, Settings
<1>3. /\ MatchWord(SpamWords, p.text) <=> SaysSpam(p.text)
      /\ MatchIP(IpBlocks, p.ip) <=> p.ip \in Listed
      /\ Verify(p.trap, p.stamp, p.text, {}, {}, p.ip) <=> p.trap \/ Links(p.text) > 6
  BY <1>1, WordsFound, AddressesFound, PointsDecide
<1>4. ChallengeErrors(p.token, p.answer) = {} <=> ~ChallengeWanted \/ RightAnswer(p.answer)
  <2>1. TrimSpace(p.answer) # <<>> /\ VerifyChallenge(p.token, p.answer) <=> RightAnswer(p.answer)
    BY <1>1, TokenDecides
  <2>2. {"challengeMissing"} # {} /\ {"challengeWrong"} # {}
    OBVIOUS
  <2> QED
    BY <2>1, <2>2, Zenon DEF ChallengeErrors
<1>5. ChallengeWanted <=> setting.usecaptcha /\ ~login
  BY DEF ChallengeWanted
<1>6. \A A, B : A \union B = {} <=> A = {} /\ B = {}
  OBVIOUS
<1>7. {"spamRefused"} # {} /\ {"correctIssues"} # {}
  OBVIOUS
<1>8. (IF p.whole THEN {} ELSE {"correctIssues"}) = {} <=> p.whole
  BY <1>7, Zenon
<1>9. CASE form.kind = "comment"
  <2>1. Errors(form.kind, p) = CommentErrors(p)
    BY <1>9 DEF Errors
  <2>2. CommentErrors(p) = {} <=>
            /\ ~(MatchWord(SpamWords, p.text) \/ MatchIP(IpBlocks, p.ip))
            /\ ~(setting.usecfp /\ ~login /\ Verify(p.trap, p.stamp, p.text, {}, {}, p.ip))
            /\ ChallengeErrors(p.token, p.answer) = {} /\ p.whole
    BY <1>6, <1>7, <1>8, Zenon DEF CommentErrors
  <2> QED
    BY <1>3, <1>4, <1>5, <1>9, <2>1, <2>2, Zenon
<1>10. CASE form.kind # "comment"
  <2>1. Errors(form.kind, p) = MailErrors(p)
    BY <1>10 DEF Errors
  <2>2. AntispamErrors(p) = {} <=>
            \/ login
            \/ /\ ~MatchWord(SpamWords, p.text)
               /\ ~(setting.usecfp /\ Verify(p.trap, p.stamp, p.text, {}, {}, p.ip))
               /\ ChallengeErrors(p.token, p.answer) = {}
    BY <1>7, Zenon DEF AntispamErrors
  <2>3. MailErrors(p) = {} <=> p.whole /\ AntispamErrors(p) = {}
    BY <1>6, <1>8, Zenon DEF MailErrors
  <2> QED
    BY <1>3, <1>4, <1>5, <1>10, <2>1, <2>2, <2>3, Zenon
<1> QED
  BY <1>9, <1>10

\* Every form that is open is judged as FormVerdicts says: the text against the
\* words, the address against the patterns, the answer against the question, at
\* every moment between the two requests (antispam.go, postComment,
\* antispamErrors).
THEOREM FormsAreJudged == SpmSpec => []FormVerdicts
<1>1. SpmInv => FormVerdicts
  BY Verdicts
<1> QED
  BY <1>1, InitSpmInv, NextSpmInv, PTL DEF SpmSpec

-----------------------------------------------------------------------------
(* The edges together. *)

\* Whichever edge the run looks at, the others start as they may and stand still.
LEMMA EdgesStart == EdgeInit => XmlInit /\ SpmInit /\ ReaInit
<1>1. XmlRest => XmlInit
  <2> SUFFICES ASSUME XmlRest PROVE XmlInit
    OBVIOUS
  <2>1. posts \in [Ids -> {NoPost} \union Written] /\ \A j \in Ids : posts[j] = NoPost
    BY DEF XmlRest
  <2>2. \E i \in Ids : TRUE
    BY XmlrpcAssumption
  <2> QED
    BY <2>1, <2>2 DEF XmlRest, XmlInit
<1>2. SpmRest => SpmInit
  <2>1. FALSE \in BOOLEAN /\ [usecfp |-> FALSE, usecaptcha |-> FALSE] \in Settings
    BY DEF Settings
  <2> QED
    BY <2>1 DEF SpmRest, SpmInit
<1>3. ReaRest => ReaInit
  BY ClockAssumption DEF ReaRest, ReaInit
<1> QED
  BY <1>1, <1>2, <1>3 DEF EdgeInit

\* A step of one is a step of its own.
LEMMA EdgesMove == [EdgeNext]_edgeVars => [XmlNext]_xmlVars /\ [SpmNext]_spmVars /\ [ReaNext]_reaVars
BY DEF EdgeNext, edgeVars, ClientsCall, VisitorsPost, ReadersRead

\* So the run is one of each edge by its own specification.
THEOREM EdgesRunTheirParts == EdgeSpec => XmlSpec /\ SpmSpec /\ ReaSpec
BY EdgesStart, EdgesMove, PTL DEF EdgeSpec, XmlSpec, SpmSpec, ReaSpec

\* All that the run of the edges keeps true, for all of its constants: what a
\* client fetches and returns, how a form is judged, what a link opens, what a
\* pager shows.
THEOREM EdgesAreSafe ==
    EdgeSpec => [](FetchAndReturn /\ FormVerdicts /\ LinksOpen /\ PagingMissesNothing)
BY EdgesRunTheirParts, FetchedReturns, FormsAreJudged, AddressesOpen, PagersMissNothing, PTL
===============================================================================
