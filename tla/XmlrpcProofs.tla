----------------------------- MODULE XmlrpcProofs -----------------------------
(***************************************************************************)
(* Theorems about the XML-RPC endpoint (Xmlrpc), for any posts, drafts,    *)
(* words, clocks, categories and users: what is decoded of what was        *)
(* encoded in a client's own spelling, what a save makes of it, and that a *)
(* post which is fetched and sent back is the post it was.                 *)
(*                                                                         *)
(* What comes before speaks of numbers, of the members of a set in their   *)
(* order, and of what is picked from a sequence.                           *)
(***************************************************************************)
EXTENDS Xmlrpc, FiniteSetTheorems, SequenceTheorems, WellFoundedInduction, TLAPS

-----------------------------------------------------------------------------
(* Numbers. *)

\* Less than, between naturals, is well founded.
LEMMA LessIsWF == IsWellFoundedOn({ss \in Nat \X Nat : ss[1] < ss[2]}, Nat)
BY NatLessThanWellFounded DEF OpToRel

\* A set of naturals has a least.
LEMMA Least ==
    ASSUME NEW S \in SUBSET Nat, S # {}
    PROVE  \E n \in S : \A m \in S : n <= m
<1> DEFINE R == {ss \in Nat \X Nat : ss[1] < ss[2]}
<1>1. IsWellFoundedOn(R, Nat)
  BY LessIsWF
<1>2. ASSUME NEW x \in Nat, NEW y \in Nat, y < x PROVE <<y, x>> \in R
  <2> DEFINE p == <<y, x>>
  <2>1. p \in Nat \X Nat /\ p[1] = y /\ p[2] = x
    OBVIOUS
  <2>2. p[1] < p[2]
    BY <2>1, <1>2
  <2> HIDE DEF p
  <2>3. p \in R
    BY <2>1, <2>2
  <2> QED
    BY <2>3 DEF p
<1> HIDE DEF R
<1>3. \E x \in S : \A y \in S : ~(<<y, x>> \in R)
  BY <1>1, WFMin
<1>4. PICK x \in S : \A y \in S : ~(<<y, x>> \in R)
  BY <1>3
<1>5. \A y \in S : ~(y < x)
  BY <1>2, <1>4
<1> QED
  BY <1>5

\* What holds of 0 and of the next of each is all of them.
LEMMA Induct ==
    ASSUME NEW S \in SUBSET Nat, 0 \in S, \A n \in S : n + 1 \in S
    PROVE  \A n \in Nat : n \in S
<1> SUFFICES ASSUME Nat \ S # {} PROVE FALSE
  OBVIOUS
<1>1. PICK n \in Nat \ S : \A m \in Nat \ S : n <= m
  BY Least
<1>2. n # 0 /\ n - 1 \in Nat /\ n - 1 \notin Nat \ S
  BY <1>1
<1> QED
  BY <1>2, <1>1

\* Min is the least of a set of naturals.
LEMMA MinOf ==
    ASSUME NEW S \in SUBSET Nat, S # {}
    PROVE  Min(S) \in S /\ \A m \in S : Min(S) <= m
BY Least DEF Min

\* Max is the greatest of a bounded one.
LEMMA MaxOf ==
    ASSUME NEW N \in Nat, NEW S \in SUBSET (0..N), S # {}
    PROVE  Max(S) \in S /\ \A m \in S : Max(S) >= m
<1> DEFINE T == {N - m : m \in S}
<1>1. T \in SUBSET Nat /\ T # {}
  <2>1. \A m \in S : N - m \in Nat
    OBVIOUS
  <2>2. T \in SUBSET Nat
    BY <2>1
  <2>3. PICK m \in S : TRUE
    OBVIOUS
  <2>4. N - m \in T
    BY <2>3
  <2> QED
    BY <2>2, <2>4
<1>2. PICK n \in T : \A m \in T : n <= m
  BY <1>1, Least
<1>3. PICK k \in S : n = N - k
  BY <1>2
<1>4. \A m \in S : k >= m
  BY <1>2, <1>3
<1> QED
  BY <1>4 DEF Max

-----------------------------------------------------------------------------
(* The members of a set of places, in their order. *)

Rank(K, i) == Cardinality({j \in K : j <= i})
Nth(K, n) == CHOOSE i \in K : Rank(K, i) = n

\* A set of naturals is counted up from its least: the ranks are 1 to its size.
LEMMA Ranks ==
    ASSUME NEW N \in Nat, NEW K \in SUBSET (1..N)
    PROVE  /\ IsFiniteSet(K) /\ Cardinality(K) \in Nat
           /\ \A i \in K : Rank(K, i) \in 1..Cardinality(K)
           /\ \A i, j \in K : i < j => Rank(K, i) < Rank(K, j)
           /\ \A n \in 1..Cardinality(K) : Nth(K, n) \in K /\ Rank(K, Nth(K, n)) = n
<1> DEFINE c == Cardinality(K)
<1>1. IsFiniteSet(K) /\ c \in Nat
  <2>1. IsFiniteSet(1..N)
    BY FS_Interval
  <2> QED
    BY <2>1, FS_Subset, FS_CardinalityType
<1>2. \A i \in K : i \in Nat
  OBVIOUS
<1>3. ASSUME NEW i \in K PROVE Rank(K, i) \in 1..c
  <2> DEFINE T == {j \in K : j <= i}
  <2>1. T \in SUBSET K /\ i \in T
    BY <1>2
  <2> HIDE DEF T
  <2>2. IsFiniteSet(T) /\ Cardinality(T) <= c /\ Cardinality(T) \in Nat
    BY <1>1, <2>1, FS_Subset, FS_CardinalityType
  <2>3. Cardinality(T) # 0
    BY <2>1, <2>2, FS_EmptySet
  <2>4. Rank(K, i) = Cardinality(T)
    BY DEF Rank, T
  <2> QED
    BY <1>1, <2>2, <2>3, <2>4
<1>4. ASSUME NEW i \in K, NEW j \in K, i < j PROVE Rank(K, i) < Rank(K, j)
  <2> DEFINE T == {k \in K : k <= i}  U == {k \in K : k <= j}
  <2>1. T \in SUBSET U /\ U \in SUBSET K /\ j \in U /\ j \notin T
    <3>1. i \in Nat /\ j \in Nat
      BY <1>2
    <3>2. ASSUME NEW k \in K, k <= i PROVE k <= j
      BY <3>1, <3>2, <1>2, <1>4
    <3>3. j <= j /\ ~(j <= i)
      BY <3>1, <1>4
    <3> QED
      BY <3>2, <3>3, Zenon
  <2>2. Rank(K, i) = Cardinality(T) /\ Rank(K, j) = Cardinality(U)
    BY DEF Rank
  <2> HIDE DEF T, U
  <2>3. IsFiniteSet(U) /\ IsFiniteSet(T)
    BY <1>1, <2>1, FS_Subset
  <2>4. Cardinality(T) <= Cardinality(U) /\ Cardinality(T) # Cardinality(U)
    BY <2>1, <2>3, FS_Subset
  <2>5. Cardinality(T) \in Nat /\ Cardinality(U) \in Nat
    BY <2>3, FS_CardinalityType
  <2> QED
    BY <2>2, <2>4, <2>5
<1>5. \A n \in 1..c : \E i \in K : Rank(K, i) = n
  <2> DEFINE f == [i \in K |-> Rank(K, i)]
  <2>1. f \in [K -> 1..c]
    BY <1>3
  <2>2. ASSUME NEW i \in K, NEW j \in K, f[i] = f[j] PROVE i = j
    <3>1. Rank(K, i) = Rank(K, j) /\ Rank(K, i) \in 1..c
      BY <2>2, <1>3
    <3>2. i < j => Rank(K, i) < Rank(K, j)
      BY <1>4
    <3>3. j < i => Rank(K, j) < Rank(K, i)
      BY <1>4
    <3>4. ~(i < j) /\ ~(j < i)
      BY <3>1, <3>2, <3>3, <1>1
    <3> QED
      BY <3>4, <1>2
  <2> HIDE DEF f
  <2>3. f \in Injection(K, 1..c)
    BY <2>1, <2>2 DEF Injection, IsInjective
  <2>4. IsFiniteSet(1..c) /\ Cardinality(1..c) = c
    BY <1>1, FS_Interval
  <2> HIDE DEF c
  <2>5. f \in Surjection(K, 1..c)
    BY <2>3, <2>4, FS_Injection DEF c
  <2>6. \A n \in 1..c : \E i \in K : f[i] = n
    BY <2>5 DEF Surjection
  <2> QED
    BY <2>6 DEF f
<1>6. ASSUME NEW n \in 1..c PROVE Nth(K, n) \in K /\ Rank(K, Nth(K, n)) = n
  BY <1>5, Zenon DEF Nth
<1> QED
  BY <1>1, <1>3, <1>4, <1>6

\* A list that goes up and leaves nothing out is the counting.
LEMMA OneCounting ==
    ASSUME NEW N \in Nat, NEW K \in SUBSET (1..N), NEW m \in Nat, NEW at \in [1..m -> K],
           \A k, n \in 1..m : k < n => at[k] < at[n],
           \A i \in K : \E n \in 1..m : at[n] = i
    PROVE  Cardinality(K) = m /\ \A n \in 1..m : at[n] = Nth(K, n)
<1>1. \A n \in 1..m : at[n] \in K /\ at[n] \in Nat
  <2>1. \A i \in K : i \in Nat
    OBVIOUS
  <2>2. \A n \in 1..m : at[n] \in K
    OBVIOUS
  <2> QED
    BY <2>1, <2>2, Zenon
<1>2. \A k, n \in 1..m : at[k] <= at[n] <=> k <= n
  BY <1>1
<1>3. IsFiniteSet(1..m) /\ Cardinality(1..m) = m
  BY FS_Interval
<1>4. Cardinality(K) = m
  <2>1. at \in Bijection(1..m, K)
    <3>1. at \in Injection(1..m, K)
      <4>1. \A k, n \in 1..m : at[k] = at[n] => k = n
        BY <1>1, <1>2
      <4> QED
        BY <4>1 DEF Injection, IsInjective
    <3>2. at \in Surjection(1..m, K)
      BY DEF Surjection
    <3> QED
      BY <3>1, <3>2 DEF Bijection
  <2>2. ExistsBijection(1..m, K)
    BY <2>1 DEF ExistsBijection
  <2> QED
    BY <1>3, <2>2, FS_Bijection
<1>5. ASSUME NEW n \in 1..m PROVE Rank(K, at[n]) = n
  <2> DEFINE T == {j \in K : j <= at[n]}  f == [k \in 1..n |-> at[k]]
  <2>1. f \in [1..n -> T]
    BY <1>1, <1>2
  <2>2. \A k, l \in 1..n : f[k] = f[l] => k = l
    BY <1>1, <1>2
  <2>3. \A i \in T : \E k \in 1..n : f[k] = i
    <3> SUFFICES ASSUME NEW i \in T PROVE \E k \in 1..n : f[k] = i
      OBVIOUS
    <3>1. PICK k \in 1..m : at[k] = i
      OBVIOUS
    <3>2. k <= n
      BY <1>2, <3>1
    <3> QED
      BY <3>1, <3>2
  <2>4. Rank(K, at[n]) = Cardinality(T)
    BY DEF Rank
  <2> HIDE DEF T, f
  <2>5. f \in Bijection(1..n, T)
    BY <2>1, <2>2, <2>3 DEF Bijection, Injection, Surjection, IsInjective
  <2>6. IsFiniteSet(1..n) /\ Cardinality(1..n) = n
    BY FS_Interval
  <2>7. ExistsBijection(1..n, T)
    BY <2>5 DEF ExistsBijection
  <2> QED
    BY <2>4, <2>6, <2>7, FS_Bijection
<1>6. ASSUME NEW n \in 1..m PROVE at[n] = Nth(K, n)
  <2>1. n \in 1..Cardinality(K)
    BY <1>4
  <2>2. Nth(K, n) \in K /\ Rank(K, Nth(K, n)) = n
    BY <2>1, Ranks
  <2>3. PICK k \in 1..m : at[k] = Nth(K, n)
    BY <2>2
  <2>4. Rank(K, at[k]) = k
    BY <1>5
  <2> QED
    BY <2>2, <2>3, <2>4
<1> QED
  BY <1>4, <1>6

-----------------------------------------------------------------------------
(* What is picked from a sequence. *)

\* A sequence of anything is a function from 1 to its length.
LEMMA TextIs ==
    ASSUME NEW t, IsText(t)
    PROVE  /\ Len(t) \in Nat /\ DOMAIN t = 1..Len(t)
           /\ t = [i \in 1..Len(t) |-> t[i]]
           /\ t \in Seq(ToSet(t))
<1>1. t \in Seq(ToSet(t))
  BY DEF IsText
<1>2. \A S : t \in Seq(S) => Len(t) \in Nat /\ DOMAIN t = 1..Len(t) /\ t = [i \in 1..Len(t) |-> t[i]]
  OBVIOUS
<1> QED
  BY <1>1, <1>2

\* And whatever is one is a sequence.
LEMMA IsOne ==
    ASSUME NEW n \in Nat, NEW t, t = [i \in 1..n |-> t[i]]
    PROVE  IsText(t) /\ Len(t) = n /\ DOMAIN t = 1..n
<1>1. \A i \in 1..n : t[i] \in ToSet(t)
  BY DEF ToSet
<1> DEFINE S == ToSet(t)
<1> HIDE DEF S
<1>2. \A i \in 1..n : t[i] \in S
  BY <1>1 DEF S
<1>3. t \in [1..n -> S]
  BY <1>2
<1>4. t \in Seq(S) /\ Len(t) = n
  BY <1>3
<1> QED
  BY <1>4 DEF IsText, S

\* Two sequences of one length that agree everywhere are one.
LEMMA SameText ==
    ASSUME NEW s, NEW t, IsText(s), IsText(t), Len(s) = Len(t),
           \A i \in 1..Len(s) : s[i] = t[i]
    PROVE  s = t
<1>1. s = [i \in 1..Len(s) |-> s[i]] /\ t = [i \in 1..Len(t) |-> t[i]]
  BY TextIs
<1> QED
  BY <1>1

\* The places in K are counted up: the first m of them, none past N.
Counts(at, m, K, N) ==
    /\ N \in Nat /\ m \in Nat /\ K \in SUBSET (1..N) /\ at \in [1..m -> K]
    /\ \A k, n \in 1..m : k < n => at[k] < at[n]
    /\ \A i \in K : \E n \in 1..m : at[n] = i

\* Those after k, m of them.
Stretch(K, k, m) == k \in Nat /\ m \in Nat /\ K = (k + 1)..(k + m)

\* What is counted up one way is what is picked.
LEMMA PickedIs ==
    ASSUME NEW s, NEW K, NEW m, NEW at, NEW N, Counts(at, m, K, N)
    PROVE  /\ IsText(Picked(s, K)) /\ Len(Picked(s, K)) = m
           /\ \A n \in 1..m : Picked(s, K)[n] = s[at[n]]
<1>0. /\ N \in Nat /\ m \in Nat /\ K \in SUBSET (1..N) /\ at \in [1..m -> K]
      /\ \A k, n \in 1..m : k < n => at[k] < at[n]
      /\ \A i \in K : \E n \in 1..m : at[n] = i
  BY DEF Counts
<1>1. Cardinality(K) = m /\ \A n \in 1..m : at[n] = Nth(K, n)
  BY <1>0, OneCounting
<1>2. Picked(s, K) = [n \in 1..Cardinality(K) |-> s[Nth(K, n)]]
  BY DEF Picked, Nth, Rank
<1> DEFINE p == Picked(s, K)
<1>3. p = [n \in 1..m |-> s[at[n]]]
  BY <1>1, <1>2, Zenon
<1>4. p = [n \in 1..m |-> p[n]] /\ \A n \in 1..m : p[n] = s[at[n]]
  BY <1>3
<1> HIDE DEF p
<1>5. IsText(p) /\ Len(p) = m
  BY <1>0, <1>4, IsOne
<1> QED
  BY <1>4, <1>5 DEF p

\* A stretch is picked as it stands.
LEMMA PickedStretch ==
    ASSUME NEW s, NEW K, NEW k, NEW m, Stretch(K, k, m)
    PROVE  /\ IsText(Picked(s, K)) /\ Len(Picked(s, K)) = m
           /\ \A n \in 1..m : Picked(s, K)[n] = s[n + k]
<1> DEFINE at == [n \in 1..m |-> n + k]  N == k + m
<1>0. k \in Nat /\ m \in Nat /\ K = (k + 1)..(k + m)
  BY DEF Stretch
<1>1. K \in SUBSET (1..N) /\ N \in Nat
  BY <1>0
<1>2. at \in [1..m -> K]
  BY <1>0
<1>3. \A j, n \in 1..m : j < n => at[j] < at[n]
  BY <1>0
<1>4. ASSUME NEW i \in K PROVE \E n \in 1..m : at[n] = i
  <2>1. i - k \in 1..m /\ at[i - k] = i
    BY <1>0
  <2> QED
    BY <2>1
<1>5. \A n \in 1..m : at[n] = n + k
  OBVIOUS
<1> HIDE DEF at, N
<1>6. /\ IsText(Picked(s, K)) /\ Len(Picked(s, K)) = m
      /\ \A n \in 1..m : Picked(s, K)[n] = s[at[n]]
  <2>1. Counts(at, m, K, N)
    BY <1>0, <1>1, <1>2, <1>3, <1>4 DEF Counts
  <2> QED
    BY <2>1, PickedIs
<1> QED
  BY <1>5, <1>6

\* All of it, one of it and none of it.
LEMMA PickedAll ==
    ASSUME NEW s, NEW m \in Nat
    PROVE  /\ IsText(Picked(s, 1..m)) /\ Len(Picked(s, 1..m)) = m
           /\ \A n \in 1..m : Picked(s, 1..m)[n] = s[n]
<1> DEFINE k == 0  K == 1..m
<1>1. k \in Nat /\ K = (k + 1)..(k + m) /\ \A n \in 1..m : n + k = n
  OBVIOUS
<1> HIDE DEF k, K
<1>2. /\ IsText(Picked(s, K)) /\ Len(Picked(s, K)) = m
      /\ \A n \in 1..m : Picked(s, K)[n] = s[n + k]
  <2>1. Stretch(K, k, m)
    BY <1>1 DEF Stretch
  <2> QED
    BY <2>1, PickedStretch
<1> QED
  BY <1>1, <1>2 DEF K

LEMMA PickedOne ==
    ASSUME NEW s, NEW k \in Nat \ {0}
    PROVE  Picked(s, {k}) = <<s[k]>>
<1> DEFINE j == k - 1  l == 1  K == {k}  p == Picked(s, K)
<1>1. j \in Nat /\ l \in Nat /\ K = (j + 1)..(j + l) /\ \A n \in 1..l : n + j = k
  OBVIOUS
<1> HIDE DEF j, K, l
<1>2. IsText(p) /\ Len(p) = l /\ \A n \in 1..l : p[n] = s[n + j]
  <2>1. Stretch(K, j, l)
    BY <1>1 DEF Stretch
  <2> QED
    BY <2>1, PickedStretch
<1> HIDE DEF p
<1>3. p = [n \in 1..1 |-> p[n]] /\ p[1] = s[k]
  BY <1>1, <1>2, TextIs DEF l
<1> QED
  BY <1>3 DEF p, K

LEMMA PickedNone == \A s : Picked(s, {}) = <<>>
<1> TAKE s
<1> DEFINE m == 0  K == 1..m  p == Picked(s, K)
<1>1. m \in Nat
  OBVIOUS
<1>2. K = {} /\ m = 0
  OBVIOUS
<1> HIDE DEF m
<1>3. IsText(p) /\ Len(p) = m
  BY <1>1, PickedAll
<1> HIDE DEF p, K
<1>4. p = [n \in 1..0 |-> p[n]]
  BY <1>2, <1>3, TextIs
<1>5. p = <<>>
  BY <1>4
<1> QED
  BY <1>2, <1>5 DEF p

\* Two sequences of any two kinds, one behind the other.
LEMMA Joined ==
    ASSUME NEW s, NEW t, IsText(s), IsText(t)
    PROVE  /\ IsText(s \o t) /\ Len(s \o t) = Len(s) + Len(t)
           /\ \A i \in 1..Len(s) : (s \o t)[i] = s[i]
           /\ \A i \in 1..Len(t) : (s \o t)[Len(s) + i] = t[i]
<1> DEFINE S == ToSet(s) \union ToSet(t)
<1>1. s \in Seq(S) /\ t \in Seq(S)
  BY DEF IsText
<1> HIDE DEF S
<1>2. s \o t \in Seq(S) /\ Len(s \o t) = Len(s) + Len(t) /\ Len(s) \in Nat /\ Len(t) \in Nat
      /\ \A i \in 1..(Len(s) + Len(t)) : (s \o t)[i] = IF i <= Len(s) THEN s[i] ELSE t[i - Len(s)]
  BY <1>1, ConcatProperties, LenProperties
<1> DEFINE m == Len(s)  n == Len(t)  c == s \o t
<1>3. m \in Nat /\ n \in Nat /\ \A i \in 1..(m + n) : c[i] = IF i <= m THEN s[i] ELSE t[i - m]
  BY <1>2
<1>4. c = [i \in 1..(m + n) |-> c[i]] /\ m + n \in Nat
  <2> HIDE DEF c
  <2>1. c \in Seq(S) /\ Len(c) = m + n
    BY <1>2 DEF c
  <2> QED
    BY <2>1
<1>5. Len(c) = m + n
  BY <1>2
<1> HIDE DEF m, n, c
<1>6. IsText(c)
  BY <1>4, IsOne
<1>7. \A i \in 1..m : c[i] = s[i]
  BY <1>3
<1>8. ASSUME NEW i \in 1..n PROVE c[m + i] = t[i]
  <2>1. m + i \in 1..(m + n) /\ ~(m + i <= m) /\ m + i - m = i
    BY <1>3
  <2> QED
    BY <2>1, <1>3
<1> QED
  BY <1>5, <1>6, <1>7, <1>8 DEF m, n, c

\* One thing is a sequence.
LEMMA OneText == \A c : IsText(<<c>>) /\ Len(<<c>>) = 1 /\ <<c>>[1] = c /\ DOMAIN <<c>> = {1}
BY DEF IsText, ToSet

\* One thing before a sequence and behind it.
Surrounded(w, c, s) == w = <<c>> \o s \o <<c>>

\* What stands around and between.
LEMMA Around ==
    ASSUME NEW c, NEW s, IsText(s), NEW w, Surrounded(w, c, s)
    PROVE  /\ IsText(w) /\ Len(w) = Len(s) + 2
           /\ w[1] = c /\ w[Len(s) + 2] = c
           /\ \A i \in 1..Len(s) : w[i + 1] = s[i]
<1> DEFINE d == <<c>>  e == d \o s  n == Len(s)
<1>1. IsText(d) /\ Len(d) = 1 /\ d[1] = c /\ n \in Nat
  BY OneText, TextIs
<1>2. n = Len(s)
  OBVIOUS
<1> HIDE DEF d, n
<1>3. IsText(e) /\ Len(e) = 1 + n /\ e[1] = c /\ \A i \in 1..n : e[1 + i] = s[i]
  <2>1. 1 \in 1..Len(d)
    BY <1>1
  <2>2. IsText(d \o s) /\ Len(d \o s) = Len(d) + Len(s) /\ (\A i \in 1..Len(d) : (d \o s)[i] = d[i])
        /\ \A i \in 1..Len(s) : (d \o s)[Len(d) + i] = s[i]
    <3>1. IsText(d)
      BY <1>1
    <3> QED
      BY <3>1, Joined
  <2> QED
    BY <1>1, <1>2, <2>1, <2>2
<1> HIDE DEF e
<1>4. IsText(e \o d) /\ Len(e \o d) = (1 + n) + 1
      /\ (\A i \in 1..(1 + n) : (e \o d)[i] = e[i]) /\ (e \o d)[(1 + n) + 1] = c
  <2>1. 1 \in 1..Len(d)
    BY <1>1
  <2>2. IsText(e \o d) /\ Len(e \o d) = Len(e) + Len(d) /\ (\A i \in 1..Len(e) : (e \o d)[i] = e[i])
        /\ \A i \in 1..Len(d) : (e \o d)[Len(e) + i] = d[i]
    <3>1. IsText(e) /\ IsText(d)
      BY <1>1, <1>3
    <3> QED
      BY <3>1, Joined
  <2> QED
    BY <1>1, <1>3, <2>1, <2>2
<1> DEFINE all == e \o d
<1> HIDE DEF all
<1>5. IsText(all) /\ Len(all) = n + 2 /\ all[n + 2] = c /\ \A i \in 1..(1 + n) : all[i] = e[i]
  <2>1. (1 + n) + 1 = n + 2
    BY <1>1
  <2> QED
    BY <1>4, <2>1 DEF all
<1>6. all[1] = c /\ \A i \in 1..n : all[i + 1] = s[i]
  <2>1. 1 \in 1..(1 + n) /\ \A i \in 1..n : 1 + i \in 1..(1 + n) /\ i + 1 = 1 + i
    BY <1>1
  <2> QED
    BY <2>1, <1>3, <1>5
<1> QED
  BY <1>5, <1>6, <1>2 DEF all, e, d, Surrounded

-----------------------------------------------------------------------------
(* What an element holds. *)

\* The text of an element that holds one, and of one that holds nothing.
LEMMA FlattenFew == FlattenSeq(<<>>) = <<>> /\ \A t : FlattenSeq(<<t>>) = t
<1>1. FlattenSeq(<<>>) = <<>>
  BY DEF FlattenSeq
<1>2. ASSUME NEW t PROVE FlattenSeq(<<t>>) = t
  <2> DEFINE g == CHOOSE f : f = [i \in 1..1 |-> IF i = 1 THEN <<t>>[i] ELSE f[i - 1] \o <<t>>[i]]
  <2>1. Len(<<t>>) = 1 /\ 1..1 = {1} /\ <<t>>[1] = t
    OBVIOUS
  <2>2. [i \in 1..1 |-> t] = [i \in 1..1 |-> IF i = 1 THEN <<t>>[i] ELSE [j \in 1..1 |-> t][i - 1] \o <<t>>[i]]
    BY <2>1
  <2>3. g = [i \in 1..1 |-> IF i = 1 THEN <<t>>[i] ELSE g[i - 1] \o <<t>>[i]]
    BY <2>2, Zenon
  <2>4. g[1] = t
    BY <2>3, <2>1
  <2>5. FlattenSeq(<<t>>) = g[1]
    BY <2>1 DEF FlattenSeq
  <2> QED
    BY <2>4, <2>5
<1> QED
  BY <1>1, <1>2

\* The children of a tag are all of them, if all have it and chat does not.
LEMMA KidsAll ==
    \A style, kids, tag, t :
        /\ IsText(kids) /\ t # "chat"
        /\ \A i \in DOMAIN kids : kids[i].tag = t
        => Kids(Elem(tag, Among(style, kids)), t) = kids
<1> SUFFICES ASSUME NEW style, NEW kids, NEW tag, NEW t,
                    IsText(kids), t # "chat", \A i \in DOMAIN kids : kids[i].tag = t
             PROVE  Kids(Elem(tag, Among(style, kids)), t) = kids
  OBVIOUS
<1> DEFINE n == Len(kids)
<1>1. n \in Nat /\ DOMAIN kids = 1..n
  BY TextIs
<1> HIDE DEF n
<1> DEFINE all == Among(style, kids)  K == {i \in DOMAIN all : all[i].tag = t}
<1>2. Kids(Elem(tag, all), t) = Picked(all, K)
  BY DEF Kids, Elem
<1>0. IsText(kids) /\ Len(kids) = n
  BY DEF n
<1>3. CASE style = "chatty"
  <2>1. all = <<Chat>> \o kids \o <<Chat>>
    BY <1>3 DEF Among
  <2>2. DOMAIN all = 1..(n + 2) /\ all[1] = Chat /\ all[n + 2] = Chat /\ \A i \in 1..n : all[i + 1] = kids[i]
    <3>1. IsText(all) /\ Len(all) = n + 2 /\ all[1] = Chat /\ all[n + 2] = Chat
          /\ \A i \in 1..n : all[i + 1] = kids[i]
      <4>1. /\ IsText(all) /\ Len(all) = Len(kids) + 2 /\ all[1] = Chat /\ all[Len(kids) + 2] = Chat
            /\ \A i \in 1..Len(kids) : all[i + 1] = kids[i]
        <5>1. Surrounded(all, Chat, kids)
          BY <2>1 DEF Surrounded
        <5> QED
          BY <5>1, <1>0, Around
      <4> QED
        BY <4>1, <1>0
    <3> HIDE DEF all
    <3> QED
      BY <3>1, TextIs
  <2>3. Chat.tag = "chat"
    BY DEF Chat, Elem
  <2>4. K = (1 + 1)..(1 + n)
    <3>1. ASSUME NEW i \in 1..(n + 2) PROVE i = 1 \/ i = n + 2 \/ (i - 1 \in 1..n /\ i = (i - 1) + 1)
      BY <1>1
    <3>2. ASSUME NEW i \in (1 + 1)..(1 + n) PROVE i - 1 \in 1..n /\ i = (i - 1) + 1 /\ i \in 1..(n + 2)
      BY <1>1
    <3>3. \A i \in K : i \in (1 + 1)..(1 + n)
      <4> TAKE i \in K
      <4>1. i \in 1..(n + 2) /\ i # 1 /\ i # n + 2
        BY <2>2, <2>3
      <4> QED
        BY <4>1, <1>1
    <3>4. \A i \in (1 + 1)..(1 + n) : i \in K
      <4> TAKE i \in (1 + 1)..(1 + n)
      <4>1. all[i] = kids[i - 1]
        BY <3>2, <2>2
      <4> QED
        BY <3>2, <2>2, <4>1, <1>1
    <3> QED
      BY <3>3, <3>4
  <2>5. 1 \in Nat /\ \A i \in 1..n : kids[i] = all[i + 1]
    BY <2>2
  <2> DEFINE p == Picked(all, K)
  <2> HIDE DEF all, K
  <2>6. IsText(p) /\ Len(p) = n /\ \A i \in 1..n : p[i] = all[i + 1]
    <3>1. Stretch(K, 1, n)
      BY <2>4, <1>1 DEF Stretch
    <3> QED
      BY <3>1, PickedStretch
  <2> HIDE DEF p
  <2>7. p = kids
    BY <2>5, <2>6, <1>0, SameText
  <2> QED
    BY <1>2, <2>7 DEF all, p
<1>4. CASE style # "chatty"
  <2>1. all = kids
    BY <1>4 DEF Among
  <2>2. K = 1..n
    BY <2>1, <1>1
  <2>3. \A i \in 1..n : kids[i] = all[i]
    BY <2>1
  <2> DEFINE p == Picked(all, K)
  <2> HIDE DEF all, K
  <2>4. IsText(p) /\ Len(p) = n /\ \A i \in 1..n : p[i] = all[i]
    BY <2>2, <1>1, PickedAll
  <2> HIDE DEF p
  <2>5. p = kids
    BY <2>3, <2>4, <1>0, SameText
  <2> QED
    BY <1>2, <2>5 DEF all, p
<1> QED
  BY <1>3, <1>4

\* Of two children of different tags each is the one of its own.
LEMMA KidsTwo ==
    \A style, a, b, tag : a.tag # b.tag /\ a.tag # "chat" /\ b.tag # "chat" =>
        /\ Kids(Elem(tag, Among(style, <<a, b>>)), a.tag) = <<a>>
        /\ Kids(Elem(tag, Among(style, <<a, b>>)), b.tag) = <<b>>
<1> SUFFICES ASSUME NEW style, NEW a, NEW b, NEW tag, a.tag # b.tag, a.tag # "chat", b.tag # "chat"
             PROVE  /\ Kids(Elem(tag, Among(style, <<a, b>>)), a.tag) = <<a>>
                    /\ Kids(Elem(tag, Among(style, <<a, b>>)), b.tag) = <<b>>
  OBVIOUS
<1> DEFINE all == Among(style, <<a, b>>)  K(t) == {i \in DOMAIN all : all[i].tag = t}
<1>1. \A t : Kids(Elem(tag, all), t) = Picked(all, K(t))
  BY DEF Kids, Elem
<1>2. Chat.tag = "chat"
  BY DEF Chat, Elem
<1>3. CASE style = "chatty"
  <2> DEFINE pair == <<a, b>>
  <2>0. IsText(pair) /\ Len(pair) = 2 /\ pair[1] = a /\ pair[2] = b
    BY DEF IsText, ToSet
  <2>1. all = <<Chat>> \o pair \o <<Chat>>
    BY <1>3 DEF Among
  <2> HIDE DEF all, pair
  <2>2. DOMAIN all = {1, 2, 3, 4} /\ all[1] = Chat /\ all[2] = a /\ all[3] = b /\ all[4] = Chat
    <3>1. IsText(all) /\ Len(all) = 4 /\ all[1] = Chat /\ all[4] = Chat
          /\ \A i \in 1..2 : all[i + 1] = pair[i]
      <4>1. Surrounded(all, Chat, pair)
        BY <2>1 DEF Surrounded
      <4>2. /\ IsText(all) /\ Len(all) = Len(pair) + 2 /\ all[1] = Chat /\ all[Len(pair) + 2] = Chat
            /\ \A i \in 1..Len(pair) : all[i + 1] = pair[i]
        <5>1. IsText(pair)
          BY <2>0
        <5> QED
          BY <4>1, <5>1, Around
      <4>3. Len(pair) + 2 = 4
        BY <2>0
      <4> QED
        BY <4>2, <4>3, <2>0
    <3>2. DOMAIN all = 1..4
      BY <3>1, TextIs
    <3>3. 1 \in 1..2 /\ 2 \in 1..2 /\ 1 + 1 = 2 /\ 2 + 1 = 3 /\ 1..4 = {1, 2, 3, 4}
      OBVIOUS
    <3> QED
      BY <3>1, <3>2, <3>3, <2>0
  <2>3. K(a.tag) = {2} /\ K(b.tag) = {3}
    BY <2>2, <1>2
  <2>4. {1, 2, 3} \subseteq Nat \ {0}
    OBVIOUS
  <2> HIDE DEF K, all
  <2>5. \A k \in {1, 2, 3} : Picked(all, {k}) = <<all[k]>>
    BY <2>4, PickedOne
  <2> QED
    BY <1>1, <2>2, <2>3, <2>5 DEF all
<1>4. CASE style # "chatty"
  <2>1. all = <<a, b>>
    BY <1>4 DEF Among
  <2>2. DOMAIN all = {1, 2} /\ all[1] = a /\ all[2] = b
    BY <2>1
  <2> HIDE DEF all
  <2>3. K(a.tag) = {1} /\ K(b.tag) = {2}
    BY <2>2
  <2>4. {1, 2, 3} \subseteq Nat \ {0}
    OBVIOUS
  <2> HIDE DEF K, all
  <2>5. \A k \in {1, 2, 3} : Picked(all, {k}) = <<all[k]>>
    BY <2>4, PickedOne
  <2> QED
    BY <1>1, <2>2, <2>3, <2>5 DEF all
<1> QED
  BY <1>3, <1>4

\* The one child there is.
LEMMA KidsOne ==
    \A style, a, tag : a.tag # "chat" => Kids(Elem(tag, Among(style, <<a>>)), a.tag) = <<a>>
<1> SUFFICES ASSUME NEW style, NEW a, NEW tag, a.tag # "chat"
             PROVE  Kids(Elem(tag, Among(style, <<a>>)), a.tag) = <<a>>
  OBVIOUS
<1> DEFINE kids == <<a>>
<1>1. IsText(kids) /\ \A i \in DOMAIN kids : kids[i].tag = a.tag
  BY DEF IsText, ToSet
<1> HIDE DEF kids
<1> QED
  BY <1>1, KidsAll DEF kids

\* The text of an element.
LEMMA LeafText ==
    /\ \A tag, t : ElemText(Leaf(tag, t)) = t
    /\ \A tag : ElemText(Elem(tag, <<>>)) = <<>>
<1>1. ASSUME NEW tag, NEW t PROVE ElemText(Leaf(tag, t)) = t
  <2>1. Leaf(tag, t) = Elem(tag, Among("typed", <<Text(t)>>)) /\ Text(t).tag = "" /\ Text(t).text = t
    BY DEF Leaf, Among, Text
  <2>2. Kids(Leaf(tag, t), "") = <<Text(t)>>
    BY <2>1, KidsOne
  <2>3. Each(<<Text(t)>>, LAMBDA k : k.text) = <<t>>
    <3> DEFINE k == Text(t)
    <3>1. k.text = t
      BY <2>1
    <3> HIDE DEF k
    <3>2. DOMAIN <<k>> = {1} /\ <<k>>[1] = k
      OBVIOUS
    <3>3. [i \in {1} |-> <<k>>[i].text] = <<t>>
      BY <3>1, <3>2
    <3> QED
      BY <3>2, <3>3 DEF Each, k
  <2> QED
    BY <2>2, <2>3, FlattenFew DEF ElemText
<1>2. ASSUME NEW tag PROVE ElemText(Elem(tag, <<>>)) = <<>>
  <2>1. Kids(Elem(tag, <<>>), "") = <<>>
    <3>1. {i \in DOMAIN <<>> : <<>>[i].tag = ""} = {}
      OBVIOUS
    <3> QED
      BY <3>1, PickedNone DEF Kids, Elem
  <2>2. Each(<<>>, LAMBDA k : k.text) = <<>>
    BY DEF Each
  <2> QED
    BY <2>1, <2>2, FlattenFew DEF ElemText
<1> QED
  BY <1>1, <1>2
-----------------------------------------------------------------------------
(* Texts. *)

\* What is left of a text without some pieces.
LEMMA WithoutIs ==
    ASSUME NEW t, IsText(t), NEW D
    PROVE  /\ IsText(Without(t, D)) /\ ToSet(Without(t, D)) \subseteq ToSet(t)
           /\ \A i \in DOMAIN Without(t, D) : Without(t, D)[i] \notin D
<1> DEFINE K == {i \in DOMAIN t : t[i] \notin D}  m == Cardinality(K)  e == Without(t, D)  N == Len(t)
<1>1. N \in Nat /\ DOMAIN t = 1..N
  BY TextIs
<1> HIDE DEF N
<1>2. K \in SUBSET (1..N) /\ \A i \in K : i \in DOMAIN t /\ t[i] \notin D
  BY <1>1
<1>3. e = [n \in 1..m |-> t[Nth(K, n)]]
  BY DEF Without, Picked, Nth, Rank
<1> HIDE DEF K
<1>4. m \in Nat /\ \A n \in 1..m : Nth(K, n) \in K
  BY <1>1, <1>2, Ranks
<1> HIDE DEF e, m
<1>5. e = [n \in 1..m |-> e[n]] /\ DOMAIN e = 1..m /\ \A n \in 1..m : e[n] = t[Nth(K, n)]
  BY <1>3
<1>6. IsText(e)
  BY <1>4, <1>5, IsOne
<1>7. \A n \in DOMAIN e : e[n] \in ToSet(t) /\ e[n] \notin D
  BY <1>2, <1>4, <1>5 DEF ToSet
<1> QED
  BY <1>6, <1>7 DEF e, ToSet

\* A text that has none of them is left as it is.
LEMMA WithoutSame ==
    ASSUME NEW t, IsText(t), NEW D, \A i \in DOMAIN t : t[i] \notin D
    PROVE  Without(t, D) = t
<1> DEFINE N == Len(t)  K == {i \in DOMAIN t : t[i] \notin D}  p == Picked(t, 1..N)
<1>1. N \in Nat /\ DOMAIN t = 1..N
  BY TextIs
<1>2. K = 1..N
  BY <1>1
<1>3. Without(t, D) = p
  BY <1>2 DEF Without
<1> HIDE DEF N
<1>4. IsText(p) /\ Len(p) = N /\ \A n \in 1..N : p[n] = t[n]
  BY <1>1, PickedAll
<1> HIDE DEF p
<1>5. Len(t) = N
  BY DEF N
<1>6. p = t
  BY <1>4, <1>5, SameText
<1> QED
  BY <1>3, <1>6

\* What is written has nothing forbidden in it.
LEMMA EscapedIs ==
    ASSUME NEW t, IsText(t)
    PROVE  /\ IsText(Escaped(t)) /\ ToSet(Escaped(t)) \subseteq ToSet(t)
           /\ \A i \in DOMAIN Escaped(t) : Escaped(t)[i] # "control"
BY WithoutIs DEF Escaped

\* A text of nothing forbidden comes back as it is.
LEMMA EscapedSame ==
    ASSUME NEW t, IsText(t), \A i \in DOMAIN t : t[i] # "control"
    PROVE  Escaped(t) = t
BY WithoutSame DEF Escaped

\* Once written is written for good.
LEMMA EscapedTwice ==
    ASSUME NEW t, IsText(t)
    PROVE  Escaped(Escaped(t)) = Escaped(t)
<1> DEFINE e == Escaped(t)
<1>1. IsText(e) /\ \A i \in DOMAIN e : e[i] # "control"
  BY EscapedIs
<1> HIDE DEF e
<1>2. Escaped(e) = e
  BY <1>1, EscapedSame
<1> QED
  BY <1>2 DEF e

\* A part of a text.
LEMMA CutIs ==
    ASSUME NEW t, IsText(t), NEW m \in 1..(Len(t) + 1), NEW n \in 0..Len(t)
    PROVE  /\ IsText(SubSeq(t, m, n))
           /\ Len(SubSeq(t, m, n)) = IF m <= n THEN n - m + 1 ELSE 0
           /\ \A i \in 1..Len(SubSeq(t, m, n)) : SubSeq(t, m, n)[i] = t[m + i - 1]
<1> DEFINE u == SubSeq(t, m, n)  l == IF m <= n THEN n - m + 1 ELSE 0
<1>1. Len(t) \in Nat /\ l \in Nat
  BY TextIs
<1>2. u = [i \in 1..(n - m + 1) |-> t[i + m - 1]]
  BY DEF SubSeq
<1>3. 1..(n - m + 1) = 1..l
  BY <1>1
<1>4. u = [i \in 1..l |-> t[i + m - 1]]
  BY <1>2, <1>3
<1> HIDE DEF u, l
<1>5. u = [i \in 1..l |-> u[i]] /\ \A i \in 1..l : u[i] = t[i + m - 1]
  BY <1>4
<1>6. IsText(u) /\ Len(u) = l
  BY <1>1, <1>5, IsOne
<1>7. \A i \in 1..l : m + i - 1 = i + m - 1
  BY <1>1
<1> QED
  BY <1>5, <1>6, <1>7 DEF u, l

\* What is left of a text without the blanks around it, off of them before it.
TrimmedTo(t, u, off) ==
    /\ off \in Nat /\ IsText(u) /\ off + Len(u) <= Len(t)
    /\ \A n \in 1..Len(u) : u[n] = t[off + n]
    /\ \A i \in 1..Len(t) : t[i] # "blank" => i > off /\ i <= off + Len(u)
    /\ Len(u) # 0 => t[off + 1] # "blank" /\ t[off + Len(u)] # "blank"

LEMMA TrimIs ==
    ASSUME NEW t, IsText(t)
    PROVE  \E off \in Nat : TrimmedTo(t, Trim(t), off)
<1> DEFINE ink == {i \in DOMAIN t : t[i] # "blank"}  from == Min(ink)  to == Max(ink)  N == Len(t)
<1>1. N \in Nat /\ DOMAIN t = 1..N
  BY TextIs
<1> HIDE DEF N
<1>2. Trim(t) = IF ink = {} THEN <<>> ELSE SubSeq(t, from, to)
  BY DEF Trim
<1>3. ink \subseteq 1..N /\ \A i \in 1..N : t[i] # "blank" => i \in ink
  BY <1>1
<1>4. CASE ink = {}
  <2> DEFINE u == Trim(t)  z == 0
  <2>1. u = <<>>
    BY <1>2, <1>4
  <2>2. IsText(u) /\ Len(u) = 0
    BY <2>1 DEF IsText, ToSet
  <2>3. \A i \in 1..N : ~(t[i] # "blank")
    BY <1>3, <1>4, Zenon
  <2> HIDE DEF u, ink
  <2>4. TrimmedTo(t, u, 0)
    BY <1>1, <2>2, <2>3 DEF TrimmedTo, N
  <2> QED
    BY <2>4 DEF u
<1>5. CASE ink # {}
  <2> HIDE DEF ink
  <2>1. from \in ink /\ \A j \in ink : from <= j
    <3>1. ink \in SUBSET Nat
      BY <1>1, <1>3
    <3> QED
      BY <3>1, <1>5, MinOf
  <2>2. to \in ink /\ \A j \in ink : to >= j
    <3>1. ink \in SUBSET (0..N)
      BY <1>1, <1>3
    <3> QED
      BY <3>1, <1>1, <1>5, MaxOf
  <2> HIDE DEF from, to
  <2>3. from \in 1..N /\ to \in 1..N /\ from <= to
    BY <2>1, <2>2, <1>3
  <2>4. Trim(t) = SubSeq(t, from, to)
    BY <1>2, <1>5
  <2> DEFINE u == Trim(t)  off == from - 1
  <2>5. IsText(u) /\ Len(u) = to - from + 1 /\ \A i \in 1..Len(u) : u[i] = t[from + i - 1]
    BY <2>3, <2>4, <1>1, CutIs DEF N
  <2> HIDE DEF u
  <2>6. off \in Nat /\ Len(u) \in Nat /\ off + Len(u) = to /\ off + Len(u) <= N /\ off + 1 = from
    BY <1>1, <2>3, <2>5
  <2>7. \A n \in 1..Len(u) : u[n] = t[off + n]
    <3>1. \A n \in 1..Len(u) : from + n - 1 = off + n
      BY <2>3, <2>6
    <3> QED
      BY <2>5, <3>1
  <2>8. \A i \in 1..N : t[i] # "blank" => i > off /\ i <= off + Len(u)
    <3>1. ASSUME NEW i \in ink PROVE i > off /\ i <= off + Len(u)
      <4>1. from <= i /\ to >= i /\ i \in 1..N
        BY <1>3, <2>1, <2>2
      <4> QED
        BY <4>1, <2>3, <2>6
    <3> QED
      BY <3>1, <1>3, Zenon
  <2>9. t[off + 1] # "blank" /\ t[off + Len(u)] # "blank"
    <3>1. t[from] # "blank" /\ t[to] # "blank"
      BY <2>1, <2>2, Zenon DEF ink
    <3> QED
      BY <3>1, <2>6, Zenon
  <2> HIDE DEF off
  <2>10. TrimmedTo(t, u, off)
    BY <2>5, <2>6, <2>7, <2>8, <2>9 DEF TrimmedTo, N
  <2> QED
    BY <2>6, <2>10 DEF u
<1> QED
  BY <1>4, <1>5
\* One way only to trim a text, which looks at nothing but the blanks.
LEMMA TrimUnique ==
    ASSUME NEW s, NEW t, IsText(s), IsText(t), Len(s) = Len(t),
           \A i \in 1..Len(s) : s[i] = "blank" <=> t[i] = "blank",
           NEW u, NEW v, NEW a, NEW b, TrimmedTo(s, u, a), TrimmedTo(t, v, b)
    PROVE  Len(u) = Len(v) /\ (Len(u) # 0 => a = b)
<1> DEFINE N == Len(s)  k == Len(u)  l == Len(v)
<1>1. N \in Nat /\ k \in Nat /\ l \in Nat /\ a \in Nat /\ b \in Nat /\ a + k <= N /\ b + l <= N
  <2>1. IsText(u) /\ IsText(v)
    BY DEF TrimmedTo
  <2> QED
    BY <2>1, TextIs DEF TrimmedTo
<1>2. \A i \in 1..N : s[i] # "blank" => (i > a /\ i <= a + k) /\ (i > b /\ i <= b + l)
  BY DEF TrimmedTo
<1>3. k # 0 => s[a + 1] # "blank" /\ s[a + k] # "blank"
  BY DEF TrimmedTo
<1>4. l # 0 => s[b + 1] # "blank" /\ s[b + l] # "blank"
  <2>1. l # 0 => t[b + 1] # "blank" /\ t[b + l] # "blank"
    BY DEF TrimmedTo
  <2>2. l # 0 => b + 1 \in 1..N /\ b + l \in 1..N
    BY <1>1
  <2> QED
    BY <2>1, <2>2
<1> HIDE DEF N, k, l
<1>5. k # 0 => a + 1 \in 1..N /\ a + k \in 1..N
  BY <1>1
<1>6. l # 0 => b + 1 \in 1..N /\ b + l \in 1..N
  BY <1>1
<1>7. k # 0 => a + 1 > b /\ a + 1 <= b + l /\ a + k <= b + l
  BY <1>2, <1>3, <1>5
<1>8. l # 0 => b + 1 > a /\ b + 1 <= a + k /\ b + l <= a + k
  BY <1>2, <1>4, <1>6
<1>9. k = l /\ (k # 0 => a = b)
  BY <1>1, <1>7, <1>8
<1> QED
  BY <1>9 DEF k, l

\* Trimming once is trimming for good.
LEMMA TrimTwice ==
    ASSUME NEW t, IsText(t)
    PROVE  IsText(Trim(t)) /\ Trim(Trim(t)) = Trim(t)
<1> DEFINE u == Trim(t)  v == Trim(u)
<1>1. PICK off \in Nat : TrimmedTo(t, u, off)
  BY TrimIs
<1> HIDE DEF u
<1>2. IsText(u)
  BY <1>1 DEF TrimmedTo
<1>3. PICK b \in Nat : TrimmedTo(u, v, b)
  BY <1>2, TrimIs
<1> HIDE DEF v
<1>4. TrimmedTo(u, u, 0)
  <2>1. Len(u) \in Nat
    BY <1>2, TextIs
  <2>2. Len(u) # 0 => u[1] # "blank" /\ u[Len(u)] # "blank"
    BY <1>1, <2>1 DEF TrimmedTo
  <2>3. 0 \in Nat /\ 0 + Len(u) = Len(u) /\ \A n \in 1..Len(u) : 0 + n = n /\ n > 0 /\ n <= Len(u)
    BY <2>1
  <2> QED
    BY <1>2, <2>1, <2>2, <2>3 DEF TrimmedTo
<1>5. Len(v) = Len(u) /\ (Len(u) # 0 => b = 0)
  <2>1. \A i \in 1..Len(u) : u[i] = "blank" <=> u[i] = "blank"
    OBVIOUS
  <2>2. Len(u) = Len(v) /\ (Len(u) # 0 => 0 = b)
    BY <1>2, <1>3, <1>4, <2>1, TrimUnique
  <2> QED
    BY <2>2
<1>6. IsText(v) /\ \A n \in 1..Len(v) : v[n] = u[b + n]
  BY <1>3 DEF TrimmedTo
<1>7. \A n \in 1..Len(v) : v[n] = u[n]
  <2>1. Len(u) \in Nat
    BY <1>2, TextIs
  <2> TAKE n \in 1..Len(v)
  <2>2. b = 0 /\ b + n = n
    BY <1>5, <2>1
  <2> QED
    BY <1>6, <2>2
<1>8. v = u
  BY <1>2, <1>5, <1>6, <1>7, SameText
<1> QED
  BY <1>2, <1>8 DEF u, v

\* What a reader sees of a piece, and texts a reader cannot tell apart.
Seen(p) == IF p \in CodeText THEN "<code>" ELSE IF p = "dash" THEN "&#8212;" ELSE p
Alike(s, t) == IsText(s) /\ IsText(t) /\ Len(s) = Len(t) /\ \A i \in 1..Len(s) : Seen(s[i]) = Seen(t[i])

LEMMA AlikeIs ==
    /\ \A s, t : Alike(s, t) => Alike(t, s)
    /\ \A s, t, u : Alike(s, t) /\ Alike(t, u) => Alike(s, u)
    /\ \A p, q : Seen(p) = Seen(q) => /\ (p = "blank" <=> q = "blank") /\ (p = "control" <=> q = "control")
                                     /\ (p = "Kelvin" <=> q = "Kelvin")
    /\ \A p : Seen(p) # "dash"
<1>1. \A s, t : Alike(s, t) => Alike(t, s)
  BY DEF Alike
<1>2. \A s, t, u : Alike(s, t) /\ Alike(t, u) => Alike(s, u)
  BY DEF Alike
<1>3. \A p, q : Seen(p) = Seen(q) => /\ (p = "blank" <=> q = "blank") /\ (p = "control" <=> q = "control")
                                     /\ (p = "Kelvin" <=> q = "Kelvin")
  BY DEF Seen, CodeText
<1>4. \A p : Seen(p) # "dash"
  BY DEF Seen, CodeText
<1> QED
  BY <1>1, <1>2, <1>3, <1>4

\* Trimmed they are alike.
LEMMA TrimAlike ==
    ASSUME NEW s, NEW t, Alike(s, t)
    PROVE  Alike(Trim(s), Trim(t))
<1> DEFINE u == Trim(s)  v == Trim(t)
<1>1. IsText(s) /\ IsText(t) /\ Len(s) = Len(t) /\ \A i \in 1..Len(s) : Seen(s[i]) = Seen(t[i])
  BY DEF Alike
<1>2. \A i \in 1..Len(s) : s[i] = "blank" <=> t[i] = "blank"
  BY <1>1, AlikeIs
<1>3. PICK a \in Nat : TrimmedTo(s, u, a)
  BY <1>1, TrimIs
<1>4. PICK b \in Nat : TrimmedTo(t, v, b)
  BY <1>1, TrimIs
<1> HIDE DEF u, v
<1>5. Len(u) = Len(v) /\ (Len(u) # 0 => a = b)
  BY <1>1, <1>2, <1>3, <1>4, TrimUnique
<1>6. IsText(u) /\ IsText(v)
  BY <1>3, <1>4 DEF TrimmedTo
<1>7. ASSUME NEW i \in 1..Len(u) PROVE Seen(u[i]) = Seen(v[i])
  <2>1. Len(u) \in Nat /\ Len(s) \in Nat /\ Len(u) # 0
    BY <1>1, <1>6, TextIs
  <2>2. u[i] = s[a + i] /\ v[i] = t[a + i]
    BY <1>3, <1>4, <1>5, <2>1 DEF TrimmedTo
  <2>3. a + i \in 1..Len(s)
    BY <1>3, <2>1 DEF TrimmedTo
  <2> QED
    BY <1>1, <2>2, <2>3
<1>8. Alike(u, v)
  BY <1>5, <1>6, <1>7 DEF Alike
<1> QED
  BY <1>8 DEF u, v

\* The dash is replaced everywhere; nothing else is.
LEMMA FixIs ==
    ASSUME NEW t, IsText(t)
    PROVE  /\ Alike(FixEditorEntities(t), t)
           /\ \A i \in 1..Len(t) : FixEditorEntities(t)[i] # "dash"
<1> DEFINE f == FixEditorEntities(t)  N == Len(t)
<1>1. N \in Nat /\ DOMAIN t = 1..N
  BY TextIs
<1>2. f = [i \in DOMAIN t |-> IF t[i] = "dash" THEN "&#8212;" ELSE t[i]]
  BY DEF FixEditorEntities, Each
<1> HIDE DEF f, N
<1>3. f = [i \in 1..N |-> f[i]] /\ \A i \in 1..N : f[i] = IF t[i] = "dash" THEN "&#8212;" ELSE t[i]
  BY <1>1, <1>2
<1>4. IsText(f) /\ Len(f) = N
  BY <1>1, <1>3, IsOne
<1>5. \A i \in 1..N : Seen(f[i]) = Seen(t[i]) /\ f[i] # "dash"
  BY <1>3 DEF Seen, CodeText
<1> QED
  BY <1>4, <1>5 DEF Alike, f, N

\* Texts of nothing forbidden that are alike when trimmed show the same.
LEMMA ShowAlike ==
    ASSUME NEW s, NEW t, IsText(s), IsText(t),
           \A i \in DOMAIN s : s[i] # "control", \A i \in DOMAIN t : t[i] # "control",
           Alike(Trim(s), Trim(t))
    PROVE  Shown(s) = Shown(t)
<1> DEFINE T(w) == Trim(FixEditorEntities(w))
<1>1. Escaped(s) = s /\ Escaped(t) = t
  BY EscapedSame
<1>2. Shown(s) = OneBlank(T(s)) /\ Shown(t) = OneBlank(T(t))
  BY <1>1 DEF Shown
<1>3. ASSUME NEW w, IsText(w)
      PROVE  Alike(T(w), Trim(w)) /\ \A i \in 1..Len(T(w)) : T(w)[i] # "dash"
  <2> DEFINE f == FixEditorEntities(w)  u == Trim(f)
  <2>1. Alike(f, w) /\ \A i \in 1..Len(w) : f[i] # "dash"
    BY <1>3, FixIs
  <2> HIDE DEF f
  <2>2. Alike(u, Trim(w))
    BY <2>1, TrimAlike
  <2>3. IsText(f) /\ Len(f) = Len(w)
    BY <2>1 DEF Alike
  <2>4. PICK off \in Nat : TrimmedTo(f, u, off)
    BY <2>3, TrimIs
  <2> HIDE DEF u
  <2>5. IsText(u) /\ off + Len(u) <= Len(f) /\ \A n \in 1..Len(u) : u[n] = f[off + n]
    BY <2>4 DEF TrimmedTo
  <2>6. Len(u) \in Nat /\ Len(f) \in Nat
    BY <2>3, <2>5, TextIs
  <2>7. \A n \in 1..Len(u) : off + n \in 1..Len(w)
    BY <2>3, <2>5, <2>6
  <2>8. \A n \in 1..Len(u) : u[n] # "dash"
    BY <2>1, <2>5, <2>7
  <2> QED
    BY <2>2, <2>8 DEF u, f
<1> HIDE DEF T
<1>4. /\ Alike(T(s), Trim(s)) /\ Alike(T(t), Trim(t))
      /\ \A i \in 1..Len(T(s)) : T(s)[i] # "dash"
      /\ \A i \in 1..Len(T(t)) : T(t)[i] # "dash"
  BY <1>3
<1>5. Alike(T(s), T(t))
  BY <1>4, AlikeIs
<1> DEFINE x == T(s)  y == T(t)
<1> HIDE DEF x, y
<1>6. IsText(x) /\ IsText(y) /\ Len(x) = Len(y) /\ \A i \in 1..Len(x) : Seen(x[i]) = Seen(y[i])
  BY <1>5 DEF Alike, x, y
<1>7. DOMAIN x = 1..Len(x) /\ DOMAIN y = 1..Len(x)
  BY <1>6, TextIs
<1>8. \A i \in 1..Len(x) : (IF x[i] \in CodeText THEN "<code>" ELSE x[i]) = (IF y[i] \in CodeText THEN "<code>" ELSE y[i])
  <2>1. \A p : p # "dash" => Seen(p) = IF p \in CodeText THEN "<code>" ELSE p
    BY DEF Seen
  <2>2. \A i \in 1..Len(x) : x[i] # "dash" /\ y[i] # "dash"
    BY <1>4, <1>6 DEF x, y
  <2> QED
    BY <1>6, <2>1, <2>2
<1>9. OneBlank(x) = OneBlank(y)
  BY <1>7, <1>8 DEF OneBlank, Each
<1> QED
  BY <1>2, <1>9 DEF x, y

\* A set of places is counted up.
LEMMA NthUp ==
    ASSUME NEW N \in Nat, NEW K \in SUBSET (1..N)
    PROVE  /\ \A m, n \in 1..Cardinality(K) : m < n => Nth(K, m) < Nth(K, n)
           /\ \A i \in K : \E n \in 1..Cardinality(K) : Nth(K, n) = i
<1> DEFINE a == Cardinality(K)
<1>1. /\ a \in Nat /\ (\A n \in 1..a : Nth(K, n) \in K /\ Rank(K, Nth(K, n)) = n)
      /\ (\A i \in K : Rank(K, i) \in 1..a)
      /\ (\A i, j \in K : i < j => Rank(K, i) < Rank(K, j))
  BY Ranks
<1> HIDE DEF a
<1>2. \A i \in K : i \in Nat
  OBVIOUS
<1>3. ASSUME NEW m \in 1..a, NEW n \in 1..a, m < n PROVE Nth(K, m) < Nth(K, n)
  <2> DEFINE i == Nth(K, m)  j == Nth(K, n)
  <2>1. i \in K /\ j \in K /\ Rank(K, i) = m /\ Rank(K, j) = n
    BY <1>1
  <2> HIDE DEF i, j
  <2>2. i \in Nat /\ j \in Nat
    BY <2>1, <1>2
  <2>3. ~(j < i) /\ i # j
    BY <2>1, <1>1, <1>3
  <2>4. i < j
    BY <2>2, <2>3
  <2> QED
    BY <2>4 DEF i, j
<1>4. ASSUME NEW i \in K PROVE \E n \in 1..a : Nth(K, n) = i
  <2> DEFINE n == Rank(K, i)  j == Nth(K, n)
  <2>1. n \in 1..a
    BY <1>1
  <2>2. j \in K /\ Rank(K, j) = n
    BY <2>1, <1>1
  <2> HIDE DEF j
  <2>3. i \in Nat /\ j \in Nat /\ Rank(K, i) = n
    BY <2>2, <1>2
  <2> HIDE DEF n
  <2>4. ~(i < j) /\ ~(j < i)
    BY <2>1, <2>2, <2>3, <1>1
  <2>5. i = j
    BY <2>3, <2>4
  <2> QED
    BY <2>1, <2>5 DEF j
<1> QED
  BY <1>3, <1>4 DEF a

\* What is left of two texts, one behind the other, is what is left of each.
LEMMA WithoutJoin ==
    ASSUME NEW s, NEW t, IsText(s), IsText(t), NEW D
    PROVE  Without(s \o t, D) = Without(s, D) \o Without(t, D)
<1> DEFINE M == Len(s)  N == Len(t)  w == s \o t
           K == {i \in DOMAIN s : s[i] \notin D}  L == {i \in DOMAIN t : t[i] \notin D}
           B == {i \in DOMAIN w : w[i] \notin D}
           a == Cardinality(K)  b == Cardinality(L)
           at == [n \in 1..(a + b) |-> IF n <= a THEN Nth(K, n) ELSE M + Nth(L, n - a)]
           p == Picked(w, B)  e == Without(s, D)  f == Without(t, D)
<1>1. M \in Nat /\ N \in Nat /\ DOMAIN s = 1..M /\ DOMAIN t = 1..N
  BY TextIs
<1>2. IsText(w) /\ Len(w) = M + N /\ (\A i \in 1..M : w[i] = s[i]) /\ \A i \in 1..N : w[M + i] = t[i]
  BY Joined
<1>3. Without(w, D) = p
  BY DEF Without
<1> HIDE DEF M, N, w
<1>4. DOMAIN w = 1..(M + N)
  BY <1>2, TextIs
<1>5. K \in SUBSET (1..M) /\ L \in SUBSET (1..N) /\ B \in SUBSET (1..(M + N))
  BY <1>1, <1>4
<1>6. (\A i \in 1..M : i \in K <=> i \in B) /\ \A i \in 1..N : i \in L <=> M + i \in B
  BY <1>1, <1>2, <1>4
<1>7. /\ e = [n \in 1..a |-> s[Nth(K, n)]]
      /\ f = [n \in 1..b |-> t[Nth(L, n)]]
  BY DEF Without, Picked, Nth, Rank
<1> HIDE DEF K, L, B
<1>8. /\ a \in Nat /\ (\A n \in 1..a : Nth(K, n) \in K /\ Rank(K, Nth(K, n)) = n)
      /\ (\A i \in K : Rank(K, i) \in 1..a)
      /\ (\A i, j \in K : i < j => Rank(K, i) < Rank(K, j))
  BY <1>1, <1>5, Ranks
<1>9. /\ b \in Nat /\ (\A n \in 1..b : Nth(L, n) \in L /\ Rank(L, Nth(L, n)) = n)
      /\ (\A i \in L : Rank(L, i) \in 1..b)
      /\ (\A i, j \in L : i < j => Rank(L, i) < Rank(L, j))
  BY <1>1, <1>5, Ranks
<1>10. /\ \A m, n \in 1..a : m < n => Nth(K, m) < Nth(K, n)
       /\ \A i \in K : \E n \in 1..a : Nth(K, n) = i
  BY <1>1, <1>5, NthUp
<1>11. /\ \A m, n \in 1..b : m < n => Nth(L, m) < Nth(L, n)
       /\ \A i \in L : \E n \in 1..b : Nth(L, n) = i
  BY <1>1, <1>5, NthUp
<1> HIDE DEF a, b, e, f
<1>12. \A n \in 1..(a + b) : at[n] = IF n <= a THEN Nth(K, n) ELSE M + Nth(L, n - a)
  OBVIOUS
<1>13. DOMAIN at = 1..(a + b) /\ at = [n \in 1..(a + b) |-> at[n]]
  OBVIOUS
<1> HIDE DEF at
<1>14. \A n \in 1..a : n \in 1..(a + b) /\ n <= a
  BY <1>8, <1>9
<1>15. ASSUME NEW n \in 1..(a + b), ~(n <= a) PROVE n - a \in 1..b /\ n = a + (n - a)
  BY <1>8, <1>9, <1>15
<1>16. ASSUME NEW n \in 1..b PROVE a + n \in 1..(a + b) /\ ~(a + n <= a) /\ a + n - a = n
  BY <1>8, <1>9
<1>17. \A n \in 1..a : at[n] = Nth(K, n) /\ at[n] \in K /\ at[n] \in 1..M
  BY <1>5, <1>8, <1>12, <1>14
<1>18. \A n \in 1..b : at[a + n] = M + Nth(L, n) /\ Nth(L, n) \in L /\ Nth(L, n) \in 1..N
  <2> TAKE n \in 1..b
  <2>1. Nth(L, n) \in L /\ Nth(L, n) \in 1..N
    BY <1>5, <1>9
  <2> DEFINE j == a + n
  <2>2. j \in 1..(a + b) /\ ~(j <= a) /\ j - a = n
    BY <1>8, <1>9
  <2> HIDE DEF j
  <2>3. at[j] = M + Nth(L, n)
    BY <2>2, <1>12
  <2> QED
    BY <2>1, <2>3 DEF j
<1>19. at \in [1..(a + b) -> B]
  <2>1. ASSUME NEW n \in 1..(a + b) PROVE at[n] \in B
    <3>1. CASE n <= a
      <4>1. n \in 1..a
        BY <3>1, <1>8, <1>9
      <4> QED
        BY <4>1, <1>6, <1>17
    <3>2. CASE ~(n <= a)
      <4>1. n - a \in 1..b /\ n = a + (n - a)
        BY <3>2, <1>15
      <4> DEFINE m == n - a
      <4> HIDE DEF m
      <4>2. m \in 1..b /\ n = a + m
        BY <4>1 DEF m
      <4> QED
        BY <4>2, <1>6, <1>18
    <3> QED
      BY <3>1, <3>2
  <2> QED
    BY <2>1, <1>13
<1>20. ASSUME NEW m \in 1..(a + b), NEW n \in 1..(a + b), m < n PROVE at[m] < at[n]
  <2>1. CASE n <= a
    <3>1. m \in 1..a /\ n \in 1..a
      BY <2>1, <1>20, <1>8, <1>9
    <3> QED
      BY <3>1, <1>20, <1>10, <1>17
  <2>2. CASE ~(n <= a) /\ m <= a
    <3> DEFINE l == n - a
    <3>1. m \in 1..a /\ l \in 1..b /\ n = a + l
      BY <2>2, <1>15, <1>8, <1>9
    <3> HIDE DEF l
    <3>2. at[m] \in 1..M /\ at[n] = M + Nth(L, l) /\ Nth(L, l) \in 1..N
      BY <3>1, <1>17, <1>18
    <3> QED
      BY <3>2, <1>1
  <2>3. CASE ~(n <= a) /\ ~(m <= a)
    <3> DEFINE k == m - a  l == n - a
    <3>1. k \in 1..b /\ m = a + k /\ l \in 1..b /\ n = a + l
      BY <2>3, <1>15, <1>8, <1>9
    <3>2. k < l
      BY <1>20, <1>8, <1>9
    <3> HIDE DEF k, l
    <3>3. at[m] = M + Nth(L, k) /\ at[n] = M + Nth(L, l) /\ Nth(L, k) < Nth(L, l)
          /\ Nth(L, k) \in 1..N /\ Nth(L, l) \in 1..N
      BY <3>1, <3>2, <1>11, <1>18
    <3> QED
      BY <3>3, <1>1
  <2> QED
    BY <2>1, <2>2, <2>3
<1>21. ASSUME NEW i \in B PROVE \E n \in 1..(a + b) : at[n] = i
  <2>1. CASE i \in 1..M
    <3>1. PICK n \in 1..a : Nth(K, n) = i
      BY <2>1, <1>6, <1>10
    <3> QED
      BY <3>1, <1>14, <1>17
  <2>2. CASE i \notin 1..M
    <3> DEFINE j == i - M
    <3>1. j \in 1..N /\ i = M + j
      <4>1. i \in 1..(M + N)
        BY <1>5
      <4> QED
        BY <4>1, <2>2, <1>1
    <3> HIDE DEF j
    <3>2. PICK n \in 1..b : Nth(L, n) = j
      BY <3>1, <1>6, <1>11
    <3> QED
      BY <3>1, <3>2, <1>16, <1>18
  <2> QED
    BY <2>1, <2>2
<1>22. Counts(at, a + b, B, M + N)
  <2>1. a + b \in Nat /\ M + N \in Nat
    BY <1>1, <1>8, <1>9
  <2> QED
    BY <2>1, <1>5, <1>19, <1>20, <1>21 DEF Counts
<1>23. IsText(p) /\ Len(p) = a + b /\ \A n \in 1..(a + b) : p[n] = w[at[n]]
  BY <1>22, PickedIs
<1>24. e = [n \in 1..a |-> e[n]] /\ (\A n \in 1..a : e[n] = s[Nth(K, n)])
       /\ f = [n \in 1..b |-> f[n]] /\ \A n \in 1..b : f[n] = t[Nth(L, n)]
  BY <1>7
<1>25. IsText(e) /\ Len(e) = a /\ IsText(f) /\ Len(f) = b
  BY <1>24, <1>8, <1>9, IsOne
<1> DEFINE g == e \o f
<1>26. IsText(g) /\ Len(g) = a + b /\ (\A n \in 1..a : g[n] = e[n]) /\ \A n \in 1..b : g[a + n] = f[n]
  <2>1. IsText(g) /\ Len(g) = Len(e) + Len(f) /\ (\A n \in 1..Len(e) : g[n] = e[n])
        /\ \A n \in 1..Len(f) : g[Len(e) + n] = f[n]
    <3>1. IsText(e) /\ IsText(f)
      BY <1>25
    <3> QED
      BY <3>1, Joined
  <2> QED
    BY <2>1, <1>25
<1> HIDE DEF p, g
<1>27. ASSUME NEW n \in 1..(a + b) PROVE p[n] = g[n]
  <2>1. CASE n <= a
    <3>1. n \in 1..a
      BY <2>1, <1>8, <1>9
    <3> QED
      BY <3>1, <1>2, <1>17, <1>23, <1>24, <1>26
  <2>2. CASE ~(n <= a)
    <3> DEFINE m == n - a
    <3>1. m \in 1..b /\ n = a + m
      BY <2>2, <1>15
    <3> HIDE DEF m
    <3>2. p[n] = w[M + Nth(L, m)] /\ g[n] = t[Nth(L, m)]
      BY <3>1, <1>18, <1>23, <1>24, <1>26
    <3> QED
      BY <3>1, <3>2, <1>2, <1>18
  <2> QED
    BY <2>1, <2>2
<1>28. p = g
  BY <1>23, <1>26, <1>27, SameText
<1> QED
  BY <1>3, <1>28 DEF w, g, e, f

\* Nor does it matter whether some go first and others then, or all at once.
LEMMA WithoutBoth ==
    ASSUME NEW t, IsText(t), NEW A, NEW B
    PROVE  Without(Without(t, A), B) = Without(t, A \union B)
<1> DEFINE N == Len(t)  K == {i \in DOMAIN t : t[i] \notin A}  m == Cardinality(K)  w == Without(t, A)
           L == {n \in DOMAIN w : w[n] \notin B}  l == Cardinality(L)
           C == {i \in DOMAIN t : t[i] \notin A \union B}
           at == [n \in 1..l |-> Nth(K, Nth(L, n))]  p == Picked(t, C)  q == Picked(w, L)
<1>1. N \in Nat /\ DOMAIN t = 1..N
  BY TextIs
<1>2. w = [n \in 1..m |-> t[Nth(K, n)]]
  BY DEF Without, Picked, Nth, Rank
<1>3. q = [n \in 1..l |-> w[Nth(L, n)]]
  BY DEF Picked, Nth, Rank
<1>4. Without(w, B) = q /\ Without(t, A \union B) = p
  BY DEF Without
<1> HIDE DEF N, w, q, p
<1>5. K \in SUBSET (1..N) /\ \A i \in 1..N : i \in K <=> t[i] \notin A
  BY <1>1
<1>6. C \in SUBSET (1..N) /\ \A i \in 1..N : i \in C <=> t[i] \notin A \union B
  BY <1>1
<1>7. DOMAIN w = 1..m /\ \A n \in 1..m : w[n] = t[Nth(K, n)]
  BY <1>2
<1>8. L \in SUBSET (1..m) /\ \A n \in 1..m : n \in L <=> w[n] \notin B
  BY <1>7
<1> HIDE DEF K, L, C
<1>9. m \in Nat /\ \A n \in 1..m : Nth(K, n) \in K
  BY <1>1, <1>5, Ranks
<1>10. /\ \A i, j \in 1..m : i < j => Nth(K, i) < Nth(K, j)
       /\ \A i \in K : \E n \in 1..m : Nth(K, n) = i
  BY <1>1, <1>5, NthUp
<1> HIDE DEF m
<1>11. l \in Nat /\ \A n \in 1..l : Nth(L, n) \in L
  BY <1>8, <1>9, Ranks
<1>12. /\ \A i, j \in 1..l : i < j => Nth(L, i) < Nth(L, j)
       /\ \A i \in L : \E n \in 1..l : Nth(L, n) = i
  BY <1>8, <1>9, NthUp
<1> HIDE DEF l
<1>13. at = [n \in 1..l |-> at[n]] /\ \A n \in 1..l : at[n] = Nth(K, Nth(L, n))
  OBVIOUS
<1> HIDE DEF at
<1>14. ASSUME NEW n \in 1..l PROVE Nth(L, n) \in 1..m /\ at[n] \in C /\ q[n] = t[at[n]]
  <2>1. Nth(L, n) \in L /\ Nth(L, n) \in 1..m
    BY <1>8, <1>11
  <2>2. Nth(K, Nth(L, n)) \in K /\ at[n] = Nth(K, Nth(L, n)) /\ w[Nth(L, n)] = t[at[n]]
    BY <2>1, <1>7, <1>9, <1>13
  <2>3. at[n] \in 1..N /\ t[at[n]] \notin A
    BY <2>2, <1>5
  <2>4. t[at[n]] \notin B
    BY <2>1, <2>2, <1>8
  <2>5. q[n] = w[Nth(L, n)]
    BY <1>3
  <2> QED
    BY <2>1, <2>2, <2>3, <2>4, <2>5, <1>6
<1>15. at \in [1..l -> C]
  BY <1>13, <1>14
<1>16. \A i, j \in 1..l : i < j => at[i] < at[j]
  BY <1>10, <1>12, <1>13, <1>14
<1>17. ASSUME NEW i \in C PROVE \E n \in 1..l : at[n] = i
  <2>1. i \in 1..N /\ i \in K /\ t[i] \notin B
    BY <1>5, <1>6
  <2>2. PICK k \in 1..m : Nth(K, k) = i
    BY <2>1, <1>10
  <2>3. k \in L
    BY <2>1, <2>2, <1>7, <1>8
  <2>4. PICK n \in 1..l : Nth(L, n) = k
    BY <2>3, <1>12
  <2> QED
    BY <2>2, <2>4, <1>13
<1>18. IsText(p) /\ Len(p) = l /\ \A n \in 1..l : p[n] = t[at[n]]
  <2>1. Counts(at, l, C, N)
    BY <1>1, <1>6, <1>11, <1>15, <1>16, <1>17 DEF Counts
  <2> QED
    BY <2>1, PickedIs DEF p
<1>19. q = [n \in 1..l |-> q[n]] /\ \A n \in 1..l : q[n] = p[n]
  BY <1>3, <1>14, <1>18
<1>20. IsText(q) /\ Len(q) = l
  BY <1>11, <1>19, IsOne
<1>21. q = p
  BY <1>18, <1>19, <1>20, SameText
<1> QED
  BY <1>4, <1>21 DEF w

\* What a rich-text client is shown, and what it sends, for a piece.
Shows(p) == CASE p = "<more/>" -> "<p>&lt;more/&gt;</p>"
              [] p = "<textblock a>" -> "<p>&lt;textblock a&gt;</p>"
              [] p \in CodeText -> ConvertTextToHTML(p)
              [] OTHER -> InBrackets(p)
TakenBack(p) == CASE p \in CodeOut -> ConvertHTMLToText(p)
                  [] p \in MoreOut -> "<more/>"
                  [] p \in TextblockOut -> "<textblock a>"
                  [] OTHER -> OutOfBrackets(p)
ShowsAll(t) == [i \in DOMAIN t |-> Shows(t[i])]

\* All are written out, and come back, piece by piece.
LEMMA PieceByPiece ==
    ASSUME NEW t, IsText(t)
    PROVE  /\ IsText(ShowsAll(t)) /\ Len(ShowsAll(t)) = Len(t)
           /\ \A i \in 1..Len(t) : ShowsAll(t)[i] = Shows(t[i])
           /\ IsText(UnescapeMarkup(t)) /\ Len(UnescapeMarkup(t)) = Len(t)
           /\ \A i \in 1..Len(t) : UnescapeMarkup(t)[i] = TakenBack(TextblocksIn(CodeIn(t))[i])
<1> DEFINE N == Len(t)  e == ShowsAll(t)  u == UnescapeMarkup(t)  c == CodeIn(t)  w == TextblocksIn(c)
<1>1. N \in Nat /\ DOMAIN t = 1..N
  BY TextIs
<1>2. e = [i \in DOMAIN t |-> Shows(t[i])]
  BY DEF ShowsAll
<1>3. DOMAIN c = DOMAIN t
  BY DEF CodeIn
<1> HIDE DEF c
<1>4. DOMAIN w = DOMAIN c
  BY DEF TextblocksIn
<1>5. u = [i \in DOMAIN w |-> TakenBack(w[i])]
  BY DEF UnescapeMarkup, Each, TakenBack, w, c
<1> HIDE DEF N, e, u, w
<1>6. e = [i \in 1..N |-> e[i]] /\ \A i \in 1..N : e[i] = Shows(t[i])
  BY <1>1, <1>2
<1>7. u = [i \in 1..N |-> u[i]] /\ \A i \in 1..N : u[i] = TakenBack(w[i])
  BY <1>1, <1>3, <1>4, <1>5
<1> QED
  BY <1>1, <1>6, <1>7, IsOne DEF N, e, u, w, c

\* What goes into brackets, and which it is.
LEMMA Brackets ==
    /\ ByAuthor = {"&lt;code&gt;...", "&lt;code  &gt;...", "&lt;more/&gt;", "<p>&lt;more/&gt;</p>",
                   "&lt;textblock a&gt;", "<p>&lt;textblock a&gt;</p>"}
    /\ Bracketed = {"&lt;[code]&gt;...", "&lt;[code]  &gt;...", "&lt;[more/]&gt;", "<p>&lt;[more/]&gt;</p>",
                    "&lt;[textblock a]&gt;", "<p>&lt;[textblock a]&gt;</p>"}
    /\ \A p : p \notin ByAuthor => InBrackets(p) = p
    /\ \A p \in ByAuthor : InBrackets(p) \in Bracketed /\ OutOfBrackets(InBrackets(p)) = p
<1>1. ByAuthor = {"&lt;code&gt;...", "&lt;code  &gt;...", "&lt;more/&gt;", "<p>&lt;more/&gt;</p>",
                  "&lt;textblock a&gt;", "<p>&lt;textblock a&gt;</p>"}
  BY DEF ByAuthor, CodeOut, MoreOut, TextblockOut
<1>2. /\ InBrackets("&lt;code&gt;...") = "&lt;[code]&gt;..." /\ InBrackets("&lt;code  &gt;...") = "&lt;[code]  &gt;..."
      /\ InBrackets("&lt;more/&gt;") = "&lt;[more/]&gt;" /\ InBrackets("<p>&lt;more/&gt;</p>") = "<p>&lt;[more/]&gt;</p>"
      /\ InBrackets("&lt;textblock a&gt;") = "&lt;[textblock a]&gt;"
      /\ InBrackets("<p>&lt;textblock a&gt;</p>") = "<p>&lt;[textblock a]&gt;</p>"
  BY DEF InBrackets
<1>3. Bracketed = {"&lt;[code]&gt;...", "&lt;[code]  &gt;...", "&lt;[more/]&gt;", "<p>&lt;[more/]&gt;</p>",
                   "&lt;[textblock a]&gt;", "<p>&lt;[textblock a]&gt;</p>"}
  BY <1>1, <1>2 DEF Bracketed
<1>4. \A p : p \notin ByAuthor => InBrackets(p) = p
  BY <1>1 DEF InBrackets
<1>5. \A p, q \in ByAuthor : InBrackets(p) = InBrackets(q) => p = q
  BY <1>1, <1>2
<1>6. ASSUME NEW p \in ByAuthor PROVE InBrackets(p) \in Bracketed /\ OutOfBrackets(InBrackets(p)) = p
  <2> DEFINE r == InBrackets(p)
  <2>1. r \in Bracketed
    BY DEF Bracketed
  <2>2. OutOfBrackets(r) = CHOOSE q \in ByAuthor : InBrackets(q) = r
    BY <2>1 DEF OutOfBrackets
  <2>3. \A q \in ByAuthor : InBrackets(q) = r <=> q = p
    BY <1>5
  <2> HIDE DEF r
  <2>4. (CHOOSE q \in ByAuthor : InBrackets(q) = r) = p
    BY <2>3
  <2> QED
    BY <2>1, <2>2, <2>4 DEF r
<1> QED
  BY <1>1, <1>3, <1>4, <1>6

\* There and back a piece shows the same, is a tag if it was one, and nothing forbidden;
\* and what a client is shown tells what there is.
LEMMA ThereAndBack ==
    \A p : /\ Shows(p) = "control" <=> p = "control"
           /\ p \notin Bracketed \union {"torn"} =>
                /\ Seen(TakenBack(Shows(p))) = Seen(p)
                /\ TakenBack(Shows(p)) = "<more/>" <=> p = "<more/>"
                /\ Shows(p) \in CodeOut <=> p \in CodeText
                /\ Shows(p) \in {InBrackets(q) : q \in CodeOut} <=> p \in CodeOut
                /\ Shows(p) \in TextblockOut <=> p = "<textblock a>"
                /\ Shows(p) \in EndsTag <=> p \in {"<textblock a>", "&gt;"}
                /\ Shows(p) \in Bracketed \union {"torn"} <=> p \in ByAuthor
<1> TAKE p
<1> DEFINE CB == {InBrackets(q) : q \in CodeOut}
<1>1. CB = {"&lt;[code]&gt;...", "&lt;[code]  &gt;..."}
  BY DEF CodeOut, InBrackets
<1>2. /\ CodeOut = {"&lt;code&gt;...", "&lt;code  &gt;..."} /\ MoreOut = {"&lt;more/&gt;", "<p>&lt;more/&gt;</p>"}
      /\ TextblockOut = {"&lt;textblock a&gt;", "<p>&lt;textblock a&gt;</p>"}
      /\ EndsTag = {"&lt;textblock a&gt;", "<p>&lt;textblock a&gt;</p>", "&gt;"}
      /\ CodeText = {"<code>", "<code  >"}
  BY DEF CodeOut, MoreOut, TextblockOut, EndsTag, CodeText
<1> HIDE DEF CB
<1>3. \A q : q \notin CodeOut \union MoreOut \union TextblockOut => TakenBack(q) = OutOfBrackets(q)
  BY DEF TakenBack
<1>4. \A q : q \notin Bracketed => OutOfBrackets(q) = q
  BY DEF OutOfBrackets
<1>5. CASE p = "<more/>"
  <2>1. Shows(p) = "<p>&lt;more/&gt;</p>"
    BY <1>2, <1>5 DEF Shows
  <2>2. TakenBack(Shows(p)) = "<more/>"
    BY <2>1, <1>2 DEF TakenBack
  <2> QED
    BY <2>1, <2>2, <1>1, <1>2, <1>5, Brackets DEF CB, Seen
<1>6. CASE p = "<textblock a>"
  <2>1. Shows(p) = "<p>&lt;textblock a&gt;</p>"
    BY <1>6, <1>2 DEF Shows
  <2>2. TakenBack(Shows(p)) = "<textblock a>"
    BY <2>1, <1>2 DEF TakenBack
  <2> QED
    BY <2>1, <2>2, <1>1, <1>2, <1>6, Brackets DEF CB, Seen
<1>7. CASE p \in CodeText
  <2>1. Shows(p) = ConvertTextToHTML(p)
    BY <1>7, <1>2 DEF Shows
  <2>2. Shows(p) \in CodeOut
    BY <2>1, <1>2, <1>7 DEF ConvertTextToHTML
  <2>3. TakenBack(Shows(p)) = "<code>"
    <3>1. \A q \in CodeOut : TakenBack(q) = "<code>"
      BY <1>2 DEF TakenBack, ConvertHTMLToText
    <3> QED
      BY <2>2, <3>1
  <2>4. Seen("<code>") = Seen(p) /\ p # "control" /\ p # "<more/>" /\ "<code>" # "<more/>"
    BY <1>7, <1>2 DEF Seen
  <2> HIDE DEF Shows
  <2>5. /\ Shows(p) # "control" /\ Shows(p) \notin CB /\ Shows(p) \notin TextblockOut /\ Shows(p) \notin EndsTag
        /\ Shows(p) \notin Bracketed \union {"torn"}
    BY <2>2, <1>1, <1>2, Brackets
  <2>6. p \notin CodeOut /\ p \notin {"<textblock a>", "&gt;"} /\ p \notin ByAuthor
    BY <1>7, <1>2, Brackets
  <2> QED
    BY <2>2, <2>3, <2>4, <2>5, <2>6, <1>7 DEF CB
<1>8. CASE p \in ByAuthor
  <2>1. p \notin CodeText /\ p # "<more/>" /\ p # "<textblock a>" /\ p # "control" /\ p # "&gt;"
    BY <1>8, <1>2, Brackets
  <2>2. Shows(p) = InBrackets(p)
    BY <2>1 DEF Shows
  <2>3. InBrackets(p) \in Bracketed /\ OutOfBrackets(InBrackets(p)) = p
    BY <1>8, Brackets
  <2>4. \A q \in Bracketed : /\ q \notin CodeOut \union MoreOut \union TextblockOut /\ q \notin EndsTag /\ q # "control"
    BY <1>2, Brackets
  <2>5. TakenBack(Shows(p)) = p
    BY <2>2, <2>3, <2>4, <1>3
  <2>6. Shows(p) \in CB <=> p \in CodeOut
    <3>1. p \in CodeOut => Shows(p) \in CB
      BY <2>2 DEF CB
    <3>2. ASSUME Shows(p) \in CB PROVE p \in CodeOut
      <4>1. PICK q \in CodeOut : InBrackets(p) = InBrackets(q)
        BY <2>2, <3>2 DEF CB
      <4>2. OutOfBrackets(InBrackets(q)) = q
        BY <4>1, <1>2, Brackets
      <4> QED
        BY <2>3, <4>1, <4>2
    <3> QED
      BY <3>1, <3>2
  <2> QED
    BY <2>1, <2>2, <2>3, <2>4, <2>5, <2>6, <1>8 DEF CB
<1>9. CASE p \notin CodeText \union ByAuthor \union {"<more/>", "<textblock a>"}
  <2>1. Shows(p) = p
    BY <1>9, Brackets DEF Shows
  <2>2. p \notin CodeOut \union MoreOut \union TextblockOut
    BY <1>9 DEF ByAuthor
  <2>3. p \notin Bracketed => TakenBack(p) = p
    BY <2>2, <1>3, <1>4
  <2>4. p \notin Bracketed => p \notin CB
    BY <1>1, Brackets
  <2>5. p \in EndsTag <=> p \in {"<textblock a>", "&gt;"}
    BY <2>2, <1>9 DEF EndsTag
  <2> QED
    BY <2>1, <2>2, <2>3, <2>4, <2>5, <1>9 DEF CB
<1> QED
  BY <1>5, <1>6, <1>7, <1>8, <1>9

\* What is not spoiled is taken back piece by piece.
LEMMA NothingSpoiled ==
    ASSUME NEW d, IsText(d), ~Spoiled(d)
    PROVE  /\ IsText(UnescapeMarkup(ShowsAll(d))) /\ Len(UnescapeMarkup(ShowsAll(d))) = Len(d)
           /\ \A i \in 1..Len(d) : /\ d[i] \notin Bracketed \union {"torn"}
                                   /\ UnescapeMarkup(ShowsAll(d))[i] = TakenBack(Shows(d[i]))
<1> DEFINE e == ShowsAll(d)  y == UnescapeMarkup(e)  N == Len(d)
<1>1. IsText(e) /\ Len(e) = N /\ \A i \in 1..N : e[i] = Shows(d[i])
  BY PieceByPiece
<1> HIDE DEF e
<1>2. N \in Nat /\ DOMAIN d = 1..N /\ DOMAIN e = 1..N
  BY <1>1, TextIs
<1> HIDE DEF N
<1>3. \A i \in 1..N : d[i] \notin Bracketed \union {"torn"}
  BY <1>2 DEF Spoiled
<1>4. \A k, l \in 1..N : k < l => ~(d[k] \in CodeText /\ d[l] \in CodeOut)
  BY <1>2 DEF Spoiled
<1>5. \A k, l \in 1..N : k < l /\ d[k] = "<textblock a>" /\ d[l] \in {"<textblock a>", "&gt;"} =>
                           \E j \in k..l : d[j] \in ByAuthor
  BY <1>2 DEF Spoiled
<1>6. \A i \in 1..N : /\ e[i] \in CodeOut <=> d[i] \in CodeText
                      /\ e[i] \in {InBrackets(q) : q \in CodeOut} <=> d[i] \in CodeOut
                      /\ e[i] \in TextblockOut <=> d[i] = "<textblock a>"
                      /\ e[i] \in EndsTag <=> d[i] \in {"<textblock a>", "&gt;"}
                      /\ e[i] \in Bracketed \union {"torn"} <=> d[i] \in ByAuthor
  <2> TAKE i \in 1..N
  <2> DEFINE p == d[i]
  <2>1. e[i] = Shows(p) /\ p \notin Bracketed \union {"torn"}
    BY <1>1, <1>3
  <2> HIDE DEF p
  <2>2. /\ Shows(p) \in CodeOut <=> p \in CodeText
        /\ Shows(p) \in {InBrackets(q) : q \in CodeOut} <=> p \in CodeOut
        /\ Shows(p) \in TextblockOut <=> p = "<textblock a>"
        /\ Shows(p) \in EndsTag <=> p \in {"<textblock a>", "&gt;"}
        /\ Shows(p) \in Bracketed \union {"torn"} <=> p \in ByAuthor
    BY <2>1, ThereAndBack, Zenon
  <2> QED
    BY <2>1, <2>2, Zenon DEF p
<1>7. ASSUME NEW i \in 1..N PROVE ~Swallowed(e, i)
  <2> SUFFICES ASSUME Swallowed(e, i) PROVE FALSE
    OBVIOUS
  <2>1. PICK k \in 1..N, l \in 1..N : /\ k <= i /\ i <= l
                                      /\ e[k] \in CodeOut /\ e[l] \in {InBrackets(p) : p \in CodeOut}
    BY <1>2 DEF Swallowed
  <2>2. d[k] \in CodeText /\ d[l] \in CodeOut
    BY <2>1, <1>6
  <2>3. k # l
    BY <2>2 DEF CodeText, CodeOut
  <2>4. k < l
    BY <2>1, <2>3
  <2> QED
    BY <2>2, <2>4, <1>4
<1>8. CodeIn(e) = e
  <2>1. CodeIn(e) = [i \in DOMAIN e |-> e[i]]
    BY <1>2, <1>7 DEF CodeIn
  <2>2. e = [i \in 1..N |-> e[i]]
    BY <1>1, TextIs
  <2> QED
    BY <2>1, <2>2, <1>2
<1>9. ASSUME NEW i \in 1..N PROVE ~InLabel(e, i)
  <2> SUFFICES ASSUME InLabel(e, i) PROVE FALSE
    OBVIOUS
  <2>1. PICK k \in 1..N, l \in 1..N : /\ k < l /\ e[k] \in TextblockOut /\ e[l] \in EndsTag
                                      /\ \A j \in k..l : e[j] \notin Bracketed \union {"torn"}
    BY <1>2 DEF InLabel
  <2>2. PICK j \in k..l : d[j] \in ByAuthor
    BY <2>1, <1>5, <1>6
  <2>3. j \in 1..N
    BY <1>2, <2>2
  <2> QED
    BY <2>1, <2>2, <2>3, <1>6
<1>10. TextblocksIn(e) = e
  <2>1. TextblocksIn(e) = [i \in DOMAIN e |-> e[i]]
    BY <1>2, <1>9 DEF TextblocksIn
  <2>2. e = [i \in 1..N |-> e[i]]
    BY <1>1, TextIs
  <2> QED
    BY <2>1, <2>2, <1>2
<1>11. IsText(y) /\ Len(y) = N /\ \A i \in 1..N : y[i] = TakenBack(e[i])
  BY <1>1, <1>8, <1>10, PieceByPiece
<1> QED
  BY <1>1, <1>3, <1>11 DEF y, e, N

\* What is forbidden is dropped before the tags are written out or after.
LEMMA EscapedShows ==
    ASSUME NEW t, IsText(t)
    PROVE  Escaped(ShowsAll(t)) = ShowsAll(Escaped(t))
<1> DEFINE e == ShowsAll(t)  K == {i \in DOMAIN t : t[i] \notin {"control"}}  L == {i \in DOMAIN e : e[i] \notin {"control"}}
           d == Escaped(t)
<1>1. IsText(e) /\ Len(e) = Len(t) /\ \A i \in 1..Len(t) : e[i] = Shows(t[i])
  BY PieceByPiece
<1>2. DOMAIN t = 1..Len(t) /\ DOMAIN e = 1..Len(t) /\ Len(t) \in Nat
  BY <1>1, TextIs
<1>3. K = L
  <2>1. \A p : Shows(p) = "control" <=> p = "control"
    BY ThereAndBack, Zenon
  <2> QED
    BY <1>1, <1>2, <2>1
<1>4. Escaped(e) = Picked(e, L) /\ d = Picked(t, K)
  BY DEF Escaped, Without
<1> DEFINE m == Cardinality(K)
<1>5. K \in SUBSET (1..Len(t))
  BY <1>2
<1> HIDE DEF K, L, e
<1>6. m \in Nat /\ \A n \in 1..m : Nth(K, n) \in 1..Len(t)
  BY <1>2, <1>5, Ranks
<1>7. Escaped(e) = [n \in 1..m |-> e[Nth(K, n)]] /\ d = [n \in 1..m |-> t[Nth(K, n)]]
  BY <1>3, <1>4 DEF Picked, Nth, Rank
<1> HIDE DEF d, m
<1>8. d = [n \in 1..m |-> d[n]] /\ \A n \in 1..m : d[n] = t[Nth(K, n)]
  BY <1>7
<1>9. IsText(d) /\ Len(d) = m
  BY <1>6, <1>8, IsOne
<1> DEFINE f == ShowsAll(d)
<1>10. IsText(f) /\ Len(f) = m /\ \A n \in 1..m : f[n] = Shows(d[n])
  BY <1>9, PieceByPiece
<1> HIDE DEF f
<1>11. f = [n \in 1..m |-> f[n]]
  BY <1>10, TextIs
<1>12. \A n \in 1..m : f[n] = e[Nth(K, n)]
  BY <1>1, <1>6, <1>8, <1>10
<1>13. Escaped(e) = f
  BY <1>7, <1>11, <1>12
<1> QED
  BY <1>13 DEF e, f, d

\* What the toggle leaves of a text is one, of what it was; and it is all of it that is
\* written out.
LEMMA LeftIs ==
    ASSUME NEW t, IsText(t), NEW marked
    PROVE  /\ IsText(Left(t, marked)) /\ ToSet(Left(t, marked)) \subseteq ToSet(t)
           /\ EscapeMarkup(t) = ShowsAll(Left(t, TRUE))
<1>1. IsText(Without(t, {"<code></code>"})) /\ ToSet(Without(t, {"<code></code>"})) \subseteq ToSet(t)
  BY WithoutIs
<1>2. EscapeMarkup(t) = ShowsAll(Left(t, TRUE))
  BY DEF EscapeMarkup, Each, ShowsAll, Shows, Left
<1> QED
  BY <1>1, <1>2 DEF Left

\* What is trimmed was there.
LEMMA TrimKeeps ==
    ASSUME NEW t, IsText(t)
    PROVE  \A i \in DOMAIN Trim(t) : \E j \in DOMAIN t : Trim(t)[i] = t[j]
<1> DEFINE u == Trim(t)
<1>1. PICK off \in Nat : TrimmedTo(t, u, off)
  BY TrimIs
<1> HIDE DEF u
<1>2. IsText(u) /\ off + Len(u) <= Len(t) /\ \A n \in 1..Len(u) : u[n] = t[off + n]
  BY <1>1 DEF TrimmedTo
<1>3. Len(u) \in Nat /\ DOMAIN u = 1..Len(u) /\ Len(t) \in Nat /\ DOMAIN t = 1..Len(t)
  BY <1>2, TextIs
<1>4. \A n \in 1..Len(u) : off + n \in DOMAIN t
  BY <1>2, <1>3
<1>5. \A i \in DOMAIN u : \E j \in DOMAIN t : u[i] = t[j]
  BY <1>2, <1>3, <1>4
<1> QED
  BY <1>5 DEF u

\* A text that has no tag, or starts with one, stays whole.
LEMMA StaysWhole ==
    ASSUME NEW t, IsText(t), \A i \in DOMAIN t : t[i] = "<more/>" => t[1] = "<more/>"
    PROVE  SplitMore(t) = [body |-> t, more |-> <<>>]
<1> DEFINE cuts == {i \in DOMAIN t : t[i] = "<more/>"}
<1>1. DOMAIN t = 1..Len(t) /\ Len(t) \in Nat
  BY TextIs
<1>2. cuts # {} => 1 \in cuts
  BY <1>1
<1>3. cuts \in SUBSET Nat /\ \A i \in cuts : i >= 1
  BY <1>1
<1> HIDE DEF cuts
<1>4. cuts # {} => Min(cuts) \in cuts /\ \A i \in cuts : Min(cuts) <= i
  BY <1>3, MinOf
<1>5. cuts # {} => Min(cuts) = 1
  <2> SUFFICES ASSUME cuts # {} PROVE Min(cuts) = 1
    OBVIOUS
  <2> DEFINE k == Min(cuts)
  <2>1. k \in cuts /\ k <= 1
    BY <1>2, <1>4
  <2> HIDE DEF k
  <2>2. k \in Nat /\ k >= 1
    BY <2>1, <1>3
  <2>3. k = 1
    BY <2>1, <2>2
  <2> QED
    BY <2>3 DEF k
<1> QED
  BY <1>5 DEF SplitMore, cuts

\* Behind something the first tag is where a text is cut.
LEMMA IsCut ==
    ASSUME NEW t, IsText(t), NEW n \in 1..Len(t), n # 1, t[n] = "<more/>",
           \A i \in 1..(n - 1) : t[i] # "<more/>" /\ t[i] # "Kelvin"
    PROVE  SplitMore(t) = [body |-> Trim(SubSeq(t, 1, n - 1)), more |-> Trim(SubSeq(t, n + 1, Len(t)))]
<1> DEFINE cuts == {i \in DOMAIN t : t[i] = "<more/>"}
<1>1. DOMAIN t = 1..Len(t) /\ Len(t) \in Nat
  BY TextIs
<1>2. n \in cuts /\ cuts \in SUBSET Nat
  BY <1>1
<1>3. \A i \in cuts : ~(i < n)
  BY <1>1
<1> HIDE DEF cuts
<1>4. Min(cuts) \in cuts /\ Min(cuts) <= n
  BY <1>2, MinOf
<1>5. Min(cuts) = n
  <2> DEFINE k == Min(cuts)
  <2>1. k \in cuts /\ k <= n
    BY <1>4
  <2> HIDE DEF k
  <2>2. k \in Nat /\ ~(k < n) /\ n \in Nat
    BY <2>1, <1>1, <1>2, <1>3
  <2>3. k = n
    BY <2>1, <2>2
  <2> QED
    BY <2>3 DEF k
<1> QED
  BY <1>2, <1>5 DEF SplitMore, cuts

\* Where a tag stands in the first half, it stands at the start.
TagFirst(e) ==
    LET body == Escaped(e.body) IN \A i \in DOMAIN body : body[i] = "<more/>" => body[1] = "<more/>"

\* What a client sends back of a text, from what it was sent.
Returned(t, marked) ==
    LET sent == Escaped(IF marked THEN EscapeMarkup(t) ELSE t)
    IN FixEditorEntities(IF marked THEN UnescapeMarkup(sent) ELSE sent)

\* It is alike, with tags where there were.
LEMMA ReturnedAlike ==
    ASSUME NEW t, IsText(t), NEW marked \in BOOLEAN, marked => ~Spoiled(Escaped(Left(t, TRUE)))
    PROVE  LET left == Escaped(Left(t, marked)) IN
           /\ Alike(Returned(t, marked), left)
           /\ \A i \in 1..Len(left) : Returned(t, marked)[i] = "<more/>" <=> left[i] = "<more/>"
<1> DEFINE l == Left(t, marked)  d == Escaped(l)  x == IF marked THEN UnescapeMarkup(ShowsAll(d)) ELSE d
           r == Returned(t, marked)
<1>1. IsText(l) /\ EscapeMarkup(t) = ShowsAll(Left(t, TRUE))
  BY LeftIs
<1>2. r = FixEditorEntities(x)
  <2>1. CASE marked
    <3>1. l = Left(t, TRUE)
      BY <2>1
    <3> HIDE DEF l
    <3>2. Escaped(EscapeMarkup(t)) = ShowsAll(d)
      BY <1>1, <3>1, EscapedShows
    <3> QED
      BY <2>1, <3>2 DEF Returned
  <2>2. CASE ~marked
    BY <2>2 DEF Returned, Left
  <2> QED
    BY <2>1, <2>2
<1>3. marked => ~Spoiled(d)
  OBVIOUS
<1> HIDE DEF l
<1>4. IsText(d)
  BY <1>1, EscapedIs
<1> HIDE DEF d
<1>5. IsText(x) /\ Len(x) = Len(d)
      /\ \A i \in 1..Len(d) : Seen(x[i]) = Seen(d[i]) /\ (x[i] = "<more/>" <=> d[i] = "<more/>")
  <2>1. CASE ~marked
    BY <2>1, <1>4
  <2>2. CASE marked
    <3> DEFINE y == UnescapeMarkup(ShowsAll(d))
    <3>1. /\ IsText(y) /\ Len(y) = Len(d)
          /\ \A i \in 1..Len(d) : d[i] \notin Bracketed \union {"torn"} /\ y[i] = TakenBack(Shows(d[i]))
      BY <2>2, <1>3, <1>4, NothingSpoiled
    <3>2. x = y
      BY <2>2
    <3> HIDE DEF y, x
    <3>3. \A p : p \notin Bracketed \union {"torn"} =>
                   Seen(TakenBack(Shows(p))) = Seen(p) /\ (TakenBack(Shows(p)) = "<more/>" <=> p = "<more/>")
      BY ThereAndBack, Zenon
    <3>4. \A i \in 1..Len(d) : Seen(y[i]) = Seen(d[i]) /\ (y[i] = "<more/>" <=> d[i] = "<more/>")
      BY <3>1, <3>3, Zenon
    <3> QED
      BY <3>1, <3>2, <3>4
  <2> QED
    BY <2>1, <2>2
<1> HIDE DEF x
<1>6. Alike(x, d)
  BY <1>4, <1>5 DEF Alike
<1> DEFINE f == FixEditorEntities(x)
<1>7. Alike(f, x)
  BY <1>5, FixIs
<1>8. \A i \in 1..Len(x) : f[i] = "<more/>" <=> x[i] = "<more/>"
  <2>1. DOMAIN x = 1..Len(x)
    BY <1>5, TextIs
  <2>2. f = [i \in 1..Len(x) |-> IF x[i] = "dash" THEN "&#8212;" ELSE x[i]]
    BY <2>1 DEF FixEditorEntities, Each
  <2> HIDE DEF f
  <2> QED
    BY <2>2
<1> HIDE DEF f
<1>9. Alike(f, d) /\ \A i \in 1..Len(d) : f[i] = "<more/>" <=> d[i] = "<more/>"
  BY <1>5, <1>6, <1>7, <1>8, AlikeIs
<1> QED
  BY <1>2, <1>9 DEF f, d, l

\* A part of a text alike is alike.
LEMMA CutAlike ==
    ASSUME NEW r, NEW d, NEW t, IsText(r), IsText(t), NEW off \in Nat, Alike(r, d),
           off + Len(t) <= Len(r), \A i \in 1..Len(t) : d[off + i] = t[i]
    PROVE  Alike(SubSeq(r, off + 1, off + Len(t)), t)
<1> DEFINE N == Len(r)  m == Len(t)  p == SubSeq(r, off + 1, off + m)
<1>1. N \in Nat /\ m \in Nat
  BY TextIs
<1>2. off + 1 \in 1..(N + 1) /\ off + m \in 0..N
  BY <1>1
<1>3. IsText(p) /\ Len(p) = (IF off + 1 <= off + m THEN (off + m) - (off + 1) + 1 ELSE 0)
      /\ \A i \in 1..Len(p) : p[i] = r[(off + 1) + i - 1]
  BY <1>2, CutIs
<1> HIDE DEF p
<1>4. Len(p) = m
  BY <1>1, <1>3
<1>5. \A i \in 1..m : p[i] = r[off + i] /\ off + i \in 1..N
  <2>1. \A i \in 1..m : (off + 1) + i - 1 = off + i /\ off + i \in 1..N
    BY <1>1
  <2> QED
    BY <1>3, <1>4, <2>1
<1>6. \A i \in 1..N : Seen(r[i]) = Seen(d[i])
  BY DEF Alike
<1>7. \A i \in 1..m : Seen(p[i]) = Seen(t[i])
  BY <1>5, <1>6
<1>8. Alike(p, t)
  BY <1>3, <1>4, <1>7 DEF Alike
<1> QED
  BY <1>8 DEF p

\* A part that came back, trimmed, shows what was sent.
LEMMA PartShows ==
    ASSUME NEW p, NEW t, IsText(t), Alike(p, Escaped(t))
    PROVE  Shown(Trim(p)) = Shown(t) /\ Shown(p) = Shown(t)
<1> DEFINE d == Escaped(t)  u == Trim(p)
<1>1. IsText(d) /\ Escaped(d) = d /\ \A i \in DOMAIN d : d[i] # "control"
  BY EscapedIs, EscapedTwice
<1>2. Shown(t) = Shown(d)
  BY <1>1 DEF Shown
<1>3. Alike(p, d)
  OBVIOUS
<1> HIDE DEF d
<1>4. IsText(p) /\ Len(p) = Len(d) /\ DOMAIN p = 1..Len(d) /\ DOMAIN d = 1..Len(d)
  BY <1>1, <1>3, TextIs DEF Alike
<1>5. \A i \in DOMAIN p : p[i] # "control"
  BY <1>1, <1>3, <1>4, AlikeIs DEF Alike
<1>6. IsText(u) /\ Trim(u) = u /\ \A i \in DOMAIN u : u[i] # "control"
  BY <1>4, <1>5, TrimTwice, TrimKeeps
<1>7. Alike(u, Trim(d))
  BY <1>3, TrimAlike
<1> HIDE DEF u
<1>8. Shown(u) = Shown(d)
  <2>1. Alike(Trim(u), Trim(d))
    BY <1>6, <1>7
  <2> QED
    BY <1>1, <1>6, <2>1, ShowAlike
<1>9. Shown(p) = Shown(d)
  <2>1. Alike(Trim(p), Trim(d))
    BY <1>7 DEF u
  <2> QED
    BY <1>1, <1>4, <1>5, <2>1, ShowAlike
<1> QED
  BY <1>2, <1>8, <1>9 DEF u

-----------------------------------------------------------------------------
(* What a post's text becomes. *)

\* Three parts in one.
LEMMA ThreeJoined ==
    ASSUME NEW b, NEW c, NEW m, IsText(b), IsText(m)
    PROVE  /\ IsText(b \o <<c>> \o m) /\ Len(b \o <<c>> \o m) = Len(b) + 1 + Len(m)
           /\ \A i \in 1..Len(b) : (b \o <<c>> \o m)[i] = b[i]
           /\ (b \o <<c>> \o m)[Len(b) + 1] = c
           /\ \A i \in 1..Len(m) : (b \o <<c>> \o m)[(Len(b) + 1) + i] = m[i]
<1> DEFINE d == <<c>>  h == b \o d  M == Len(b)  w == h \o m  L == Len(m)  one == 1
<1>1. IsText(d) /\ Len(d) = one /\ d[1] = c /\ M \in Nat /\ L \in Nat
  BY OneText, TextIs
<1> HIDE DEF d, one
<1>2. IsText(h) /\ Len(h) = M + one /\ (\A i \in 1..M : h[i] = b[i]) /\ \A i \in 1..one : h[M + i] = d[i]
  BY <1>1, Joined
<1> HIDE DEF h
<1>3. IsText(w) /\ Len(w) = (M + one) + L /\ (\A i \in 1..(M + one) : w[i] = h[i]) /\ \A i \in 1..L : w[(M + one) + i] = m[i]
  BY <1>2, Joined
<1>4. w = b \o <<c>> \o m
  BY DEF h, d
<1> HIDE DEF w, M, L
<1>5. w[M + 1] = c
  BY <1>1, <1>2, <1>3 DEF one
<1>6. \A i \in 1..M : w[i] = b[i]
  BY <1>1, <1>2, <1>3 DEF one
<1> QED
  BY <1>3, <1>4, <1>5, <1>6 DEF one, M, L

\* A text with a tag between its halves, told apart again.
LEMMA HalvesShow ==
    ASSUME NEW body, NEW more, IsText(body), IsText(more), NEW r,
           Alike(r, Escaped(body) \o <<"<more/>">> \o Escaped(more)),
           \A i \in 1..Len(r) : r[i] = "<more/>" <=> (Escaped(body) \o <<"<more/>">> \o Escaped(more))[i] = "<more/>",
           Len(Escaped(body)) # 0,
           \A i \in 1..Len(Escaped(body)) : Escaped(body)[i] # "<more/>" /\ Escaped(body)[i] # "Kelvin"
    PROVE  /\ IsText(SplitMore(r).body) /\ Shown(SplitMore(r).body) = Shown(body)
           /\ IsText(SplitMore(r).more) /\ Shown(SplitMore(r).more) = Shown(more)
<1> DEFINE b == Escaped(body)  m == Escaped(more)  d == b \o <<"<more/>">> \o m  k == Len(b)  l == Len(m)
           n == k + 1  N == Len(r)
<1>1. IsText(b) /\ IsText(m)
  BY EscapedIs
<1>2. Alike(r, d) /\ (\A i \in 1..N : r[i] = "<more/>" <=> d[i] = "<more/>") /\ k # 0
      /\ \A i \in 1..k : b[i] # "<more/>" /\ b[i] # "Kelvin"
  OBVIOUS
<1>0. b = Escaped(body) /\ m = Escaped(more)
  OBVIOUS
<1> HIDE DEF b, m
<1>3. k \in Nat /\ l \in Nat
  BY <1>1, TextIs
<1>4. Len(d) = k + 1 + l /\ (\A i \in 1..k : d[i] = b[i]) /\ d[k + 1] = "<more/>" /\ \A i \in 1..l : d[(k + 1) + i] = m[i]
  BY <1>1, ThreeJoined
<1> HIDE DEF d, k, l
<1>5. IsText(r) /\ N = k + 1 + l
  BY <1>2, <1>4 DEF Alike
<1>6. n \in 1..N /\ n # 1 /\ r[n] = "<more/>"
  <2>1. n \in 1..N /\ n # 1
    BY <1>2, <1>3, <1>5
  <2> QED
    BY <2>1, <1>2, <1>4
<1>7. \A i \in 1..(n - 1) : r[i] # "<more/>" /\ r[i] # "Kelvin"
  <2> SUFFICES ASSUME NEW i \in 1..(n - 1) PROVE r[i] # "<more/>" /\ r[i] # "Kelvin"
    OBVIOUS
  <2>1. i \in 1..k /\ i \in 1..N
    BY <1>3, <1>5
  <2>2. Seen(r[i]) = Seen(d[i]) /\ d[i] = b[i]
    BY <2>1, <1>2, <1>4 DEF Alike
  <2> QED
    BY <2>1, <2>2, <1>2, AlikeIs
<1> DEFINE p == SubSeq(r, 1, n - 1)  q == SubSeq(r, n + 1, N)
<1>8. SplitMore(r) = [body |-> Trim(p), more |-> Trim(q)]
  <2> HIDE DEF n
  <2> QED
    BY <1>5, <1>6, <1>7, IsCut
<1>9. Alike(p, b)
  <2> DEFINE z == 0
  <2>1. z \in Nat /\ z + k <= N /\ z + 1 = 1 /\ z + k = n - 1 /\ \A i \in 1..k : d[z + i] = b[i]
    BY <1>3, <1>4, <1>5
  <2> HIDE DEF z, n, N
  <2>2. Alike(SubSeq(r, z + 1, z + Len(b)), b)
    BY <1>1, <1>2, <1>5, <2>1, CutAlike DEF k, N
  <2> QED
    BY <2>1, <2>2 DEF k
<1>10. Alike(q, m)
  <2>1. n \in Nat /\ n + l <= N /\ n + l = N /\ \A i \in 1..l : d[n + i] = m[i]
    BY <1>3, <1>4, <1>5
  <2> HIDE DEF n, N
  <2>2. Alike(SubSeq(r, n + 1, n + Len(m)), m)
    BY <1>1, <1>2, <1>5, <2>1, CutAlike DEF l, N
  <2> QED
    BY <2>1, <2>2 DEF l
<1> HIDE DEF p, q
<1>11. Shown(Trim(p)) = Shown(body) /\ IsText(Trim(p))
  <2>1. IsText(p)
    BY <1>9 DEF Alike
  <2> QED
    BY <2>1, <1>0, <1>9, PartShows, TrimTwice
<1>12. Shown(Trim(q)) = Shown(more) /\ IsText(Trim(q))
  <2>1. IsText(q)
    BY <1>10 DEF Alike
  <2> QED
    BY <2>1, <1>0, <1>10, PartShows, TrimTwice
<1> QED
  BY <1>8, <1>11, <1>12

\* What starts with a tag starts with it when others are taken out.
LEMMA WithoutFirst ==
    ASSUME NEW t, IsText(t), NEW D, 1 \in DOMAIN t, t[1] \notin D
    PROVE  Without(t, D)[1] = t[1]
<1> DEFINE N == Len(t)  K == {i \in DOMAIN t : t[i] \notin D}  m == Cardinality(K)  e == Without(t, D)
<1>1. N \in Nat /\ DOMAIN t = 1..N
  BY TextIs
<1> HIDE DEF N
<1>2. K \in SUBSET (1..N) /\ 1 \in K
  BY <1>1
<1>3. e = [n \in 1..m |-> t[Nth(K, n)]]
  BY DEF Without, Picked, Nth, Rank
<1> HIDE DEF K
<1>4. \A i, j \in 1..m : i < j => Nth(K, i) < Nth(K, j)
  BY <1>1, <1>2, NthUp
<1>5. PICK n \in 1..m : Nth(K, n) = 1
  BY <1>1, <1>2, NthUp
<1>6. m \in Nat /\ \A i \in 1..m : Nth(K, i) \in K
  BY <1>1, <1>2, Ranks
<1> HIDE DEF m
<1>7. 1 \in 1..m
  BY <1>6
<1>8. ~(1 < n)
  <2> SUFFICES ASSUME 1 < n PROVE FALSE
    OBVIOUS
  <2> DEFINE k == Nth(K, 1)
  <2>1. k < Nth(K, n) /\ k \in K
    BY <1>4, <1>6, <1>7
  <2> HIDE DEF k
  <2>2. k < 1 /\ k \in 1..N
    BY <2>1, <1>2, <1>5
  <2> QED
    BY <2>2, <1>1
<1>9. n = 1
  BY <1>6, <1>8
<1>10. e[1] = t[Nth(K, 1)]
  BY <1>3, <1>7
<1> QED
  BY <1>5, <1>9, <1>10 DEF e

LEMMA EscapedFirst ==
    ASSUME NEW t, IsText(t), 1 \in DOMAIN t, t[1] # "control"
    PROVE  Escaped(t)[1] = t[1]
BY WithoutFirst DEF Escaped

\* So where a tag stands in what the toggle leaves of a first half, it stands at the start.
LEMMA LeftTagFirst ==
    ASSUME NEW e, IsText(e.body), TagFirst(e), NEW marked \in BOOLEAN
    PROVE  LET b == Escaped(Left(e.body, marked)) IN \A i \in DOMAIN b : b[i] = "<more/>" => b[1] = "<more/>"
<1> DEFINE t == e.body  c == Escaped(t)  D == {"<code></code>"}  b == Escaped(Left(t, marked))
<1>1. IsText(t) /\ \A i \in DOMAIN c : c[i] = "<more/>" => c[1] = "<more/>"
  BY DEF TagFirst
<1>2. CASE ~marked
  BY <1>1, <1>2 DEF Left
<1>3. CASE marked
  <2> HIDE DEF t
  <2>1. b = Without(c, D)
    <3> DEFINE E == {"control"}
    <3>1. b = Without(Without(t, D), E) /\ c = Without(t, E)
      BY <1>3 DEF Left, Escaped
    <3>2. D \union E = E \union D
      OBVIOUS
    <3> HIDE DEF D, E, b, c
    <3>3. Without(Without(t, D), E) = Without(t, D \union E) /\ Without(Without(t, E), D) = Without(t, E \union D)
      BY <1>1, WithoutBoth
    <3> QED
      BY <3>1, <3>2, <3>3
  <2>2. IsText(c)
    BY <1>1, EscapedIs
  <2> HIDE DEF b, c
  <2>3. ToSet(b) \subseteq ToSet(c)
    BY <2>1, <2>2, WithoutIs
  <2> SUFFICES ASSUME NEW i \in DOMAIN b, b[i] = "<more/>" PROVE b[1] = "<more/>"
    BY DEF b, t
  <2>4. PICK j \in DOMAIN c : c[j] = "<more/>"
    BY <2>3 DEF ToSet
  <2>5. c[1] = "<more/>" /\ 1 \in DOMAIN c
    <3>1. DOMAIN c = 1..Len(c) /\ Len(c) \in Nat
      BY <2>2, TextIs
    <3> QED
      BY <3>1, <2>4, <1>1 DEF c
  <2>6. c[1] \notin D
    BY <2>5
  <2> HIDE DEF D
  <2>7. Without(c, D)[1] = c[1]
    BY <2>2, <2>5, <2>6, WithoutFirst
  <2> QED
    BY <2>1, <2>5, <2>7
<1> QED
  BY <1>2, <1>3

\* The text of a row comes back, up to what may change.
LEMMA TextReturns ==
    ASSUME NEW e, IsText(e.body), IsText(e.more), TagFirst(e), NEW marked \in BOOLEAN,
           ~Headless(e, marked), ~(marked /\ Garbled(e))
    PROVE  LET split == SplitMore(Returned(Joint(e), marked)) IN
           /\ IsText(split.body) /\ Shown(split.body) = Shown(Left(e.body, marked))
           /\ IsText(split.more) /\ Shown(split.more) = Shown(Left(e.more, marked))
<1> DEFINE J == Joint(e)  r == Returned(J, marked)  B == Left(e.body, marked)  M == Left(e.more, marked)
           d == Escaped(Left(J, marked))  EB == Escaped(B)  EM == Escaped(M)
<1>1. IsText(B) /\ IsText(M)
  BY LeftIs
<1>2. marked => ~Spoiled(Escaped(Left(J, TRUE)))
  BY DEF Garbled
<1>3. \A i \in DOMAIN EB : EB[i] = "<more/>" => EB[1] = "<more/>"
  BY LeftTagFirst
<1>4. e.more # <<>> => EB # <<>> /\ Head(EB) # "<more/>" /\ "Kelvin" \notin ToSet(EB)
  BY DEF Headless
<1>5. IsText(J) => /\ Alike(r, d)
                   /\ \A i \in 1..Len(d) : r[i] = "<more/>" <=> d[i] = "<more/>"
  <2> HIDE DEF J
  <2> QED
    BY <1>2, ReturnedAlike
<1>6. CASE e.more = <<>>
  <2>1. J = e.body
    BY <1>6 DEF Joint
  <2>2. d = EB /\ IsText(J)
    BY <2>1
  <2>3. M = <<>>
    <3> DEFINE o == <<>>
    <3>1. IsText(o) /\ \A i \in DOMAIN o : o[i] \notin {"<code></code>"}
      BY <1>6
    <3> HIDE DEF o
    <3>2. Without(o, {"<code></code>"}) = o
      BY <3>1, WithoutSame
    <3> QED
      BY <1>6, <3>2 DEF Left, o
  <2> HIDE DEF B, M, J, r, d
  <2>4. IsText(EB)
    BY <1>1, EscapedIs
  <2>5. Shown(r) = Shown(B)
    BY <1>1, <1>5, <2>2, PartShows
  <2> HIDE DEF EB, EM
  <2>6. IsText(r) /\ Len(r) = Len(EB) /\ DOMAIN r = 1..Len(EB) /\ DOMAIN EB = 1..Len(EB) /\ Len(EB) \in Nat
    BY <1>5, <2>2, <2>4, TextIs DEF Alike
  <2>7. \A i \in DOMAIN r : r[i] = "<more/>" => r[1] = "<more/>"
    <3> SUFFICES ASSUME NEW i \in DOMAIN r, r[i] = "<more/>" PROVE r[1] = "<more/>"
      OBVIOUS
    <3>1. EB[1] = "<more/>" /\ 1 \in 1..Len(EB)
      BY <1>3, <1>5, <2>2, <2>6
    <3> QED
      BY <3>1, <1>5, <2>2
  <2>8. SplitMore(r) = [body |-> r, more |-> <<>>]
    BY <2>6, <2>7, StaysWhole
  <2>9. IsText(<<>>)
    BY DEF IsText
  <2> QED
    BY <2>3, <2>5, <2>6, <2>8, <2>9 DEF r, J, B, M
<1>7. CASE e.more # <<>>
  <2> DEFINE tag == <<"<more/>">>  b == e.body  m == e.more
  <2>1. J = b \o tag \o m
    BY <1>7 DEF Joint
  <2>2. IsText(tag) /\ \A i \in DOMAIN tag : tag[i] = "<more/>"
    BY OneText
  <2> HIDE DEF tag
  <2>3. IsText(b) /\ IsText(m)
    OBVIOUS
  <2>4. B = Left(b, marked) /\ M = Left(m, marked)
    OBVIOUS
  <2> HIDE DEF b, m, J, B, M
  <2>5. ASSUME NEW D, "<more/>" \notin D, NEW v, NEW w, IsText(v), IsText(w)
        PROVE  IsText(v \o tag \o w) /\ Without(v \o tag \o w, D) = Without(v, D) \o tag \o Without(w, D)
    <3> DEFINE h == v \o tag
    <3>1. Without(tag, D) = tag
      BY <2>2, <2>5, WithoutSame
    <3>2. IsText(h) /\ Without(h, D) = Without(v, D) \o tag
      BY <2>2, <2>5, <3>1, Joined, WithoutJoin
    <3> HIDE DEF h
    <3>3. IsText(h) /\ IsText(w)
      BY <2>5, <3>2
    <3>4. IsText(h \o w)
      BY <3>3, Joined
    <3>5. Without(h \o w, D) = Without(h, D) \o Without(w, D)
      BY <3>3, WithoutJoin
    <3> QED
      BY <3>2, <3>4, <3>5 DEF h
  <2>6. IsText(J) /\ Left(J, marked) = B \o tag \o M
    <3>1. IsText(b \o tag \o m)
      <4>1. "<more/>" \notin {"control"}
        OBVIOUS
      <4> QED
        BY <2>3, <2>5, <4>1
    <3>2. CASE marked
      <4>1. Without(b \o tag \o m, {"<code></code>"}) = Without(b, {"<code></code>"}) \o tag \o Without(m, {"<code></code>"})
        BY <2>3, <2>5
      <4> QED
        BY <3>1, <3>2, <4>1, <2>1, <2>4 DEF Left
    <3>3. CASE ~marked
      BY <3>1, <3>3, <2>1, <2>4 DEF Left
    <3> QED
      BY <3>2, <3>3
  <2>7. d = EB \o tag \o EM
    <3>1. "<more/>" \notin {"control"}
      OBVIOUS
    <3>2. Without(B \o tag \o M, {"control"}) = Without(B, {"control"}) \o tag \o Without(M, {"control"})
      BY <1>1, <2>5, <3>1
    <3> QED
      BY <2>6, <3>2 DEF Escaped
  <2>8. IsText(EB) /\ IsText(EM)
    BY <1>1, EscapedIs
  <2>9. Len(EB) # 0 /\ \A i \in 1..Len(EB) : EB[i] # "<more/>" /\ EB[i] # "Kelvin"
    <3>1. EB # <<>> /\ Head(EB) # "<more/>" /\ "Kelvin" \notin ToSet(EB)
      BY <1>4, <1>7
    <3> HIDE DEF EB
    <3>2. Head(EB) = EB[1]
      BY DEF Head
    <3>3. Len(EB) \in Nat /\ DOMAIN EB = 1..Len(EB)
      BY <2>8, TextIs
    <3>4. Len(EB) # 0
      <4> SUFFICES ASSUME Len(EB) = 0 PROVE FALSE
        OBVIOUS
      <4>1. EB = [i \in 1..0 |-> EB[i]]
        BY <2>8, TextIs
      <4>2. EB = <<>>
        BY <4>1
      <4> QED
        BY <4>2, <3>1
    <3> QED
      BY <3>1, <3>2, <3>3, <3>4, <1>3 DEF ToSet
  <2> HIDE DEF r, d
  <2>10. Alike(r, d) /\ \A i \in 1..Len(d) : r[i] = "<more/>" <=> d[i] = "<more/>"
    BY <1>5, <2>6
  <2>11. Len(r) = Len(d)
    BY <2>10 DEF Alike
  <2> QED
    BY <1>1, <2>7, <2>9, <2>10, <2>11, HalvesShow DEF r, J, B, M, tag
<1> QED
  BY <1>6, <1>7

-----------------------------------------------------------------------------
(* An atom. *)

\* A word alone has no blanks around it.
LEMMA TrimOne == \A p : p # "blank" => Trim(<<p>>) = <<p>>
<1> TAKE p
<1> HAVE p # "blank"
<1> DEFINE t == <<p>>  u == Trim(t)
<1>1. IsText(t) /\ Len(t) = 1 /\ DOMAIN t = {1} /\ t[1] = p
  BY OneText
<1> HIDE DEF t
<1>2. PICK off \in Nat : TrimmedTo(t, u, off)
  BY <1>1, TrimIs
<1> HIDE DEF u
<1>3. IsText(u) /\ Len(u) \in Nat /\ off + Len(u) <= 1 /\ 1 > off /\ 1 <= off + Len(u)
      /\ \A n \in 1..Len(u) : u[n] = t[off + n]
  <2>1. IsText(u) /\ off + Len(u) <= 1 /\ \A n \in 1..Len(u) : u[n] = t[off + n]
    BY <1>1, <1>2 DEF TrimmedTo
  <2>2. 1 \in 1..Len(t) /\ t[1] # "blank"
    BY <1>1
  <2>3. 1 > off /\ 1 <= off + Len(u)
    BY <1>2, <2>2 DEF TrimmedTo
  <2> QED
    BY <2>1, <2>3, TextIs
<1>4. Len(u) = 1 /\ off = 0
  <2> DEFINE l == Len(u)
  <2>1. l \in Nat /\ off \in Nat /\ off + l <= 1 /\ 1 > off /\ 1 <= off + l
    BY <1>3
  <2> HIDE DEF l
  <2>2. l = 1 /\ off = 0
    BY <2>1
  <2> QED
    BY <2>2 DEF l
<1>5. \A i \in 1..1 : u[i] = t[i]
  BY <1>3, <1>4
<1>6. u = t
  BY <1>1, <1>3, <1>4, <1>5, SameText
<1> QED
  BY <1>6 DEF u, t

\* What is read of what is written of a value that stands alone.
CleanAtom(v) ==
    CASE v.is = "string" -> Str(Escaped(v.v))
      [] v.is = "int" -> Number(IF v.v = 0 THEN 0 ELSE 1)
      [] v.is = "nil" -> Str(<<>>)
      [] OTHER -> v
\* The element it is written as, and what is read of that.
Spelt(v) ==
    CASE v.is = "nil" -> Elem("string", <<>>)
      [] v.is = "string" -> Leaf("string", Escaped(v.v))
      [] v.is = "int" -> Leaf("int", <<IF v.v = 0 THEN "0" ELSE "1">>)
      [] v.is = "boolean" -> Leaf("boolean", <<IF v.v THEN "1" ELSE "0">>)
      [] v.is = "date" -> Leaf("dateTime.iso8601", <<v.v>>)
      [] v.is = "base64" -> Leaf("base64", <<v.v>>)
Unspelt(e) ==
    CASE e.tag = "string" -> Str(ElemText(e))
      [] e.tag = "int" -> ToInt(Trim(ElemText(e)))
      [] e.tag = "boolean" -> ParseBool(Trim(ElemText(e)))
      [] e.tag = "dateTime.iso8601" ->
            IF IsClock(Trim(ElemText(e))) THEN Date(Trim(ElemText(e))[1]) ELSE Unreadable
      [] e.tag = "base64" -> Bits(ElemText(e)[1])
AtomTags == {"string", "int", "boolean", "dateTime.iso8601", "base64"}
AtomKind == {"nil", "string", "int", "boolean", "date", "base64"}

\* Those that stand alone are of six kinds.
LEMMA AtomKinds ==
    ASSUME NEW v, Atomic(v)
    PROVE  /\ v.is \in AtomKind
           /\ v.is = "string" => v = Str(v.v) /\ IsText(v.v)
           /\ v.is = "int" => v = Number(v.v)
           /\ v.is = "boolean" => v = Bool(v.v) /\ v.v \in BOOLEAN
           /\ v.is = "date" => v = Date(v.v) /\ v.v \in Clocks
           /\ v.is = "base64" => v = Bits(v.v)
           /\ v.is = "nil" => v = Nil
<1>1. v.is = "string" => v = Str(v.v) /\ IsText(v.v)
  BY DEF Atomic
<1>2. v.is = "int" => v = Number(v.v)
  BY DEF Atomic
<1>3. v.is = "boolean" => v = Bool(v.v) /\ v.v \in BOOLEAN
  BY DEF Atomic
<1>4. v.is = "date" => v = Date(v.v) /\ v.v \in Clocks
  BY DEF Atomic
<1>5. v.is = "base64" => v = Bits(v.v)
  BY DEF Atomic
<1>6. v.is \notin {"string", "int", "boolean", "date", "base64"} => v = Nil
  BY DEF Atomic
<1>7. Nil.is = "nil"
  BY DEF Nil
<1> QED
  BY <1>1, <1>2, <1>3, <1>4, <1>5, <1>6, <1>7 DEF AtomKind

\* What is written of one is read as it is, but for what XML drops.
LEMMA SpeltIs ==
    ASSUME NEW v, Atomic(v)
    PROVE  /\ Spelt(v).tag \in AtomTags
           /\ Unspelt(Spelt(v)) = CleanAtom(v)
           /\ CleanAtom(v).is # "unreadable"
<1>1. /\ v.is \in AtomKind
      /\ v.is = "string" => v = Str(v.v) /\ IsText(v.v)
      /\ v.is = "int" => v = Number(v.v)
      /\ v.is = "boolean" => v = Bool(v.v) /\ v.v \in BOOLEAN
      /\ v.is = "date" => v = Date(v.v) /\ v.v \in Clocks
      /\ v.is = "base64" => v = Bits(v.v)
      /\ v.is = "nil" => v = Nil
  BY AtomKinds
<1>2. \A tag, t : Leaf(tag, t).tag = tag
  BY DEF Leaf, Elem
<1>3. \A tag, t : ElemText(Leaf(tag, t)) = t
  BY LeafText
<1>4. CASE v.is = "nil"
  <2>1. Spelt(v) = Elem("string", <<>>)
    BY <1>4 DEF Spelt
  <2>2. Spelt(v).tag = "string" /\ ElemText(Spelt(v)) = <<>>
    BY <2>1, LeafText DEF Elem
  <2>3. CleanAtom(v) = Str(<<>>)
    BY <1>4 DEF CleanAtom
  <2> QED
    BY <2>2, <2>3 DEF Unspelt, AtomTags, Str
<1>5. CASE v.is = "string"
  <2>1. Spelt(v) = Leaf("string", Escaped(v.v))
    BY <1>5 DEF Spelt
  <2>2. Spelt(v).tag = "string" /\ ElemText(Spelt(v)) = Escaped(v.v)
    BY <2>1, <1>2, <1>3
  <2>3. CleanAtom(v) = Str(Escaped(v.v))
    BY <1>5 DEF CleanAtom
  <2> QED
    BY <2>2, <2>3 DEF Unspelt, AtomTags, Str
<1>6. CASE v.is = "int"
  <2> DEFINE d == IF v.v = 0 THEN "0" ELSE "1"
  <2>1. Spelt(v) = Leaf("int", <<d>>)
    BY <1>6 DEF Spelt
  <2>2. d # "blank" /\ <<d>> \in {<<"0">>, <<"1">>} /\ (<<d>> = <<"1">> <=> v.v # 0)
    OBVIOUS
  <2>3. CleanAtom(v) = Number(IF v.v = 0 THEN 0 ELSE 1)
    BY <1>6 DEF CleanAtom
  <2>4. ToInt(<<d>>) = Number(IF v.v = 0 THEN 0 ELSE 1)
    BY <2>2 DEF ToInt
  <2> HIDE DEF d
  <2>5. Spelt(v).tag = "int" /\ Trim(ElemText(Spelt(v))) = <<d>>
    BY <2>1, <2>2, <1>2, <1>3, TrimOne
  <2>6. Unspelt(Spelt(v)) = ToInt(<<d>>)
    BY <2>5 DEF Unspelt
  <2> QED
    BY <2>3, <2>4, <2>5, <2>6 DEF AtomTags, Number
<1>7. CASE v.is = "boolean"
  <2> DEFINE d == IF v.v THEN "1" ELSE "0"
  <2>1. Spelt(v) = Leaf("boolean", <<d>>)
    BY <1>7 DEF Spelt
  <2>3. CleanAtom(v) = Bool(v.v)
    BY <1>7, <1>1 DEF CleanAtom
  <2>4. ParseBool(<<d>>) = Bool(v.v) /\ d # "blank"
    <3>1. CASE v.v = TRUE
      BY <3>1 DEF ParseBool
    <3>2. CASE v.v = FALSE
      <4>1. d = "0"
        BY <3>2
      <4> HIDE DEF d
      <4>2. <<d>> \notin {<<"1">>, <<"true">>, <<"yes">>} /\ <<d>> \in {<<"0">>, <<"false">>, <<"no">>, <<>>}
        BY <4>1
      <4>3. ParseBool(<<d>>) = Bool(FALSE)
        BY <4>2 DEF ParseBool
      <4> QED
        BY <4>1, <4>3, <3>2
    <3> QED
      BY <3>1, <3>2, <1>1, <1>7
  <2> HIDE DEF d
  <2>5. Spelt(v).tag = "boolean" /\ Trim(ElemText(Spelt(v))) = <<d>>
    BY <2>1, <2>4, <1>2, <1>3, TrimOne
  <2>6. Unspelt(Spelt(v)) = ParseBool(<<d>>)
    BY <2>5 DEF Unspelt
  <2> QED
    BY <2>3, <2>4, <2>5, <2>6 DEF AtomTags, Bool
<1>8. CASE v.is = "date"
  <2>1. Spelt(v) = Leaf("dateTime.iso8601", <<v.v>>)
    BY <1>8 DEF Spelt
  <2>2. v.v # "blank" /\ v.v \in Clocks
    BY <1>1, <1>8, XmlrpcAssumption
  <2>3. CleanAtom(v) = Date(v.v)
    BY <1>8, <1>1 DEF CleanAtom
  <2>4. Spelt(v).tag = "dateTime.iso8601" /\ Trim(ElemText(Spelt(v))) = <<v.v>>
    BY <2>1, <2>2, <1>2, <1>3, TrimOne
  <2>5. IsClock(<<v.v>>) /\ <<v.v>>[1] = v.v
    BY <2>2 DEF IsClock
  <2>6. Unspelt(Spelt(v)) = Date(v.v)
    BY <2>4, <2>5 DEF Unspelt
  <2> QED
    BY <2>3, <2>4, <2>6 DEF AtomTags, Date
<1>9. CASE v.is = "base64"
  <2>1. Spelt(v) = Leaf("base64", <<v.v>>)
    BY <1>9 DEF Spelt
  <2>2. Spelt(v).tag = "base64" /\ ElemText(Spelt(v))[1] = v.v
    BY <2>1, <1>2, <1>3
  <2>3. CleanAtom(v) = Bits(v.v)
    BY <1>9, <1>1 DEF CleanAtom
  <2>4. Unspelt(Spelt(v)) = Bits(v.v)
    BY <2>2 DEF Unspelt
  <2> QED
    BY <2>2, <2>3, <2>4 DEF AtomTags, Bits
<1> QED
  BY <1>1, <1>4, <1>5, <1>6, <1>7, <1>8, <1>9 DEF AtomKind

\* A value's element around the one it holds.
Wrapped(style, inner) ==
    Elem("value", IF style = "bare" /\ inner.tag = "string" THEN inner.kids ELSE <<inner>>)

\* What is read of the element that tells a value, of a member, and of what stands in either.
TypedWith(e, Inside(_)) == ParseTyped(e, MembersOf(e, Inside), ValuesOf(e, Inside))
MemberRead(e) == ParseMember(e, Each(Kids(e, "value"), Parse2))
MemberSpelt(style, mm) == EncodeMember(style, mm.name, Encode2(style, mm.value))

\* What is read of a wrapped element.
LEMMA Unwrapped ==
    ASSUME NEW style, NEW inner, inner.tag # "", ~(style = "bare" /\ inner.tag = "string")
    PROVE  /\ Parse0(Wrapped(style, inner)) = TypedWith(inner, TooDeep)
           /\ Parse1(Wrapped(style, inner)) = TypedWith(inner, Parse0)
           /\ Parse2(Wrapped(style, inner)) = TypedWith(inner, Parse1)
           /\ ParseValue(Wrapped(style, inner)) = TypedWith(inner, Parse2)
           /\ Wrapped(style, inner).tag = "value"
<1> DEFINE w == Wrapped(style, inner)  elems == {i \in DOMAIN w.kids : w.kids[i].tag # ""}
<1>1. w.kids = <<inner>> /\ w.tag = "value"
  BY DEF Wrapped, Elem
<1>2. DOMAIN w.kids = {1} /\ w.kids[1] = inner
  BY <1>1, OneText
<1>3. elems = {1}
  BY <1>2
<1>4. Min(elems) = 1
  <2>1. Min({1}) \in {1}
    <3> DEFINE S == {1}
    <3>1. 1 \in Nat
      OBVIOUS
    <3>2. 1 \in S /\ \A x \in S : x = 1
      BY Zenon
    <3>3. S \in SUBSET Nat /\ S # {}
      BY <3>1, <3>2
    <3> HIDE DEF S
    <3>4. Min(S) \in S
      BY <3>3, MinOf
    <3> QED
      BY <3>4 DEF S
  <2> QED
    BY <2>1, <1>3
<1>5. w.kids[Min(elems)] = inner /\ elems # {}
  BY <1>2, <1>3, <1>4
<1> HIDE DEF w
<1>6. Parse0(w) = TypedWith(inner, TooDeep)
  BY <1>5 DEF Parse0, ParseWith, TypedWith
<1>7. Parse1(w) = TypedWith(inner, Parse0)
  BY <1>5 DEF Parse1, ParseWith, TypedWith
<1>8. Parse2(w) = TypedWith(inner, Parse1)
  BY <1>5 DEF Parse2, ParseWith, TypedWith
<1>9. ParseValue(w) = TypedWith(inner, Parse2)
  BY <1>5 DEF ParseValue, ParseWith, TypedWith
<1> QED
  BY <1>1, <1>6, <1>7, <1>8, <1>9 DEF w

\* A value with no element in it is a text.
LEMMA NoElement ==
    ASSUME NEW t, NEW w, w = Leaf("value", t) \/ (t = <<>> /\ w = Elem("value", <<>>))
    PROVE  Parse1(w) = Str(t) /\ Parse2(w) = Str(t) /\ ParseValue(w) = Str(t) /\ w.tag = "value"
<1> DEFINE elems == {i \in DOMAIN w.kids : w.kids[i].tag # ""}
<1>1. ElemText(w) = t /\ w.tag = "value"
  BY LeafText DEF Elem, Leaf
<1>2. elems = {}
  <2>1. CASE w = Leaf("value", t)
    <3>1. w.kids = <<Text(t)>>
      BY <2>1 DEF Leaf, Elem
    <3>2. DOMAIN w.kids = {1} /\ w.kids[1] = Text(t) /\ Text(t).tag = ""
      BY <3>1, OneText DEF Text
    <3> QED
      BY <3>2
  <2>2. CASE w = Elem("value", <<>>)
    BY <2>2 DEF Elem
  <2> QED
    BY <2>1, <2>2
<1>3. Parse1(w) = Str(t)
  BY <1>1, <1>2 DEF Parse1, ParseWith
<1>4. Parse2(w) = Str(t)
  BY <1>1, <1>2 DEF Parse2, ParseWith
<1>5. ParseValue(w) = Str(t)
  BY <1>1, <1>2 DEF ParseValue, ParseWith
<1> QED
  BY <1>1, <1>3, <1>4, <1>5

\* A value that stands alone comes back, however it is spelt and wherever it stands.
LEMMA AtomReturns ==
    ASSUME NEW v, Atomic(v), NEW style
    PROVE  /\ Parse1(Encode1(style, v)) = CleanAtom(v) /\ Encode1(style, v).tag = "value"
           /\ Parse2(Encode2(style, v)) = CleanAtom(v) /\ Encode2(style, v).tag = "value"
           /\ ParseValue(EncodeValue(style, v)) = CleanAtom(v) /\ EncodeValue(style, v).tag = "value"
<1> DEFINE e == Spelt(v)  w == Wrapped(style, e)
<1>1. e.tag \in AtomTags /\ Unspelt(e) = CleanAtom(v) /\ v.is \in AtomKind
  BY SpeltIs, AtomKinds
<1>2. Encode1(style, v) = w /\ Encode2(style, v) = w /\ EncodeValue(style, v) = w
  <2>1. \A inside : EncodeInner(style, v, inside) = e
    BY <1>1 DEF EncodeInner, Spelt, AtomKind
  <2> HIDE DEF e
  <2>2. Encode1(style, v) = w
    BY <2>1 DEF Encode1, EncodeWith, Wrapped
  <2>3. Encode2(style, v) = w
    BY <2>1 DEF Encode2, EncodeWith, Wrapped
  <2>4. EncodeValue(style, v) = w
    BY <2>1 DEF EncodeValue, EncodeWith, Wrapped
  <2> QED
    BY <2>2, <2>3, <2>4
<1>3. CASE style = "bare" /\ e.tag = "string"
  <2> DEFINE t == IF v.is = "nil" THEN <<>> ELSE Escaped(v.v)
  <2>1. v.is \in {"nil", "string"}
    BY <1>1, <1>3 DEF Spelt, AtomKind, Leaf, Elem
  <2>2. w = Elem("value", e.kids)
    BY <1>3 DEF Wrapped
  <2>3. CASE v.is = "nil"
    <3>1. e.kids = <<>>
      BY <2>3 DEF Spelt, Elem
    <3>2. CleanAtom(v) = Str(<<>>)
      BY <2>3 DEF CleanAtom
    <3> HIDE DEF w
    <3>3. w = Elem("value", <<>>)
      BY <2>2, <3>1
    <3> QED
      BY <3>2, <3>3, <1>2, NoElement
  <2>4. CASE v.is = "string"
    <3>1. e.kids = <<Text(Escaped(v.v))>>
      BY <2>4 DEF Spelt, Elem, Leaf
    <3>2. CleanAtom(v) = Str(Escaped(v.v))
      BY <2>4 DEF CleanAtom
    <3> HIDE DEF w
    <3>3. w = Leaf("value", Escaped(v.v))
      BY <2>2, <3>1 DEF Leaf
    <3> QED
      BY <3>2, <3>3, <1>2, NoElement
  <2> QED
    BY <2>1, <2>3, <2>4
<1>4. CASE ~(style = "bare" /\ e.tag = "string")
  <2> HIDE DEF e
  <2>1. e.tag # ""
    BY <1>1 DEF AtomTags
  <2>2. /\ Parse1(w) = TypedWith(e, Parse0) /\ Parse2(w) = TypedWith(e, Parse1)
        /\ ParseValue(w) = TypedWith(e, Parse2) /\ w.tag = "value"
    BY <2>1, <1>4, Unwrapped
  <2> HIDE DEF w
  <2>3. TypedWith(e, Parse0) = Unspelt(e)
    BY <1>1 DEF TypedWith, ParseTyped, Unspelt, AtomTags
  <2>4. TypedWith(e, Parse1) = Unspelt(e)
    BY <1>1 DEF TypedWith, ParseTyped, Unspelt, AtomTags
  <2>5. TypedWith(e, Parse2) = Unspelt(e)
    BY <1>1 DEF TypedWith, ParseTyped, Unspelt, AtomTags
  <2> QED
    BY <1>1, <1>2, <2>2, <2>3, <2>4, <2>5
<1> QED
  BY <1>3, <1>4

-----------------------------------------------------------------------------
(* Lists, members and drafts. *)

\* What is read of a value in a struct, of a member, and of a struct.
CleanAtoms(vs) == [n \in DOMAIN vs |-> CleanAtom(vs[n])]
CleanValue(v) == IF v.is = "array" THEN Array(CleanAtoms(v.v)) ELSE CleanAtom(v)
CleanMember(mm) == Member(mm.name, CleanValue(mm.value))
CleanDraft(d) == Struct([n \in DOMAIN d.v |-> CleanMember(d.v[n])])

\* A function on a sequence is one.
LEMMA OverText ==
    ASSUME NEW s, IsText(s), NEW t, t = [i \in DOMAIN s |-> t[i]]
    PROVE  IsText(t) /\ Len(t) = Len(s) /\ DOMAIN t = DOMAIN s /\ DOMAIN s = 1..Len(s) /\ Len(s) \in Nat
<1>1. DOMAIN s = 1..Len(s) /\ Len(s) \in Nat
  BY TextIs
<1> DEFINE n == Len(s)
<1>2. n \in Nat /\ DOMAIN s = 1..n
  BY <1>1
<1> HIDE DEF n
<1>3. t = [i \in 1..n |-> t[i]]
  BY <1>2
<1>4. IsText(t) /\ Len(t) = n /\ DOMAIN t = 1..n
  BY <1>2, <1>3, IsOne
<1> QED
  BY <1>2, <1>4 DEF n

\* A list of values comes back as a list of them.
LEMMA ListReturns ==
    ASSUME NEW v, ListOfAtoms(v), NEW style
    PROVE  /\ Parse2(Encode2(style, v)) = Array(CleanAtoms(v.v)) /\ Encode2(style, v).tag = "value"
           /\ \A n \in DOMAIN v.v : CleanAtom(v.v[n]).is # "unreadable"
<1> DEFINE vs == v.v  kids == [i \in DOMAIN vs |-> Encode1(style, vs[i])]
           data == Elem("data", Among(style, kids))  e == Elem("array", Among(style, <<data>>))
<1>1. v.is = "array" /\ IsText(vs) /\ \A n \in DOMAIN vs : Atomic(vs[n])
  BY DEF ListOfAtoms
<1>2. Encode2(style, v) = Wrapped(style, e)
  <2>1. WrittenInside(style, v, Encode1) = kids
    BY <1>1 DEF WrittenInside
  <2> HIDE DEF kids
  <2>2. EncodeInner(style, v, kids) = e
    BY <1>1 DEF EncodeInner
  <2> HIDE DEF e
  <2> QED
    BY <2>1, <2>2 DEF Encode2, EncodeWith, Wrapped
<1>3. \A n \in DOMAIN vs : Parse1(Encode1(style, vs[n])) = CleanAtom(vs[n]) /\ Encode1(style, vs[n]).tag = "value"
                            /\ CleanAtom(vs[n]).is # "unreadable"
  BY <1>1, AtomReturns, SpeltIs
<1> HIDE DEF vs
<1>4. \A i \in DOMAIN vs : kids[i] = Encode1(style, vs[i])
  OBVIOUS
<1>5. IsText(kids) /\ DOMAIN kids = DOMAIN vs
  <2>1. kids = [i \in DOMAIN vs |-> kids[i]]
    BY <1>4
  <2> HIDE DEF kids
  <2> QED
    BY <1>1, <2>1, OverText
<1>6. Kids(data, "value") = kids
  <2>1. \A i \in DOMAIN kids : kids[i].tag = "value"
    BY <1>3, <1>4, <1>5
  <2> HIDE DEF kids
  <2> QED
    BY <1>5, <2>1, KidsAll
<1>7. data.tag = "data" /\ e.tag = "array"
  BY DEF Elem
<1>8. Kids(e, "data") = <<data>>
  <2> HIDE DEF data
  <2> QED
    BY <1>7, KidsOne
<1>9. Parse2(Wrapped(style, e)) = TypedWith(e, Parse1) /\ Wrapped(style, e).tag = "value"
  <2> HIDE DEF e
  <2> QED
    BY <1>7, Unwrapped
<1>10. TypedWith(e, Parse1) = ParseArray(ValuesOf(e, Parse1))
  <2> HIDE DEF e
  <2> QED
    BY <1>7 DEF TypedWith, ParseTyped
<1> DEFINE read == [j \in DOMAIN kids |-> Parse1(kids[j])]
           reads == [i \in DOMAIN Kids(e, "data") |->
                [j \in DOMAIN Kids(Kids(e, "data")[i], "value") |-> Parse1(Kids(Kids(e, "data")[i], "value")[j])]]
<1>11. ParseArray(ValuesOf(e, Parse1)) = IF Broken(FlattenSeq(reads)) THEN Unreadable ELSE Array(FlattenSeq(reads))
  <2> HIDE DEF e
  <2> QED
    BY DEF ParseArray, ValuesOf, Each
<1> HIDE DEF e, data, kids
<1>12. reads = <<read>>
  <2> DEFINE one == <<data>>
  <2>1. DOMAIN one = {1} /\ one[1] = data
    BY OneText
  <2>2. reads = [i \in DOMAIN one |-> [j \in DOMAIN Kids(one[i], "value") |-> Parse1(Kids(one[i], "value")[j])]]
    BY <1>8
  <2> HIDE DEF one
  <2>3. \A i \in {1} : [j \in DOMAIN Kids(one[i], "value") |-> Parse1(Kids(one[i], "value")[j])] = read
    BY <2>1, <1>6
  <2>4. reads = [i \in {1} |-> read]
    BY <2>1, <2>2, <2>3
  <2> HIDE DEF read, reads
  <2> QED
    BY <2>4
<1>13. FlattenSeq(reads) = read
  <2> HIDE DEF read, reads
  <2> QED
    BY <1>12, FlattenFew
<1>14. read = CleanAtoms(vs)
  BY <1>3, <1>4, <1>5 DEF CleanAtoms
<1>15. ~Broken(CleanAtoms(vs))
  BY <1>3 DEF Broken, CleanAtoms
<1> HIDE DEF read, reads
<1>16. ParseArray(ValuesOf(e, Parse1)) = Array(CleanAtoms(vs))
  BY <1>11, <1>13, <1>14, <1>15
<1> QED
  BY <1>2, <1>3, <1>9, <1>10, <1>16 DEF vs

\* What clients put in a struct comes back.
LEMMA MemberReturns ==
    ASSUME NEW mm, Atomic(mm.value) \/ ListOfAtoms(mm.value), NEW style
    PROVE  /\ MemberRead(MemberSpelt(style, mm)) = CleanMember(mm)
           /\ MemberSpelt(style, mm).tag = "member"
           /\ CleanMember(mm).value.is # "unreadable"
<1> DEFINE v == mm.value  c == CleanValue(v)  w == Encode2(style, v)  name == Leaf("name", <<mm.name>>)
           e == MemberSpelt(style, mm)
<1>1. Parse2(w) = c /\ w.tag = "value" /\ c.is # "unreadable"
  <2>1. CASE Atomic(v)
    <3>1. v.is # "array"
      BY <2>1, AtomKinds DEF AtomKind
    <3>2. c = CleanAtom(v)
      BY <3>1 DEF CleanValue
    <3> QED
      BY <2>1, <3>2, AtomReturns, SpeltIs
  <2>2. CASE ListOfAtoms(v)
    <3>1. v.is = "array"
      BY <2>2 DEF ListOfAtoms
    <3>2. c = Array(CleanAtoms(v.v))
      BY <3>1 DEF CleanValue
    <3>3. c.is = "array"
      BY <3>2 DEF Array
    <3> QED
      BY <2>2, <3>2, <3>3, ListReturns
  <2> QED
    BY <2>1, <2>2
<1>2. e = Elem("member", Among(style, <<name, w>>)) /\ e.tag = "member"
  BY DEF MemberSpelt, EncodeMember, Elem
<1>3. name.tag = "name" /\ ElemText(name) = <<mm.name>>
  BY LeafText DEF Leaf, Elem
<1> HIDE DEF w, e, name, c
<1>4. Kids(e, "name") = <<name>> /\ Kids(e, "value") = <<w>>
  BY <1>1, <1>2, <1>3, KidsTwo
<1> DEFINE values == [i \in DOMAIN Kids(e, "value") |-> Parse2(Kids(e, "value")[i])]
<1>5. MemberRead(e) =
        Member(IF Kids(e, "name") = <<>> THEN "" ELSE ElemText(Last(Kids(e, "name")))[1],
               IF Broken(values) THEN Unreadable ELSE IF values = <<>> THEN Nil ELSE Last(values))
  BY DEF MemberRead, ParseMember, Each
<1>6. values = <<c>>
  <2> DEFINE one == <<w>>
  <2>1. DOMAIN one = {1} /\ one[1] = w
    BY OneText
  <2>2. values = [i \in DOMAIN one |-> Parse2(one[i])]
    BY <1>4
  <2> HIDE DEF one
  <2>3. \A i \in {1} : Parse2(one[i]) = c
    BY <2>1, <1>1
  <2>4. values = [i \in {1} |-> c]
    BY <2>1, <2>2, <2>3
  <2> HIDE DEF values
  <2> QED
    BY <2>4
<1> HIDE DEF values
<1>7. ~Broken(values) /\ values # <<>> /\ Last(values) = c
  <2>1. DOMAIN values = {1} /\ values[1] = c /\ Len(values) = 1
    BY <1>6, OneText
  <2> QED
    BY <2>1, <1>1, <1>6 DEF Broken, Last
<1>8. Last(<<name>>) = name /\ <<name>> # <<>>
  BY DEF Last
<1>9. ElemText(name)[1] = mm.name
  BY <1>3
<1>10. MemberRead(e) = Member(mm.name, c)
  BY <1>4, <1>5, <1>7, <1>8, <1>9
<1>11. CleanMember(mm) = Member(mm.name, c) /\ Member(mm.name, c).value = c
  BY DEF CleanMember, Member, c
<1> QED
  BY <1>1, <1>2, <1>10, <1>11 DEF e

\* And so does the struct.
LEMMA DraftReturns ==
    ASSUME NEW d, IsDraft(d), NEW style
    PROVE  ParseValue(EncodeValue(style, d)) = CleanDraft(d) /\ EncodeValue(style, d).tag = "value"
<1> DEFINE ms == d.v  kids == [i \in DOMAIN ms |-> MemberSpelt(style, ms[i])]
           e == Elem("struct", Among(style, kids))
<1>1. d.is = "struct" /\ IsText(ms) /\ \A n \in DOMAIN ms : Atomic(ms[n].value) \/ ListOfAtoms(ms[n].value)
  BY DEF IsDraft, Struct
<1>2. EncodeValue(style, d) = Wrapped(style, e)
  <2>1. WrittenInside(style, d, Encode2) = kids
    BY <1>1 DEF WrittenInside, MemberSpelt
  <2> HIDE DEF kids
  <2>2. EncodeInner(style, d, kids) = e
    BY <1>1 DEF EncodeInner
  <2> HIDE DEF e
  <2> QED
    BY <2>1, <2>2 DEF EncodeValue, EncodeWith, Wrapped
<1>3. \A n \in DOMAIN ms : /\ MemberRead(MemberSpelt(style, ms[n])) = CleanMember(ms[n])
                           /\ MemberSpelt(style, ms[n]).tag = "member"
                           /\ CleanMember(ms[n]).value.is # "unreadable"
  BY <1>1, MemberReturns
<1> HIDE DEF ms
<1>4. \A i \in DOMAIN ms : kids[i] = MemberSpelt(style, ms[i])
  OBVIOUS
<1>5. IsText(kids) /\ DOMAIN kids = DOMAIN ms
  <2>1. kids = [i \in DOMAIN ms |-> kids[i]]
    BY <1>4
  <2> HIDE DEF kids
  <2> QED
    BY <1>1, <2>1, OverText
<1>6. \A i \in DOMAIN kids : kids[i].tag = "member" /\ MemberRead(kids[i]) = CleanMember(ms[i])
  BY <1>3, <1>4, <1>5
<1> HIDE DEF kids
<1>7. Kids(e, "member") = kids /\ e.tag = "struct"
  BY <1>5, <1>6, KidsAll DEF Elem
<1>8. ParseValue(Wrapped(style, e)) = TypedWith(e, Parse2) /\ Wrapped(style, e).tag = "value"
  <2> HIDE DEF e
  <2> QED
    BY <1>7, Unwrapped
<1> HIDE DEF e
<1>9. TypedWith(e, Parse2) = ParseStruct(MembersOf(e, Parse2))
  BY <1>7 DEF TypedWith, ParseTyped
<1> DEFINE members == [i \in DOMAIN Kids(e, "member") |-> MemberRead(Kids(e, "member")[i])]
<1>10. ParseStruct(MembersOf(e, Parse2)) =
         IF \E i \in DOMAIN members : members[i].value.is = "unreadable" THEN Unreadable ELSE Struct(members)
  BY DEF ParseStruct, MembersOf, MemberRead, Each
<1>11. members = [n \in DOMAIN ms |-> CleanMember(ms[n])]
  BY <1>5, <1>6, <1>7
<1>12. ~\E i \in DOMAIN members : members[i].value.is = "unreadable"
  BY <1>3, <1>11
<1> HIDE DEF members
<1>13. ParseStruct(MembersOf(e, Parse2)) = CleanDraft(d)
  BY <1>10, <1>11, <1>12 DEF CleanDraft, ms
<1> QED
  BY <1>2, <1>8, <1>9, <1>13

-----------------------------------------------------------------------------
(* Calls and answers. *)

\* What a call or an answer may carry, and what is read of it.
Readable(v) == Atomic(v) \/ IsDraft(v)
CleanParam(v) == IF v.is = "struct" THEN CleanDraft(v) ELSE CleanAtom(v)
CleanParams(vs) == [n \in DOMAIN vs |-> CleanParam(vs[n])]

\* One parameter comes back.
LEMMA ParamReturns ==
    ASSUME NEW v, Readable(v), NEW style, NEW p, p = Elem("param", Among(style, <<EncodeValue(style, v)>>))
    PROVE  ParseParam(p) = CleanParam(v) /\ CleanParam(v).is # "unreadable" /\ p.tag = "param"
<1> DEFINE w == EncodeValue(style, v)  c == CleanParam(v)
<1>1. ParseValue(w) = c /\ w.tag = "value" /\ c.is # "unreadable"
  <2>1. CASE Atomic(v)
    <3>1. v.is # "struct"
      BY <2>1, AtomKinds DEF AtomKind
    <3>2. c = CleanAtom(v)
      BY <3>1 DEF CleanParam
    <3> QED
      BY <2>1, <3>2, AtomReturns, SpeltIs
  <2>2. CASE IsDraft(v)
    <3>1. v.is = "struct"
      BY <2>2 DEF IsDraft, Struct
    <3>2. c = CleanDraft(v)
      BY <3>1 DEF CleanParam
    <3>3. c.is = "struct"
      BY <3>2 DEF CleanDraft, Struct
    <3> QED
      BY <2>2, <3>2, <3>3, DraftReturns
  <2> QED
    BY <2>1, <2>2 DEF Readable
<1>2. p = Elem("param", Among(style, <<w>>)) /\ p.tag = "param"
  BY DEF Elem
<1> HIDE DEF w, c
<1>3. Kids(p, "value") = <<w>>
  BY <1>1, <1>2, KidsOne
<1> DEFINE values == [i \in DOMAIN Kids(p, "value") |-> ParseValue(Kids(p, "value")[i])]
<1>4. ParseParam(p) = IF Broken(values) THEN Unreadable ELSE IF values = <<>> THEN Str(<<>>) ELSE values[1]
  BY DEF ParseParam, Each
<1>5. values = <<c>>
  <2> DEFINE one == <<w>>
  <2>1. DOMAIN one = {1} /\ one[1] = w
    BY OneText
  <2>2. values = [i \in DOMAIN one |-> ParseValue(one[i])]
    BY <1>3
  <2> HIDE DEF one
  <2>3. \A i \in {1} : ParseValue(one[i]) = c
    BY <2>1, <1>1
  <2>4. values = [i \in {1} |-> c]
    BY <2>1, <2>2, <2>3
  <2> HIDE DEF values
  <2> QED
    BY <2>4
<1> HIDE DEF values
<1>6. ~Broken(values) /\ values # <<>> /\ values[1] = c
  <2>1. DOMAIN values = {1} /\ values[1] = c
    BY <1>5, OneText
  <2> QED
    BY <2>1, <1>1, <1>5 DEF Broken
<1> QED
  BY <1>1, <1>2, <1>4, <1>6 DEF c

\* And a list of them.
LEMMA ParamsReturn ==
    ASSUME NEW vs, IsText(vs), \A n \in DOMAIN vs : Readable(vs[n]), NEW style
    PROVE  /\ ParseParams(EncodeParams(style, vs)) = CleanParams(vs)
           /\ ~Broken(CleanParams(vs))
<1> DEFINE kids == [i \in DOMAIN vs |-> Elem("param", Among(style, <<EncodeValue(style, vs[i])>>))]
           e == EncodeParams(style, vs)
<1>1. \A i \in DOMAIN vs : ParseParam(kids[i]) = CleanParam(vs[i]) /\ CleanParam(vs[i]).is # "unreadable"
                            /\ kids[i].tag = "param"
  <2> SUFFICES ASSUME NEW i \in DOMAIN vs
               PROVE  ParseParam(kids[i]) = CleanParam(vs[i]) /\ CleanParam(vs[i]).is # "unreadable"
                      /\ kids[i].tag = "param"
    OBVIOUS
  <2>1. kids[i] = Elem("param", Among(style, <<EncodeValue(style, vs[i])>>)) /\ Readable(vs[i])
    OBVIOUS
  <2> HIDE DEF kids
  <2> QED
    BY <2>1, ParamReturns
<1>2. e = Elem("params", Among(style, kids))
  BY DEF EncodeParams
<1>3. IsText(kids) /\ DOMAIN kids = DOMAIN vs
  <2>1. kids = [i \in DOMAIN vs |-> kids[i]]
    OBVIOUS
  <2> HIDE DEF kids
  <2> QED
    BY <2>1, OverText
<1> HIDE DEF kids, e
<1>4. Kids(e, "param") = kids
  BY <1>1, <1>2, <1>3, KidsAll
<1>5. ParseParams(e) = [i \in DOMAIN Kids(e, "param") |-> ParseParam(Kids(e, "param")[i])]
  BY DEF ParseParams, Each
<1>6. ParseParams(e) = CleanParams(vs)
  BY <1>1, <1>3, <1>4, <1>5 DEF CleanParams
<1>7. ~Broken(CleanParams(vs))
  BY <1>1 DEF Broken, CleanParams
<1> QED
  BY <1>6, <1>7 DEF e

\* A packet that is read at all is of the method it was sent for, and it is read
\* when its parameters are.
THEOREM CallReturns ==
    ASSUME NEW style, NEW method, method # "blank", NEW ps
    PROVE  LET call == DecodeCall(EncodeCall(style, method, ps)) IN
           /\ call = NoCall \/ call.method = method
           /\ IsText(ps) /\ (\A n \in DOMAIN ps : Readable(ps[n]))
              => call = [method |-> method, params |-> CleanParams(ps)]
<1> DEFINE name == Leaf("methodName", <<method>>)  list == EncodeParams(style, ps)
           root == EncodeCall(style, method, ps)
           names == Kids(root, "methodName")  lists == Kids(root, "params")
           call == [method |-> Trim(ElemText(Last(names)))[1],
                    params |-> IF lists = <<>> THEN <<>> ELSE ParseParams(Last(lists))]
<1>1. root = Elem("methodCall", Among(style, <<name, list>>)) /\ root.tag = "methodCall"
  BY DEF EncodeCall, Elem
<1>2. name.tag = "methodName" /\ ElemText(name) = <<method>> /\ list.tag = "params"
  BY LeafText DEF Leaf, Elem, EncodeParams
<1>3. DecodeCall(root) = IF root.tag # "methodCall" \/ names = <<>> THEN NoCall
                         ELSE IF Broken(call.params) THEN NoCall ELSE call
  BY DEF DecodeCall
<1>4. ASSUME IsText(ps), \A n \in DOMAIN ps : Readable(ps[n])
      PROVE  ParseParams(list) = CleanParams(ps) /\ ~Broken(CleanParams(ps))
  BY <1>4, ParamsReturn
<1> HIDE DEF name, list, root
<1>5. names = <<name>> /\ lists = <<list>>
  BY <1>1, <1>2, KidsTwo
<1>6. Last(<<name>>) = name /\ <<name>> # <<>> /\ Last(<<list>>) = list /\ <<list>> # <<>>
  BY DEF Last
<1>7. Trim(<<method>>) = <<method>>
  BY TrimOne
<1>8. call = [method |-> method, params |-> ParseParams(list)]
  BY <1>2, <1>5, <1>6, <1>7
<1>9. call.method = method /\ call.params = ParseParams(list) /\ names # <<>>
  BY <1>5, <1>6, <1>8
<1>10. DecodeCall(root) = NoCall \/ DecodeCall(root).method = method
  BY <1>3, <1>9
<1>11. ASSUME IsText(ps), \A n \in DOMAIN ps : Readable(ps[n])
       PROVE  DecodeCall(root) = [method |-> method, params |-> CleanParams(ps)]
  BY <1>1, <1>3, <1>4, <1>8, <1>9, <1>11
<1> QED
  BY <1>10, <1>11 DEF root

\* What the blog answers is what a client reads.
THEOREM AnswerReturns ==
    ASSUME NEW v, Readable(v)
    PROVE  DecodeResponse(EncodeResponse(v)) = [fault |-> FALSE, value |-> CleanParam(v)]
<1> DEFINE vs == <<v>>  list == EncodeParams("typed", vs)  root == EncodeResponse(v)
<1>1. root = Elem("methodResponse", Among("typed", <<list>>)) /\ root.kids = <<list>>
  BY DEF EncodeResponse, Among, Elem
<1>2. list.tag = "params"
  BY DEF EncodeParams, Elem
<1>3. ParseParams(list)[1] = CleanParam(v)
  <2>1. IsText(vs) /\ DOMAIN vs = {1} /\ vs[1] = v
    BY OneText
  <2> HIDE DEF vs
  <2>2. \A n \in DOMAIN vs : Readable(vs[n])
    BY <2>1
  <2>3. ParseParams(list) = CleanParams(vs)
    BY <2>1, <2>2, ParamsReturn
  <2> QED
    BY <2>1, <2>3 DEF CleanParams
<1> HIDE DEF list, root
<1>4. Kids(root, "params") = <<list>>
  BY <1>1, <1>2, KidsOne
<1>5. Kids(root, "fault") = <<>>
  <2> DEFINE K == {i \in DOMAIN root.kids : root.kids[i].tag = "fault"}
  <2>1. K = {}
    BY <1>1, <1>2, OneText
  <2>2. Kids(root, "fault") = Picked(root.kids, K)
    BY DEF Kids
  <2> HIDE DEF K
  <2> QED
    BY <2>1, <2>2, PickedNone
<1>6. <<list>> # <<>> /\ <<list>>[1] = list
  OBVIOUS
<1> QED
  BY <1>3, <1>4, <1>5, <1>6 DEF DecodeResponse, root

-----------------------------------------------------------------------------
(* What is read of a draft. *)

\* What is read of what a client sends is what a client could send.
LEMMA CleanIs ==
    /\ \A v : Atomic(v) => Atomic(CleanAtom(v))
    /\ \A d : IsDraft(d) => IsDraft(CleanDraft(d))
<1>1. ASSUME NEW v, Atomic(v) PROVE Atomic(CleanAtom(v))
  <2>0. /\ v.is \in AtomKind
        /\ v.is = "string" => v = Str(v.v) /\ IsText(v.v)
        /\ v.is = "int" => v = Number(v.v)
        /\ v.is = "boolean" => v = Bool(v.v) /\ v.v \in BOOLEAN
        /\ v.is = "date" => v = Date(v.v) /\ v.v \in Clocks
        /\ v.is = "base64" => v = Bits(v.v)
        /\ v.is = "nil" => v = Nil
    BY <1>1, AtomKinds
  <2>1. \A t : IsText(t) => Atomic(Str(t))
    BY DEF Atomic, Str
  <2>2. CASE v.is = "string"
    <3>1. CleanAtom(v) = Str(Escaped(v.v)) /\ IsText(Escaped(v.v))
      BY <2>0, <2>2, EscapedIs DEF CleanAtom
    <3> QED
      BY <2>1, <3>1
  <2>3. CASE v.is = "nil"
    <3>1. CleanAtom(v) = Str(<<>>)
      BY <2>3 DEF CleanAtom
    <3>2. IsText(<<>>)
      BY DEF IsText
    <3> QED
      BY <2>1, <3>1, <3>2
  <2>4. CASE v.is = "int"
    <3>1. CleanAtom(v) = Number(IF v.v = 0 THEN 0 ELSE 1)
      BY <2>4 DEF CleanAtom
    <3>2. \A n : Atomic(Number(n))
      BY DEF Atomic, Number
    <3> QED
      BY <3>1, <3>2
  <2>5. CASE v.is \in {"boolean", "date", "base64"}
    <3>1. CleanAtom(v) = v
      BY <2>5 DEF CleanAtom
    <3> QED
      BY <1>1, <3>1
  <2> QED
    BY <2>0, <2>2, <2>3, <2>4, <2>5 DEF AtomKind
<1>2. ASSUME NEW v, ListOfAtoms(v) PROVE ListOfAtoms(Array(CleanAtoms(v.v)))
  <2> DEFINE vs == v.v  cs == CleanAtoms(vs)
  <2>1. IsText(vs) /\ \A n \in DOMAIN vs : Atomic(vs[n])
    BY <1>2 DEF ListOfAtoms
  <2>2. cs = [n \in DOMAIN vs |-> cs[n]] /\ \A n \in DOMAIN vs : cs[n] = CleanAtom(vs[n])
    BY DEF CleanAtoms
  <2> HIDE DEF vs, cs
  <2>3. IsText(cs) /\ DOMAIN cs = DOMAIN vs
    BY <2>1, <2>2, OverText
  <2>4. \A n \in DOMAIN cs : Atomic(cs[n])
    BY <1>1, <2>1, <2>2, <2>3
  <2>5. Array(cs).is = "array" /\ Array(cs).v = cs
    BY DEF Array
  <2> QED
    BY <2>3, <2>4, <2>5 DEF ListOfAtoms, cs, vs
<1>3. ASSUME NEW v, Atomic(v) \/ ListOfAtoms(v) PROVE Atomic(CleanValue(v)) \/ ListOfAtoms(CleanValue(v))
  <2>1. CASE Atomic(v)
    <3>1. v.is # "array"
      BY <2>1, AtomKinds DEF AtomKind
    <3> QED
      BY <2>1, <3>1, <1>1 DEF CleanValue
  <2>2. CASE ListOfAtoms(v)
    <3>1. v.is = "array"
      BY <2>2 DEF ListOfAtoms
    <3> QED
      BY <2>2, <3>1, <1>2 DEF CleanValue
  <2> QED
    BY <1>3, <2>1, <2>2
<1>4. ASSUME NEW d, IsDraft(d) PROVE IsDraft(CleanDraft(d))
  <2> DEFINE ms == d.v  cs == [n \in DOMAIN ms |-> CleanMember(ms[n])]
  <2>1. IsText(ms) /\ \A n \in DOMAIN ms : Atomic(ms[n].value) \/ ListOfAtoms(ms[n].value)
    BY <1>4 DEF IsDraft
  <2>2. CleanDraft(d) = Struct(cs)
    BY DEF CleanDraft
  <2>3. cs = [n \in DOMAIN ms |-> cs[n]] /\ \A n \in DOMAIN ms : cs[n] = CleanMember(ms[n])
    OBVIOUS
  <2> HIDE DEF ms, cs
  <2>4. IsText(cs) /\ DOMAIN cs = DOMAIN ms
    BY <2>1, <2>3, OverText
  <2>5. \A n \in DOMAIN cs : cs[n].name = ms[n].name /\ cs[n].value = CleanValue(ms[n].value)
                             /\ cs[n] = Member(cs[n].name, cs[n].value)
    BY <2>3, <2>4 DEF CleanMember, Member
  <2>6. \A n \in DOMAIN cs : Atomic(cs[n].value) \/ ListOfAtoms(cs[n].value)
    BY <1>3, <2>1, <2>4, <2>5
  <2>7. Struct(cs).v = cs
    BY DEF Struct
  <2> QED
    BY <2>2, <2>4, <2>5, <2>6, <2>7 DEF IsDraft
<1> QED
  BY <1>1, <1>4

\* The first member that is named so is the one that is read.
LEMMA GetIs ==
    ASSUME NEW s, IsText(s.v), NEW n, Has(s, n)
    PROVE  \E i \in DOMAIN s.v : /\ SameName(s.v[i].name, n) /\ Get(s, n) = s.v[i].value
                                 /\ \A j \in DOMAIN s.v : SameName(s.v[j].name, n) => i <= j
<1> DEFINE at == {i \in DOMAIN s.v : SameName(s.v[i].name, n)}  i == Min(at)
<1>1. DOMAIN s.v = 1..Len(s.v)
  BY TextIs
<1>2. at \in SUBSET Nat /\ at # {}
  BY <1>1 DEF Has
<1>3. i \in at /\ \A j \in at : i <= j
  <2> HIDE DEF at
  <2> QED
    BY <1>2, MinOf
<1>4. Get(s, n) = s.v[i].value
  BY DEF Get
<1> HIDE DEF i
<1> QED
  BY <1>3, <1>4

\* What a draft says is text.
LEMMA SaysText ==
    ASSUME NEW d, IsDraft(d)
    PROVE  /\ \A n : Has(d, n) => Atomic(Get(d, n)) \/ ListOfAtoms(Get(d, n))
           /\ \A n : IsText(StrOf(d, n))
<1>1. IsText(d.v) /\ \A i \in DOMAIN d.v : Atomic(d.v[i].value) \/ ListOfAtoms(d.v[i].value)
  BY DEF IsDraft
<1>2. ASSUME NEW n, Has(d, n) PROVE Atomic(Get(d, n)) \/ ListOfAtoms(Get(d, n))
  BY <1>1, <1>2, GetIs
<1>3. IsText(<<>>) /\ \A p : IsText(<<p>>)
  BY OneText DEF IsText
<1>4. ASSUME NEW v, Atomic(v) \/ ListOfAtoms(v) PROVE IsText(AsString(v))
  <2>1. CASE Atomic(v)
    <3>1. v.is \in AtomKind /\ (v.is = "string" => IsText(v.v))
      BY <2>1, AtomKinds
    <3>2. CASE v.is = "string"
      BY <3>1, <3>2 DEF AsString
    <3>3. CASE v.is = "int"
      BY <1>3, <3>3 DEF AsString
    <3>4. CASE v.is = "boolean"
      BY <1>3, <3>4 DEF AsString
    <3>5. CASE v.is \in {"date", "base64"}
      BY <1>3, <3>5 DEF AsString
    <3>6. CASE v.is = "nil"
      BY <1>3, <3>6 DEF AsString
    <3> QED
      BY <3>1, <3>2, <3>3, <3>4, <3>5, <3>6 DEF AtomKind
  <2>2. CASE ListOfAtoms(v)
    <3>1. v.is = "array"
      BY <2>2 DEF ListOfAtoms
    <3> QED
      BY <1>3, <3>1 DEF AsString
  <2> QED
    BY <1>4, <2>1, <2>2
<1>5. ASSUME NEW n PROVE IsText(StrOf(d, n))
  BY <1>2, <1>3, <1>4 DEF StrOf
<1> QED
  BY <1>2, <1>5

\* Whatever is split, the first half has a tag only where it starts with one.
LEMMA SplitIs ==
    ASSUME NEW t, IsText(t)
    PROVE  /\ IsText(SplitMore(t).body) /\ IsText(SplitMore(t).more)
           /\ TagFirst(SplitMore(t))
<1> DEFINE cuts == {i \in DOMAIN t : t[i] = "<more/>"}  k == Min(cuts)  N == Len(t)
<1>1. N \in Nat /\ DOMAIN t = 1..N
  BY TextIs
<1> HIDE DEF N
<1>2. cuts \in SUBSET Nat /\ cuts \subseteq 1..N
  BY <1>1
<1>3. SplitMore(t) = IF cuts = {} \/ k = 1 THEN [body |-> t, more |-> <<>>]
                     ELSE IF \E i \in 1..(k - 1) : t[i] = "Kelvin"
                     THEN [body |-> Trim(SubSeq(t, 1, k - 2) \o <<"torn">>),
                           more |-> Trim(<<"torn">> \o SubSeq(t, k + 1, N))]
                     ELSE [body |-> Trim(SubSeq(t, 1, k - 1)), more |-> Trim(SubSeq(t, k + 1, N))]
  BY DEF SplitMore, N
<1>4. cuts # {} => k \in cuts /\ \A i \in cuts : k <= i
  <2> HIDE DEF cuts
  <2> QED
    BY <1>2, MinOf
<1>5. CASE cuts = {} \/ k = 1
  <2>1. SplitMore(t) = [body |-> t, more |-> <<>>]
    BY <1>3, <1>5
  <2>2. IsText(<<>>)
    BY DEF IsText
  <2> DEFINE e == Escaped(t)
  <2>3. \A i \in DOMAIN e : \E j \in DOMAIN t : e[i] = t[j]
    <3>1. ToSet(e) \subseteq ToSet(t)
      BY EscapedIs
    <3> QED
      BY <3>1 DEF ToSet
  <2>4. 1 \in cuts => e[1] = "<more/>"
    BY EscapedFirst
  <2>5. \A i \in DOMAIN e : e[i] = "<more/>" => e[1] = "<more/>"
    <3> SUFFICES ASSUME NEW i \in DOMAIN e, e[i] = "<more/>" PROVE e[1] = "<more/>"
      OBVIOUS
    <3>1. PICK j \in DOMAIN t : e[i] = t[j]
      BY <2>3
    <3>2. j \in cuts
      BY <3>1
    <3> HIDE DEF cuts, e, k
    <3>3. 1 \in cuts
      BY <3>2, <1>4, <1>5
    <3> QED
      BY <3>3, <2>4
  <2> HIDE DEF e
  <2>6. TagFirst(SplitMore(t))
    BY <2>1, <2>5 DEF TagFirst, e
  <2> QED
    BY <2>1, <2>2, <2>6
<1>6. CASE ~(cuts = {} \/ k = 1)
  <2> DEFINE torn == <<"torn">>  moved == \E i \in 1..(k - 1) : t[i] = "Kelvin"
             q0 == SubSeq(t, k + 1, N)
             p == IF moved THEN SubSeq(t, 1, k - 2) \o torn ELSE SubSeq(t, 1, k - 1)
             q == IF moved THEN torn \o q0 ELSE q0  u == Trim(p)  e == Escaped(u)
  <2>1. SplitMore(t) = [body |-> u, more |-> Trim(q)]
    BY <1>3, <1>6
  <2>2. \A i \in 1..N : i < k => t[i] # "<more/>"
    <3> SUFFICES ASSUME NEW i \in 1..N, t[i] = "<more/>", i < k PROVE FALSE
      OBVIOUS
    <3>1. i \in cuts
      BY <1>1
    <3> HIDE DEF cuts, k
    <3>2. k <= i /\ k \in 1..N
      BY <3>1, <1>2, <1>4
    <3> QED
      BY <3>2, <1>1
  <2>3. k \in 1..N /\ k # 1
    <3> HIDE DEF k, cuts
    <3> QED
      BY <1>2, <1>4, <1>6
  <2> HIDE DEF k, cuts, moved
  <2>4. IsText(torn) /\ Len(torn) = 1 /\ torn[1] = "torn" /\ DOMAIN torn = {1}
    BY OneText
  <2> HIDE DEF torn
  <2>5. IsText(q)
    <3> DEFINE a == k + 1
    <3>1. a \in 1..(Len(t) + 1) /\ N \in 0..Len(t)
      BY <2>3, <1>1 DEF N
    <3> HIDE DEF a
    <3>2. IsText(q0)
      BY <3>1, CutIs DEF a
    <3> HIDE DEF q0
    <3>3. IsText(torn \o q0)
      BY <2>4, <3>2, Joined
    <3> QED
      BY <3>2, <3>3
  <2>6. ASSUME NEW a \in 0..(k - 1)
        PROVE  LET h == SubSeq(t, 1, a) IN IsText(h) /\ \A i \in DOMAIN h : h[i] # "<more/>"
    <3> DEFINE b == 1  h == SubSeq(t, b, a)
    <3>1. a \in 0..Len(t) /\ b \in 1..(Len(t) + 1)
      BY <2>3, <1>1 DEF N
    <3> HIDE DEF b
    <3>2. IsText(h) /\ Len(h) = (IF b <= a THEN a - b + 1 ELSE 0) /\ \A i \in 1..Len(h) : h[i] = t[b + i - 1]
      BY <3>1, CutIs
    <3>3. Len(h) = a /\ DOMAIN h = 1..Len(h)
      BY <3>2, TextIs DEF b
    <3> HIDE DEF h
    <3>4. \A i \in 1..a : b + i - 1 = i /\ i \in 1..N /\ i < k
      BY <2>3, <1>1 DEF b
    <3>5. \A i \in DOMAIN h : h[i] # "<more/>"
      BY <3>2, <3>3, <3>4, <2>2
    <3> QED
      BY <3>2, <3>5 DEF h, b
  <2>7. IsText(p) /\ \A i \in DOMAIN p : p[i] # "<more/>"
    <3>1. CASE ~moved
      <4>1. k - 1 \in 0..(k - 1)
        BY <2>3, <1>1
      <4> QED
        BY <3>1, <4>1, <2>6
    <3>2. CASE moved
      <4> DEFINE a == k - 2  h == SubSeq(t, 1, a)  w == h \o torn
      <4>1. a \in 0..(k - 1)
        BY <2>3, <1>1
      <4>2. p = w
        BY <3>2
      <4> HIDE DEF a, p
      <4>3. IsText(h) /\ \A i \in DOMAIN h : h[i] # "<more/>"
        BY <4>1, <2>6
      <4> HIDE DEF h
      <4>4. DOMAIN h = 1..Len(h) /\ Len(h) \in Nat
        BY <4>3, TextIs
      <4>5. /\ IsText(w) /\ Len(w) = Len(h) + Len(torn) /\ (\A i \in 1..Len(h) : w[i] = h[i])
            /\ \A i \in 1..Len(torn) : w[Len(h) + i] = torn[i]
        <5>1. IsText(h) /\ IsText(torn)
          BY <2>4, <4>3
        <5> QED
          BY <5>1, Joined
      <4>6. DOMAIN w = 1..(Len(h) + 1) /\ w[Len(h) + 1] = "torn"
        BY <2>4, <4>5, TextIs
      <4> HIDE DEF w
      <4>7. ASSUME NEW i \in 1..(Len(h) + 1) PROVE w[i] # "<more/>"
        <5>1. i \in 1..Len(h) \/ i = Len(h) + 1
          BY <4>4
        <5> QED
          BY <5>1, <4>3, <4>4, <4>5, <4>6
      <4> QED
        BY <4>2, <4>5, <4>6, <4>7
    <3> QED
      BY <3>1, <3>2
  <2> HIDE DEF p, q
  <2>8. IsText(u) /\ IsText(Trim(q)) /\ \A i \in DOMAIN u : u[i] # "<more/>"
    BY <2>5, <2>7, TrimTwice, TrimKeeps
  <2>9. \A i \in DOMAIN e : e[i] # "<more/>"
    <3> HIDE DEF u
    <3>1. ToSet(e) \subseteq ToSet(u)
      BY <2>8, EscapedIs
    <3> QED
      BY <3>1, <2>8 DEF ToSet
  <2> HIDE DEF e, u
  <2>10. TagFirst(SplitMore(t))
    BY <2>1, <2>9 DEF TagFirst, e
  <2> QED
    BY <2>1, <2>8, <2>10
<1> QED
  BY <1>5, <1>6

-----------------------------------------------------------------------------
(* The row a save leaves. *)

\* Every text of a clock is an instant the blog's clock shows.
LEMMA AnInstant ==
    /\ \A d : InZone(d) \in DOMAIN Wall
    /\ \A k, d : Instant(k, d) \in DOMAIN Wall
<1>1. Now \in DOMAIN Wall /\ (\A d \in DOMAIN Gmt : Gmt[d] \in DOMAIN Wall) /\ \A d \in DOMAIN Zoned : Zoned[d] \in DOMAIN Wall
  BY XmlrpcAssumption
<1>2. ASSUME NEW d PROVE InZone(d) \in DOMAIN Wall
  <2> DEFINE at == {t \in DOMAIN Wall : Wall[t] = d}
  <2>1. CASE d \in DOMAIN Zoned
    BY <1>1, <2>1 DEF InZone
  <2>2. CASE d \notin DOMAIN Zoned /\ at # {}
    <3>1. InZone(d) = CHOOSE t \in at : TRUE
      BY <2>2 DEF InZone
    <3>2. (CHOOSE t \in at : TRUE) \in at
      <4> HIDE DEF at
      <4> QED
        BY <2>2
    <3> QED
      BY <3>1, <3>2
  <2>3. CASE d \notin DOMAIN Zoned /\ at = {}
    <3>1. InZone(d) = CHOOSE t \in DOMAIN Wall : TRUE
      BY <2>3 DEF InZone
    <3> QED
      BY <1>1, <3>1
  <2> QED
    BY <2>1, <2>2, <2>3
<1>3. ASSUME NEW k, NEW d PROVE Instant(k, d) \in DOMAIN Wall
  BY <1>1, <1>2 DEF Instant
<1> QED
  BY <1>2, <1>3

\* A post is dated by an instant, or not at all.
LEMMA DatedBy == \A in : PostedFrom(in).at \in {0} \union DOMAIN Wall
<1> TAKE in
<1> DEFINE said == {n \in DOMAIN DateKeys : Has(in, DateKeys[n]) /\ SaysDate(Get(in, DateKeys[n]))}
           key == DateKeys[Min(said)]
           v == Get(in, key)
<1>1. PostedFrom(in) =
        IF said = {} THEN [bad |-> FALSE, at |-> 0]
        ELSE IF v.is = "date" THEN [bad |-> FALSE, at |-> Instant(key, v.v)]
        ELSE IF IsClock(Trim(v.v)) THEN [bad |-> FALSE, at |-> InZone(Trim(v.v)[1])]
        ELSE [bad |-> TRUE, at |-> 0]
  BY DEF PostedFrom
<1> HIDE DEF said, key, v
<1>2. Instant(key, v.v) \in DOMAIN Wall /\ InZone(Trim(v.v)[1]) \in DOMAIN Wall
  BY AnInstant
<1> QED
  BY <1>1, <1>2

\* What a client says yes or no with is yes or no.
LEMMA YesOrNo ==
    ASSUME NEW v, Atomic(v) \/ ListOfAtoms(v) \/ IsDraft(v)
    PROVE  ToBool(v, TRUE) \in BOOLEAN
<1>1. v.is = "boolean" => v.v \in BOOLEAN
  <2>1. Atomic(v) => (v.is = "boolean" => v.v \in BOOLEAN)
    BY AtomKinds
  <2>2. ListOfAtoms(v) => v.is = "array"
    BY DEF ListOfAtoms
  <2>3. IsDraft(v) => v.is = "struct"
    BY DEF IsDraft, Struct
  <2> QED
    BY <2>1, <2>2, <2>3
<1>2. CASE v.is = "boolean"
  BY <1>1, <1>2 DEF ToBool
<1>3. CASE v.is = "int"
  BY <1>3 DEF ToBool
<1>4. CASE v.is \notin {"boolean", "int"}
  BY <1>4 DEF ToBool
<1> QED
  BY <1>2, <1>3, <1>4

\* A row that can be told apart from none, and reads as it was written.
GoodRow(e) == IsRow(e) /\ TagFirst(e)

\* What a save leaves is a row.
LEMMA SavedIsRow ==
    ASSUME NEW in, IsDraft(in), NEW was, was = NoPost \/ IsRow(was), NEW publish \in BOOLEAN,
           NEW by, NEW marked
    PROVE  GoodRow(SavedRow(in, was, publish, by, marked))
<1> DEFINE text == StrOf(in, "description")
           back == IF marked THEN UnescapeMarkup(text) ELSE text
           split == SplitMore(FixEditorEntities(back))
           date == PostedFrom(in).at
           posted == IF date # 0 THEN date ELSE IF was = NoPost THEN Now ELSE was.posted
           then == IF was # NoPost /\ ~was.released /\ publish /\ posted < Now THEN Now ELSE posted
           more == IF split.more = <<>> THEN StrOf(in, "mt_text_more") ELSE split.more
           allow == IF Has(in, "mt_allow_comments") THEN ToBool(Get(in, "mt_allow_comments"), TRUE) ELSE TRUE
           cats == IF SaysCategories(in) THEN CategoryIDs(Names(in)) ELSE IF was = NoPost THEN {} ELSE was.cats
           writer == IF was = NoPost THEN by ELSE was.by
           row == SavedRow(in, was, publish, by, marked)
<1>1. row = [title |-> StrOf(in, "title"), body |-> split.body, more |-> more, allow |-> allow, posted |-> then,
             released |-> publish, by |-> writer, cats |-> cats]
  BY DEF SavedRow
<1>2. \A n : IsText(StrOf(in, n))
  BY SaysText
<1>3. IsText(split.body) /\ IsText(split.more) /\ TagFirst(split)
  <2>1. IsText(back)
    <3> HIDE DEF text
    <3>1. IsText(text)
      BY <1>2 DEF text
    <3> QED
      BY <3>1, PieceByPiece
  <2> HIDE DEF back
  <2>2. IsText(FixEditorEntities(back))
    BY <2>1, FixIs DEF Alike
  <2> QED
    BY <2>2, SplitIs
<1>4. allow \in BOOLEAN
  <2>1. Has(in, "mt_allow_comments") => ToBool(Get(in, "mt_allow_comments"), TRUE) \in BOOLEAN
    BY SaysText, YesOrNo
  <2> QED
    BY <2>1
<1>5. then \in DOMAIN Wall
  <2>1. date \in {0} \union DOMAIN Wall
    BY DatedBy
  <2>2. Now \in DOMAIN Wall /\ (was # NoPost => was.posted \in DOMAIN Wall)
    BY XmlrpcAssumption DEF IsRow
  <2> HIDE DEF date
  <2>3. posted \in DOMAIN Wall
    BY <2>1, <2>2
  <2> HIDE DEF posted
  <2> QED
    BY <2>2, <2>3
<1>6. IsText(more)
  <2> HIDE DEF split
  <2> QED
    BY <1>2, <1>3
<1>7. IsText(StrOf(in, "title"))
  BY <1>2
<1> DEFINE title == StrOf(in, "title")
<1> HIDE DEF split, more, allow, then, writer, cats, row, title
<1>8. row = [title |-> title, body |-> split.body, more |-> more, allow |-> allow, posted |-> then,
             released |-> publish, by |-> writer, cats |-> cats]
  BY <1>1 DEF title
<1>9. IsText(title)
  BY <1>7 DEF title
<1>10. IsRow(row)
  BY <1>3, <1>4, <1>5, <1>6, <1>8, <1>9 DEF IsRow
<1>11. TagFirst(row)
  BY <1>3, <1>8 DEF TagFirst
<1> QED
  BY <1>10, <1>11 DEF GoodRow, row

\* Every post is such a row, or none.
GoodRows(ps) ==
    /\ ps = [i \in Ids |-> ps[i]]
    /\ \A i \in Ids : ps[i] = NoPost \/ GoodRow(ps[i])
XmlInv == GoodRows(posts)

\* So they are as the web editor left them.
LEMMA FirstRows == XmlInit => XmlInv
<1> SUFFICES ASSUME XmlInit PROVE XmlInv
  OBVIOUS
<1>1. posts \in [Ids -> {NoPost} \union Written]
  BY DEF XmlInit
<1>2. ASSUME NEW e \in Written PROVE GoodRow(e)
  <2>1. IsRow(e) /\ "<more/>" \notin ToSet(e.body)
    BY XmlrpcAssumption
  <2>2. IsText(e.body)
    BY <2>1 DEF IsRow
  <2>3. ToSet(Escaped(e.body)) \subseteq ToSet(e.body)
    BY <2>2, EscapedIs
  <2>4. TagFirst(e)
    BY <2>1, <2>3 DEF TagFirst, ToSet
  <2> QED
    BY <2>1, <2>4 DEF GoodRow
<1> QED
  BY <1>1, <1>2 DEF XmlInv, GoodRows

-----------------------------------------------------------------------------
(* The calls. *)

\* What a call comes to that names one of the methods that write, or getPost.
LEMMA Dispatched ==
    ASSUME NEW call, NEW marked
    PROVE  LET out == Dispatch(call, marked)  params == call.params
               two == AuthFault(params, 2)  three == AuthFault(params, 3) IN
           /\ call.method = "getPost" => out = IF two # 0 THEN Refuses(two) ELSE GetPost(params, marked)
           /\ call.method = "newPost" => out = IF two # 0 THEN Refuses(two) ELSE SavePost(params, marked, FALSE)
           /\ call.method = "editPost" => out = IF two # 0 THEN Refuses(two) ELSE SavePost(params, marked, TRUE)
           /\ call.method = "deletePost" => out = IF three # 0 THEN Refuses(three) ELSE DeletePost(params)
           /\ call.method = "newMediaObject" => out = IF two # 0 THEN Refuses(two) ELSE NewMediaObject(params)
           /\ call.method = "setPostCategories" => out = IF two # 0 THEN Refuses(two) ELSE SetPostCategories(params)
<1> DEFINE out == Dispatch(call, marked)  params == call.params
           two == AuthFault(params, 2)  three == AuthFault(params, 3)
<1> DEFINE auth == AuthFault(params, IF call.method = "deletePost" THEN 3 ELSE 2)
<1>0. auth = IF call.method = "deletePost" THEN three ELSE two
  OBVIOUS
<1>1. ASSUME call.method = "getPost" PROVE out = IF two # 0 THEN Refuses(two) ELSE GetPost(params, marked)
  <2>1. auth = two
    BY <1>0, <1>1
  <2>2. CASE auth # 0
    <3>1. out = Refuses(auth)
      BY <1>1, <2>2 DEF Dispatch
    <3> QED
      BY <2>1, <2>2, <3>1
  <2>3. CASE auth = 0
    <3>1. out = GetPost(params, marked)
      BY <1>1, <2>3 DEF Dispatch
    <3> QED
      BY <2>1, <2>3, <3>1
  <2> QED
    BY <2>2, <2>3
<1>2. ASSUME call.method = "newPost" PROVE out = IF two # 0 THEN Refuses(two) ELSE SavePost(params, marked, FALSE)
  <2>1. auth = two
    BY <1>0, <1>2
  <2>2. CASE auth # 0
    <3>1. out = Refuses(auth)
      BY <1>2, <2>2 DEF Dispatch
    <3> QED
      BY <2>1, <2>2, <3>1
  <2>3. CASE auth = 0
    <3>1. out = SavePost(params, marked, FALSE)
      BY <1>2, <2>3 DEF Dispatch
    <3> QED
      BY <2>1, <2>3, <3>1
  <2> QED
    BY <2>2, <2>3
<1>3. ASSUME call.method = "editPost" PROVE out = IF two # 0 THEN Refuses(two) ELSE SavePost(params, marked, TRUE)
  <2>1. auth = two
    BY <1>0, <1>3
  <2>2. CASE auth # 0
    <3>1. out = Refuses(auth)
      BY <1>3, <2>2 DEF Dispatch
    <3> QED
      BY <2>1, <2>2, <3>1
  <2>3. CASE auth = 0
    <3>1. out = SavePost(params, marked, TRUE)
      BY <1>3, <2>3 DEF Dispatch
    <3> QED
      BY <2>1, <2>3, <3>1
  <2> QED
    BY <2>2, <2>3
<1>4. ASSUME call.method = "deletePost" PROVE out = IF three # 0 THEN Refuses(three) ELSE DeletePost(params)
  <2>1. auth = three
    BY <1>0, <1>4
  <2>2. CASE auth # 0
    <3>1. out = Refuses(auth)
      BY <1>4, <2>2 DEF Dispatch
    <3> QED
      BY <2>1, <2>2, <3>1
  <2>3. CASE auth = 0
    <3>1. out = DeletePost(params)
      BY <1>4, <2>3 DEF Dispatch
    <3> QED
      BY <2>1, <2>3, <3>1
  <2> QED
    BY <2>2, <2>3
<1>5. ASSUME call.method = "newMediaObject" PROVE out = IF two # 0 THEN Refuses(two) ELSE NewMediaObject(params)
  <2>1. auth = two
    BY <1>0, <1>5
  <2>2. CASE auth # 0
    <3>1. out = Refuses(auth)
      BY <1>5, <2>2 DEF Dispatch
    <3> QED
      BY <2>1, <2>2, <3>1
  <2>3. CASE auth = 0
    <3>1. out = NewMediaObject(params)
      BY <1>5, <2>3 DEF Dispatch
    <3> QED
      BY <2>1, <2>3, <3>1
  <2> QED
    BY <2>2, <2>3
<1>6. ASSUME call.method = "setPostCategories" PROVE out = IF two # 0 THEN Refuses(two) ELSE SetPostCategories(params)
  <2>1. auth = two
    BY <1>0, <1>6
  <2>2. CASE auth # 0
    <3>1. out = Refuses(auth)
      BY <1>6, <2>2 DEF Dispatch
    <3> QED
      BY <2>1, <2>2, <3>1
  <2>3. CASE auth = 0
    <3>1. out = SetPostCategories(params)
      BY <1>6, <2>3 DEF Dispatch
    <3> QED
      BY <2>1, <2>3, <3>1
  <2> QED
    BY <2>2, <2>3
<1> QED
  BY <1>1, <1>2, <1>3, <1>4, <1>5, <1>6

\* A refusal leaves the posts.
LEMMA RefusalKeeps == \A code : Refuses(code).posts = posts /\ Refuses(code).fault = code
BY DEF Refuses

\* The calls that write, as they are sent.
Saves(c) ==
    /\ c.method \in {"newPost", "editPost"} /\ IsText(c.params)
    /\ \A n \in DOMAIN c.params : Readable(c.params[n])
    /\ Len(c.params) \in {4, 5} /\ IsDraft(c.params[4])

\* Three in a row, four, and five.
LEMMA InARow ==
    /\ \A a, b, c : <<a>> \o <<b, c>> = <<a, b, c>>
    /\ \A a, b, c, d : <<a>> \o <<b, c>> \o <<d>> = <<a, b, c, d>>
    /\ \A a, b, c, d, e : <<a>> \o <<b, c>> \o <<d, e>> = <<a, b, c, d, e>>
    /\ \A a, b, c : IsText(<<a, b, c>>)
    /\ \A a, b, c, d : IsText(<<a, b, c, d>>)
    /\ \A a, b, c, d, e : IsText(<<a, b, c, d, e>>)
<1>0. ASSUME NEW a, NEW b, NEW c PROVE <<a>> \o <<b, c>> = <<a, b, c>>
  <2> DEFINE s == <<a>>  t == <<b, c>>  w == <<a, b, c>>
  <2>1. IsText(s) /\ IsText(t) /\ IsText(w)
    BY DEF IsText, ToSet
  <2>2. Len(s) = 1 /\ Len(t) = 2 /\ Len(w) = 3
    OBVIOUS
  <2>3. s[1] = a
    OBVIOUS
  <2>4. t[1] = b /\ t[2] = c
    OBVIOUS
  <2>5. w[1] = a /\ w[2] = b /\ w[3] = c
    OBVIOUS
  <2> HIDE DEF s, t, w
  <2> DEFINE z == s \o t
  <2>6. IsText(z) /\ Len(z) = Len(s) + Len(t) /\ (\A i \in 1..Len(s) : z[i] = s[i]) /\ \A i \in 1..Len(t) : z[Len(s) + i] = t[i]
    BY <2>1, Joined
  <2> HIDE DEF z
  <2>7. Len(z) = 3 /\ z[1] = a /\ z[2] = b /\ z[3] = c
    BY <2>2, <2>3, <2>4, <2>6
  <2>8. \A i \in 1..Len(z) : z[i] = w[i]
    BY <2>5, <2>7
  <2>9. z = w
    BY <2>1, <2>2, <2>6, <2>7, <2>8, SameText
  <2> QED
    BY <2>9 DEF z, s, t, w
<1>5. ASSUME NEW a, NEW b, NEW c, NEW d PROVE <<a, b, c>> \o <<d>> = <<a, b, c, d>>
  <2> DEFINE s == <<a, b, c>>  t == <<d>>  w == <<a, b, c, d>>
  <2>1. IsText(s) /\ IsText(t) /\ IsText(w)
    BY DEF IsText, ToSet
  <2>2. Len(s) = 3 /\ Len(t) = 1 /\ Len(w) = 4
    OBVIOUS
  <2>3. s[1] = a /\ s[2] = b /\ s[3] = c
    OBVIOUS
  <2>4. t[1] = d
    OBVIOUS
  <2>5. w[1] = a /\ w[2] = b /\ w[3] = c /\ w[4] = d
    OBVIOUS
  <2> HIDE DEF s, t, w
  <2> DEFINE z == s \o t
  <2>6. IsText(z) /\ Len(z) = Len(s) + Len(t) /\ (\A i \in 1..Len(s) : z[i] = s[i]) /\ \A i \in 1..Len(t) : z[Len(s) + i] = t[i]
    BY <2>1, Joined
  <2> HIDE DEF z
  <2>7. Len(z) = 4 /\ z[1] = a /\ z[2] = b /\ z[3] = c /\ z[4] = d
    BY <2>2, <2>3, <2>4, <2>6
  <2>8. \A i \in 1..Len(z) : z[i] = w[i]
    BY <2>5, <2>7
  <2>9. z = w
    BY <2>1, <2>2, <2>6, <2>7, <2>8, SameText
  <2> QED
    BY <2>9 DEF z, s, t, w
<1>6. ASSUME NEW a, NEW b, NEW c, NEW d, NEW e PROVE <<a, b, c>> \o <<d, e>> = <<a, b, c, d, e>>
  <2> DEFINE s == <<a, b, c>>  t == <<d, e>>  w == <<a, b, c, d, e>>
  <2>1. IsText(s) /\ IsText(t) /\ IsText(w)
    BY DEF IsText, ToSet
  <2>2. Len(s) = 3 /\ Len(t) = 2 /\ Len(w) = 5
    OBVIOUS
  <2>3. s[1] = a /\ s[2] = b /\ s[3] = c
    OBVIOUS
  <2>4. t[1] = d /\ t[2] = e
    OBVIOUS
  <2>5. w[1] = a /\ w[2] = b /\ w[3] = c /\ w[4] = d /\ w[5] = e
    OBVIOUS
  <2> HIDE DEF s, t, w
  <2> DEFINE z == s \o t
  <2>6. IsText(z) /\ Len(z) = Len(s) + Len(t) /\ (\A i \in 1..Len(s) : z[i] = s[i]) /\ \A i \in 1..Len(t) : z[Len(s) + i] = t[i]
    BY <2>1, Joined
  <2> HIDE DEF z
  <2>7. Len(z) = 5 /\ z[1] = a /\ z[2] = b /\ z[3] = c /\ z[4] = d /\ z[5] = e
    BY <2>2, <2>3, <2>4, <2>6
  <2>8. \A i \in 1..Len(z) : z[i] = w[i]
    BY <2>5, <2>7
  <2>9. z = w
    BY <2>1, <2>2, <2>6, <2>7, <2>8, SameText
  <2> QED
    BY <2>9 DEF z, s, t, w
<1>1. ASSUME NEW a, NEW b, NEW c, NEW d PROVE <<a>> \o <<b, c>> \o <<d>> = <<a, b, c, d>>
  <2> DEFINE x == <<a>> \o <<b, c>>
  <2>1. x = <<a, b, c>>
    BY <1>0
  <2>2. <<a, b, c>> \o <<d>> = <<a, b, c, d>>
    BY <1>5
  <2> HIDE DEF x
  <2>3. x \o <<d>> = <<a, b, c, d>>
    BY <2>1, <2>2, Zenon
  <2> QED
    BY <2>3 DEF x
<1>2. ASSUME NEW a, NEW b, NEW c, NEW d, NEW e PROVE <<a>> \o <<b, c>> \o <<d, e>> = <<a, b, c, d, e>>
  <2> DEFINE x == <<a>> \o <<b, c>>
  <2>1. x = <<a, b, c>>
    BY <1>0
  <2>2. <<a, b, c>> \o <<d, e>> = <<a, b, c, d, e>>
    BY <1>6
  <2> HIDE DEF x
  <2>3. x \o <<d, e>> = <<a, b, c, d, e>>
    BY <2>1, <2>2, Zenon
  <2> QED
    BY <2>3 DEF x
<1>3. \A a, b, c, d : IsText(<<a, b, c, d>>)
  BY DEF IsText, ToSet
<1>4. \A a, b, c, d, e : IsText(<<a, b, c, d, e>>)
  BY DEF IsText, ToSet
<1>7. \A a, b, c : IsText(<<a, b, c>>)
  BY DEF IsText, ToSet
<1> QED
  BY <1>0, <1>1, <1>2, <1>3, <1>4, <1>7

\* A call is one of these, or of three that save no draft.
LEMMA CallsAre ==
    ASSUME NEW u, NEW c \in Calls(u)
    PROVE  Saves(c) \/ c.method \in {"setPostCategories", "deletePost", "newMediaObject"}
<1> DEFINE login == Login(u, Password[u])  s == Str(<<u>>)  p == Str(<<Password[u]>>)
<1>0. login = <<s, p>> /\ Readable(s) /\ Readable(p) /\ \A w : Readable(Str(<<w>>)) /\ \A b \in BOOLEAN : Readable(Bool(b))
  <2>1. \A w : Atomic(Str(<<w>>))
    BY OneText DEF Atomic, Str
  <2>2. \A b \in BOOLEAN : Atomic(Bool(b))
    BY DEF Atomic, Bool
  <2> QED
    BY <2>1, <2>2 DEF Readable, Login
<1> HIDE DEF login, s, p
<1>1. c \in NewPost(login) \/ (\E i \in Ids : c \in EditPost(i, login) \/ c \in FilePost(i, login))
      \/ (\E i \in Ids : c \in Withdraw(i, login)) \/ c \in UploadMedia("photo", "bits", login)
  <2> DEFINE free == {i \in Ids : ~Stored(i)}
             A == IF \E i \in free : Alone(i) THEN NewPost(login) ELSE {}
             B == UNION {EditPost(i, login) \union FilePost(i, login) : i \in {j \in Ids : Alone(j)}}
             C == UNION {Withdraw(i, login) : i \in Ids}
             D == IF free = Ids THEN UploadMedia("photo", "bits", login) ELSE {}
  <2>1. c \in A \/ c \in B \/ c \in C \/ c \in D
    <3>1. Calls(u) = A \union B \union C \union D
      BY DEF Calls, login
    <3> HIDE DEF A, B, C, D
    <3> QED
      BY <3>1
  <2>2. \A x \in A : x \in NewPost(login)
    OBVIOUS
  <2>3. \A x \in B : \E i \in Ids : x \in EditPost(i, login) \/ x \in FilePost(i, login)
    OBVIOUS
  <2>4. \A x \in C : \E i \in Ids : x \in Withdraw(i, login)
    OBVIOUS
  <2>5. \A x \in D : x \in UploadMedia("photo", "bits", login)
    OBVIOUS
  <2> HIDE DEF A, B, C, D
  <2> QED
    BY <2>1, <2>2, <2>3, <2>4, <2>5
<1>2. CASE c \in NewPost(login)
  <2>1. PICK d \in Drafts, publish \in BOOLEAN, marked \in BOOLEAN :
          c = Call("typed", "newPost", <<Str(<<"appkey">>)>> \o login \o <<d, Bool(publish)>>, marked)
    BY <1>2 DEF NewPost
  <2> DEFINE a == Str(<<"appkey">>)  b == Bool(publish)  ps == <<a, s, p, d, b>>
  <2>2. Readable(a) /\ Readable(d) /\ Readable(b) /\ IsDraft(d)
    BY <1>0, XmlrpcAssumption DEF Readable
  <2>3. c = Call("typed", "newPost", <<a>> \o <<s, p>> \o <<d, b>>, marked)
    BY <2>1, <1>0
  <2> HIDE DEF a, b
  <2>4. <<a>> \o <<s, p>> \o <<d, b>> = ps /\ IsText(ps)
    BY InARow
  <2>5. c.method = "newPost" /\ c.params = ps
    BY <2>3, <2>4 DEF Call
  <2>6. \A n \in DOMAIN ps : Readable(ps[n])
    BY <1>0, <2>2
  <2>7. Len(ps) = 5 /\ ps[4] = d
    OBVIOUS
  <2> QED
    BY <2>2, <2>4, <2>5, <2>6, <2>7 DEF Saves
<1>3. ASSUME NEW i \in Ids, c \in EditPost(i, login) PROVE Saves(c)
  <2>1. PICK d \in Drafts : c = Call("bare", "editPost", <<Str(<<i>>)>> \o login \o <<d>>, FALSE)
    BY <1>3 DEF EditPost
  <2> DEFINE a == Str(<<i>>)  ps == <<a, s, p, d>>
  <2>2. Readable(a) /\ Readable(d) /\ IsDraft(d)
    BY <1>0, XmlrpcAssumption DEF Readable
  <2>3. c = Call("bare", "editPost", <<a>> \o <<s, p>> \o <<d>>, FALSE)
    BY <2>1, <1>0
  <2> HIDE DEF a
  <2>4. <<a>> \o <<s, p>> \o <<d>> = ps /\ IsText(ps)
    BY InARow
  <2>5. c.method = "editPost" /\ c.params = ps
    BY <2>3, <2>4 DEF Call
  <2>6. \A n \in DOMAIN ps : Readable(ps[n])
    BY <1>0, <2>2
  <2>7. Len(ps) = 4 /\ ps[4] = d
    OBVIOUS
  <2> QED
    BY <2>2, <2>4, <2>5, <2>6, <2>7 DEF Saves
<1>4. ASSUME NEW i \in Ids, c \in FilePost(i, login) PROVE c.method = "setPostCategories"
  <2>1. PICK b \in DOMAIN CatName : c = Call("chatty", "setPostCategories",
          <<Str(<<i>>)>> \o login \o <<Array(<<Category(b, "categoryId"), Str(<<"gone">>)>>)>>, FALSE)
    BY <1>4 DEF FilePost
  <2> DEFINE ps == <<Str(<<i>>)>> \o login \o <<Array(<<Category(b, "categoryId"), Str(<<"gone">>)>>)>>
  <2>2. c = Call("chatty", "setPostCategories", ps, FALSE)
    BY <2>1
  <2> HIDE DEF ps
  <2> QED
    BY <2>2 DEF Call
<1>5. ASSUME NEW i \in Ids, c \in Withdraw(i, login) PROVE c.method = "deletePost"
  BY <1>5 DEF Withdraw, Call
<1>6. ASSUME c \in UploadMedia("photo", "bits", login) PROVE c.method = "newMediaObject"
  BY <1>6 DEF UploadMedia, Call
<1> QED
  BY <1>1, <1>2, <1>3, <1>4, <1>5, <1>6

\* A save leaves rows where there were rows.
LEMMA SaveKeeps ==
    ASSUME GoodRows(posts), NEW q, IsDraft(q[4]), NEW marked, NEW editing,
           Len(q) < 5 \/ Atomic(q[5]) \/ IsDraft(q[5])
    PROVE  GoodRows(SavePost(q, marked, editing).posts)
<1> DEFINE in == q[4]
           publish == IF Len(q) < 5 THEN TRUE ELSE ToBool(q[5], TRUE)
           found == Named(AsString(q[1]))
           free == {i \in Ids : ~Stored(i)}
           by == CHOOSE u \in DOMAIN Password : <<u>> = User(q, 2)
           saved(i) == [posts EXCEPT ![i] = SavedRow(in, posts[i], publish, by, marked)]
           first == CHOOSE i \in free : TRUE
           out == SavePost(q, marked, editing)
<1>1. out.posts = posts \/ (\E i : out.posts = saved(i))
  <2>1. out = IF Len(q) < 4 THEN Refuses(BadParams)
              ELSE IF in.is # "struct" THEN Refuses(BadParams)
              ELSE IF PostedFrom(in).bad THEN Refuses(BadParams)
              ELSE IF editing
              THEN IF found = {} THEN Refuses(BadParams)
                   ELSE Says(Bool(TRUE), saved(CHOOSE i \in found : TRUE), media)
              ELSE Says(Str(<<first>>), saved(first), media)
    BY DEF SavePost
  <2>2. \A v, ps, fs : Says(v, ps, fs).posts = ps
    BY DEF Says
  <2> HIDE DEF saved, out, found, first, in
  <2>3. CASE out = Refuses(BadParams)
    BY <2>3, RefusalKeeps
  <2>4. CASE out = Says(Bool(TRUE), saved(CHOOSE i \in found : TRUE), media)
    <3> DEFINE k == CHOOSE i \in found : TRUE
    <3>1. out = Says(Bool(TRUE), saved(k), media)
      BY <2>4
    <3> HIDE DEF k
    <3>2. out.posts = saved(k)
      BY <2>2, <3>1
    <3> QED
      BY <3>2
  <2>5. CASE out = Says(Str(<<first>>), saved(first), media)
    BY <2>2, <2>5
  <2> QED
    BY <2>1, <2>3, <2>4, <2>5
<1>2. publish \in BOOLEAN
  <2>1. ~(Len(q) < 5) => ToBool(q[5], TRUE) \in BOOLEAN
    BY YesOrNo
  <2> QED
    BY <2>1
<1> HIDE DEF publish, by, in, out
<1>3. posts = [i \in Ids |-> posts[i]] /\ \A i \in Ids : posts[i] = NoPost \/ GoodRow(posts[i])
  BY DEF GoodRows
<1>4. ASSUME NEW i PROVE GoodRows(saved(i))
  <2> DEFINE row == SavedRow(in, posts[i], publish, by, marked)
  <2>1. i \in Ids => GoodRow(row)
    <3> SUFFICES ASSUME i \in Ids PROVE GoodRow(row)
      OBVIOUS
    <3> DEFINE was == posts[i]
    <3>1. was = NoPost \/ IsRow(was)
      BY <1>3 DEF GoodRow
    <3>2. IsDraft(in)
      BY DEF in
    <3> HIDE DEF was
    <3>3. GoodRow(SavedRow(in, was, publish, by, marked))
      BY <1>2, <3>1, <3>2, SavedIsRow
    <3> QED
      BY <3>3 DEF was
  <2>2. saved(i) = [posts EXCEPT ![i] = row]
    OBVIOUS
  <2> HIDE DEF row, saved
  <2>3. saved(i) = [j \in Ids |-> saved(i)[j]] /\ \A j \in Ids : saved(i)[j] = IF j = i THEN row ELSE posts[j]
    BY <2>2, <1>3
  <2> QED
    BY <2>1, <2>3, <1>3 DEF GoodRows
<1> QED
  BY <1>1, <1>4 DEF out

\* Filing and withdrawing too.
LEMMA OthersKeep ==
    ASSUME GoodRows(posts), NEW q
    PROVE  /\ GoodRows(DeletePost(q).posts) /\ NewMediaObject(q).posts = posts
           /\ GoodRows(SetPostCategories(q).posts)
<1>0. posts = [i \in Ids |-> posts[i]] /\ \A i \in Ids : posts[i] = NoPost \/ GoodRow(posts[i])
  BY DEF GoodRows
<1>1. GoodRows(DeletePost(q).posts)
  <2> DEFINE found == Named(AsString(q[2]))  ps == [i \in Ids |-> IF i \in found THEN NoPost ELSE posts[i]]
  <2>1. DeletePost(q).posts \in {posts, ps}
    BY DEF DeletePost, Says, Refuses
  <2>2. GoodRows(ps)
    BY <1>0 DEF GoodRows
  <2> QED
    BY <2>1, <2>2
<1>2. NewMediaObject(q).posts = posts
  <2>1. \A v, fs : Says(v, posts, fs).posts = posts
    BY DEF Says
  <2> QED
    BY <2>1, RefusalKeeps, Zenon DEF NewMediaObject
<1>3. GoodRows(SetPostCategories(q).posts)
  <2> DEFINE found == Named(AsString(q[1]))
  <2>1. \E S : SetPostCategories(q).posts \in
          {posts, [i \in Ids |-> IF i \in found THEN [posts[i] EXCEPT !.cats = S] ELSE posts[i]]}
    BY DEF SetPostCategories, Says, Refuses
  <2>2. PICK S : SetPostCategories(q).posts \in
          {posts, [i \in Ids |-> IF i \in found THEN [posts[i] EXCEPT !.cats = S] ELSE posts[i]]}
    BY <2>1
  <2> DEFINE ps == [i \in Ids |-> IF i \in found THEN [posts[i] EXCEPT !.cats = S] ELSE posts[i]]
  <2>3. ASSUME NEW e, GoodRow(e) PROVE GoodRow([e EXCEPT !.cats = S])
    <3> DEFINE f == [e EXCEPT !.cats = S]
    <3>1. IsRow(e) /\ TagFirst(e)
      BY <2>3 DEF GoodRow
    <3>2. f = [title |-> e.title, body |-> e.body, more |-> e.more, allow |-> e.allow,
               posted |-> e.posted, released |-> e.released, by |-> e.by, cats |-> S]
      BY <3>1 DEF IsRow
    <3> HIDE DEF f
    <3>3. IsRow(f)
      BY <3>1, <3>2 DEF IsRow
    <3>4. TagFirst(f)
      BY <3>1, <3>2 DEF TagFirst
    <3> QED
      BY <3>3, <3>4 DEF GoodRow, f
  <2>4. \A i \in found : i \in Ids /\ posts[i] # NoPost
    BY DEF Named, Stored
  <2>5. GoodRows(ps)
    <3> HIDE DEF found
    <3>1. \A i \in Ids : ps[i] = NoPost \/ GoodRow(ps[i])
      BY <1>0, <2>3, <2>4
    <3> QED
      BY <3>1 DEF GoodRows
  <2> QED
    BY <2>2, <2>5
<1> QED
  BY <1>1, <1>2, <1>3

-----------------------------------------------------------------------------
(* Posts are rows. *)

\* What clients may send is read as something they may send.
LEMMA CleanReadable ==
    ASSUME NEW ps, IsText(ps), \A n \in DOMAIN ps : Readable(ps[n])
    PROVE  /\ IsText(CleanParams(ps)) /\ Len(CleanParams(ps)) = Len(ps)
           /\ \A n \in DOMAIN ps : /\ CleanParams(ps)[n] = CleanParam(ps[n])
                                   /\ Readable(CleanParams(ps)[n])
                                   /\ IsDraft(ps[n]) => IsDraft(CleanParams(ps)[n])
<1> DEFINE q == CleanParams(ps)
<1>1. q = [n \in DOMAIN ps |-> q[n]] /\ \A n \in DOMAIN ps : q[n] = CleanParam(ps[n])
  BY DEF CleanParams
<1> HIDE DEF q
<1>2. IsText(q) /\ Len(q) = Len(ps)
  BY <1>1, OverText
<1>3. ASSUME NEW v PROVE /\ IsDraft(v) => IsDraft(CleanParam(v))
                         /\ Readable(v) => Readable(CleanParam(v))
  <2>1. ASSUME IsDraft(v) PROVE IsDraft(CleanParam(v))
    <3>1. v.is = "struct"
      BY <2>1 DEF IsDraft, Struct
    <3> QED
      BY <2>1, <3>1, CleanIs DEF CleanParam
  <2>2. ASSUME Atomic(v) PROVE Atomic(CleanParam(v))
    <3>1. v.is # "struct"
      BY <2>2, AtomKinds DEF AtomKind
    <3> QED
      BY <2>2, <3>1, CleanIs DEF CleanParam
  <2> QED
    BY <2>1, <2>2 DEF Readable
<1>4. \A n \in DOMAIN ps : Readable(q[n]) /\ (IsDraft(ps[n]) => IsDraft(q[n]))
  BY <1>1, <1>3
<1> QED
  BY <1>1, <1>2, <1>4 DEF q

\* Whatever a client sends, rows stay rows.
LEMMA SentKeeps ==
    ASSUME GoodRows(posts), NEW u, NEW c \in Calls(u)
    PROVE  GoodRows(Sent(c.style, c.method, c.params, c.marked).posts)
<1> DEFINE call == DecodeCall(EncodeCall(c.style, c.method, c.params))  params == call.params  marked == c.marked
           out == Sent(c.style, c.method, c.params, c.marked)
<1>1. Saves(c) \/ c.method \in {"setPostCategories", "deletePost", "newMediaObject"}
  BY CallsAre
<1>2. c.method # "blank"
  BY <1>1 DEF Saves
<1>3. out = IF call = NoCall THEN Refuses(Parse) ELSE Dispatch(call, marked)
  BY DEF Sent, Handle
<1>4. call = NoCall \/ call.method = c.method
  BY <1>2, CallReturns
<1>5. Saves(c) => call = [method |-> c.method, params |-> CleanParams(c.params)]
  BY <1>2, CallReturns DEF Saves
<1>6. \A code : GoodRows(Refuses(code).posts)
  BY RefusalKeeps
<1> HIDE DEF call, out
<1>7. CASE call = NoCall
  BY <1>3, <1>6, <1>7 DEF out
<1>8. CASE call # NoCall /\ Saves(c)
  <2> DEFINE ps == c.params
  <2>1. IsText(ps) /\ (\A n \in DOMAIN ps : Readable(ps[n])) /\ Len(ps) \in {4, 5} /\ IsDraft(ps[4])
    BY <1>8 DEF Saves
  <2>2. params = CleanParams(ps) /\ call.method \in {"newPost", "editPost"}
    BY <1>5, <1>8 DEF Saves
  <2> HIDE DEF ps, params
  <2>3. 4 \in DOMAIN ps /\ (Len(ps) = 5 => 5 \in DOMAIN ps)
    <3>1. DOMAIN ps = 1..Len(ps)
      BY <2>1, TextIs
    <3> QED
      BY <2>1, <3>1
  <2>4. Len(params) = Len(ps) /\ IsDraft(params[4]) /\ (Len(ps) = 5 => Readable(params[5]))
    BY <2>1, <2>2, <2>3, CleanReadable
  <2>5. Len(params) < 5 \/ Atomic(params[5]) \/ IsDraft(params[5])
    BY <2>1, <2>4 DEF Readable
  <2>6. \A editing : GoodRows(SavePost(params, marked, editing).posts)
    BY <2>4, <2>5, SaveKeeps
  <2>7. \E code : out = Refuses(code) \/ \E editing : out = SavePost(params, marked, editing)
    <3>1. out = Dispatch(call, marked)
      BY <1>3, <1>8
    <3> QED
      BY <2>2, <3>1, Dispatched DEF params
  <2> QED
    BY <1>6, <2>6, <2>7 DEF out
<1>9. CASE call # NoCall /\ c.method \in {"setPostCategories", "deletePost", "newMediaObject"}
  <2>1. out = Dispatch(call, marked) /\ call.method \in {"setPostCategories", "deletePost", "newMediaObject"}
    BY <1>3, <1>4, <1>9
  <2>2. (\E code : out = Refuses(code)) \/ out \in {DeletePost(params), NewMediaObject(params), SetPostCategories(params)}
    BY <2>1, Dispatched
  <2>3. /\ GoodRows(DeletePost(params).posts) /\ GoodRows(NewMediaObject(params).posts)
        /\ GoodRows(SetPostCategories(params).posts)
    BY OthersKeep
  <2> QED
    BY <1>6, <2>2, <2>3 DEF out
<1> QED
  BY <1>1, <1>7, <1>8, <1>9

\* Every post is a row a client may fetch, or none.
THEOREM PostsAreRows == XmlSpec => []XmlInv
<1>1. XmlInit => XmlInv
  BY FirstRows
<1>2. XmlInv /\ [XmlNext]_xmlVars => XmlInv'
  <2> SUFFICES ASSUME XmlInv, [XmlNext]_xmlVars PROVE XmlInv'
    OBVIOUS
  <2>1. CASE XmlNext
    <3>0. PICK u \in DOMAIN Password :
            \E c \in Calls(u) : posts' = Sent(c.style, c.method, c.params, c.marked).posts
      BY <2>1 DEF XmlNext
    <3>1. PICK c \in Calls(u) : posts' = Sent(c.style, c.method, c.params, c.marked).posts
      BY <3>0
    <3>2. GoodRows(Sent(c.style, c.method, c.params, c.marked).posts)
      BY SentKeeps DEF XmlInv
    <3> QED
      BY <3>1, <3>2 DEF XmlInv
  <2>2. CASE UNCHANGED xmlVars
    BY <2>2 DEF XmlInv, xmlVars
  <2> QED
    BY <2>1, <2>2
<1> QED
  BY <1>1, <1>2, PTL DEF XmlSpec

\* What XML drops it drops once.
LEMMA CleanTwice == \A d : IsDraft(d) => CleanDraft(CleanDraft(d)) = CleanDraft(d)
<1>1. ASSUME NEW v, Atomic(v) PROVE CleanAtom(CleanAtom(v)) = CleanAtom(v)
  <2>0. v.is \in AtomKind /\ (v.is = "string" => IsText(v.v))
    BY <1>1, AtomKinds
  <2>1. CASE v.is = "string"
    <3> DEFINE t == Escaped(v.v)
    <3>1. Escaped(t) = t /\ CleanAtom(v) = Str(t)
      BY <2>0, <2>1, EscapedTwice DEF CleanAtom
    <3> HIDE DEF t
    <3>2. CleanAtom(Str(t)) = Str(Escaped(t))
      BY DEF CleanAtom, Str
    <3> QED
      BY <3>1, <3>2
  <2>2. CASE v.is = "nil"
    <3>1. CleanAtom(v) = Str(<<>>)
      BY <2>2 DEF CleanAtom
    <3>2. CleanAtom(Str(<<>>)) = Str(Escaped(<<>>))
      BY DEF CleanAtom, Str
    <3>3. Escaped(<<>>) = <<>>
      <4> DEFINE t == <<>>
      <4>1. IsText(t) /\ \A i \in DOMAIN t : t[i] # "control"
        BY DEF IsText
      <4> HIDE DEF t
      <4>2. Escaped(t) = t
        BY <4>1, EscapedSame
      <4> QED
        BY <4>2 DEF t
    <3> QED
      BY <3>1, <3>2, <3>3
  <2>3. CASE v.is = "int"
    <3> DEFINE k == IF v.v = 0 THEN 0 ELSE 1
    <3>1. CleanAtom(v) = Number(k) /\ (IF k = 0 THEN 0 ELSE 1) = k
      BY <2>3 DEF CleanAtom
    <3> HIDE DEF k
    <3>2. CleanAtom(Number(k)) = Number(IF k = 0 THEN 0 ELSE 1)
      BY DEF CleanAtom, Number
    <3> QED
      BY <3>1, <3>2
  <2>4. CASE v.is \in {"boolean", "date", "base64"}
    <3>1. CleanAtom(v) = v
      BY <2>4 DEF CleanAtom
    <3> QED
      BY <3>1
  <2> QED
    BY <2>0, <2>1, <2>2, <2>3, <2>4 DEF AtomKind
<1>2. ASSUME NEW v, Atomic(v) \/ ListOfAtoms(v) PROVE CleanValue(CleanValue(v)) = CleanValue(v)
  <2>1. CASE Atomic(v)
    <3>1. v.is # "array" /\ CleanAtom(v).is # "array"
      BY <2>1, AtomKinds, CleanIs DEF AtomKind
    <3> QED
      BY <1>1, <2>1, <3>1 DEF CleanValue
  <2>2. CASE ListOfAtoms(v)
    <3> DEFINE vs == v.v  cs == CleanAtoms(vs)
    <3>1. v.is = "array" /\ \A n \in DOMAIN vs : Atomic(vs[n])
      BY <2>2 DEF ListOfAtoms
    <3>2. CleanValue(v) = Array(cs) /\ CleanValue(Array(cs)) = Array(CleanAtoms(cs))
      <4>1. CleanValue(v) = Array(cs)
        BY <3>1 DEF CleanValue
      <4> HIDE DEF cs
      <4>2. CleanValue(Array(cs)) = Array(CleanAtoms(cs))
        BY DEF CleanValue, Array
      <4> QED
        BY <4>1, <4>2
    <3> HIDE DEF vs
    <3>3. CleanAtoms(cs) = cs
      BY <1>1, <3>1 DEF CleanAtoms
    <3> QED
      BY <3>2, <3>3
  <2> QED
    BY <1>2, <2>1, <2>2
<1>3. ASSUME NEW d, IsDraft(d) PROVE CleanDraft(CleanDraft(d)) = CleanDraft(d)
  <2> DEFINE ms == d.v  cs == [n \in DOMAIN ms |-> CleanMember(ms[n])]
  <2>1. \A n \in DOMAIN ms : Atomic(ms[n].value) \/ ListOfAtoms(ms[n].value)
    BY <1>3 DEF IsDraft
  <2>2. CleanDraft(d) = Struct(cs)
    BY DEF CleanDraft
  <2>3. \A n \in DOMAIN ms : CleanMember(cs[n]) = cs[n]
    BY <1>2, <2>1 DEF CleanMember, Member
  <2>4. [n \in DOMAIN cs |-> CleanMember(cs[n])] = cs
    BY <2>3
  <2> HIDE DEF cs
  <2>5. CleanDraft(Struct(cs)) = Struct([n \in DOMAIN cs |-> CleanMember(cs[n])])
    BY DEF CleanDraft, Struct
  <2> QED
    BY <2>2, <2>4, <2>5
<1> QED
  BY <1>3

\* A member that is the only one of its name is what is read under it.
LEMMA ReadMember ==
    ASSUME NEW s, IsText(s.v), NEW n, NEW k \in DOMAIN s.v, s.v[k].name = n,
           \A j \in DOMAIN s.v : SameName(s.v[j].name, n) => j = k
    PROVE  Has(s, n) /\ Get(s, n) = s.v[k].value
<1>1. Has(s, n)
  BY DEF Has, SameName
<1> QED
  BY <1>1, GetIs

-----------------------------------------------------------------------------
(* The answer to getPost. *)

\* A finite set is listed, all of it.
LEMMA ListedAll ==
    ASSUME NEW S, IsFiniteSet(S)
    PROVE  /\ IsText(SetToSeq(S))
           /\ \A n \in DOMAIN SetToSeq(S) : SetToSeq(S)[n] \in S
           /\ \A c \in S : \E n \in DOMAIN SetToSeq(S) : SetToSeq(S)[n] = c
<1> DEFINE m == Cardinality(S)  f == SetToSeq(S)
<1>1. PICK k \in Nat : ExistsBijection(1..k, S)
  BY FS_NatBijection
<1>2. m = k
  BY <1>1, FS_CountingElements
<1>3. PICK g : g \in Bijection(1..m, S)
  <2>1. Bijection(1..k, S) # {}
    BY <1>1 DEF ExistsBijection
  <2> HIDE DEF m
  <2> QED
    BY <2>1, <1>2
<1>4. g \in [1..m -> S] /\ IsInjective(g)
  BY <1>3 DEF Bijection, Injection
<1>5. f \in [1..m -> S] /\ IsInjective(f)
  BY <1>4 DEF SetToSeq
<1> HIDE DEF f, m
<1>6. f \in Injection(1..m, S)
  BY <1>5 DEF Injection
<1>7. Cardinality(1..m) = m /\ m \in Nat
  BY <1>1, <1>2, FS_Interval
<1>8. f \in Surjection(1..m, S)
  BY <1>6, <1>7, FS_Injection DEF m
<1>9. f = [i \in 1..m |-> f[i]]
  BY <1>5
<1>10. IsText(f) /\ DOMAIN f = 1..m
  BY <1>7, <1>9, IsOne
<1>11. \A c \in S : \E i \in 1..m : f[i] = c
  BY <1>8 DEF Surjection
<1>12. \A n \in DOMAIN f : f[n] \in S
  BY <1>5, <1>10
<1>13. \A c \in S : \E n \in DOMAIN f : f[n] = c
  BY <1>10, <1>11
<1> QED
  BY <1>10, <1>12, <1>13 DEF f

\* What a client is sent of the text of a row, of its categories, and of the row.
Told(e, marked) == IF marked THEN EscapeMarkup(Joint(e)) ELSE Joint(e)
Filed(e) == [n \in DOMAIN FiledUnder(e) |-> Str(<<CatName[FiledUnder(e)[n]]>>)]

\* The categories of a row are a list of texts, each the name of one.
LEMMA FiledIs ==
    ASSUME NEW e
    PROVE  /\ IsText(Filed(e))
           /\ \A n \in DOMAIN Filed(e) : \E c \in e.cats \intersect DOMAIN CatName : Filed(e)[n] = Str(<<CatName[c]>>)
           /\ \A c \in e.cats \intersect DOMAIN CatName : \E n \in DOMAIN Filed(e) : Filed(e)[n] = Str(<<CatName[c]>>)
<1> DEFINE S == e.cats \intersect DOMAIN CatName  f == FiledUnder(e)  t == Filed(e)
<1>1. IsFiniteSet(S)
  <2>1. IsFiniteSet(DOMAIN CatName)
    BY XmlrpcAssumption
  <2>2. S \subseteq DOMAIN CatName
    OBVIOUS
  <2> HIDE DEF S
  <2> QED
    BY <2>1, <2>2, FS_Subset
<1>2. f = SetToSeq(S)
  BY DEF FiledUnder
<1> HIDE DEF S, f
<1>3. IsText(f) /\ (\A n \in DOMAIN f : f[n] \in S) /\ \A c \in S : \E n \in DOMAIN f : f[n] = c
  <2>1. /\ IsText(SetToSeq(S)) /\ \A n \in DOMAIN SetToSeq(S) : SetToSeq(S)[n] \in S
        /\ \A c \in S : \E n \in DOMAIN SetToSeq(S) : SetToSeq(S)[n] = c
    BY <1>1, ListedAll
  <2> QED
    BY <1>2, <2>1, Zenon
<1>4. t = [n \in DOMAIN f |-> t[n]] /\ \A n \in DOMAIN f : t[n] = Str(<<CatName[f[n]]>>)
  BY DEF Filed, f
<1> HIDE DEF t
<1>5. IsText(t) /\ DOMAIN t = DOMAIN f
  BY <1>3, <1>4, OverText
<1>6. \A n \in DOMAIN t : \E c \in S : t[n] = Str(<<CatName[c]>>)
  BY <1>3, <1>4, <1>5
<1>7. \A c \in S : \E n \in DOMAIN t : t[n] = Str(<<CatName[c]>>)
  BY <1>3, <1>4, <1>5
<1> QED
  BY <1>5, <1>6, <1>7 DEF t, S

\* The members of what a client is sent of a row.
TellsOf(ms, e, i, marked) ==
    /\ IsText(ms) /\ DOMAIN ms = 1..8
    /\ ms[1] = Member("title", Str(e.title))
    /\ ms[2] = Member("dateCreated", Date(Wall[e.posted]))
    /\ ms[3] = Member("userid", Str(<<e.by>>))
    /\ ms[4] = Member("postid", Str(<<i>>))
    /\ ms[5] = Member("description", Str(Told(e, marked)))
    /\ ms[6] = Member("mt_text_more", Str(<<>>))
    /\ ms[7] = Member("mt_allow_comments", Number(IF e.allow THEN 1 ELSE 0))
    /\ ms[8] = Member("categories", Array(Filed(e)))

\* It is these eight.
LEMMA StructIs ==
    ASSUME NEW i, NEW marked
    PROVE  \E ms : PostStruct(i, marked) = Struct(ms) /\ TellsOf(ms, posts[i], i, marked)
<1> DEFINE e == posts[i]
           a == Member("title", Str(e.title))
           b == Member("dateCreated", Date(Wall[e.posted]))
           c == Member("userid", Str(<<e.by>>))
           d == Member("postid", Str(<<i>>))
           f == Member("description", Str(Told(e, marked)))
           g == Member("mt_text_more", Str(<<>>))
           h == Member("mt_allow_comments", Number(IF e.allow THEN 1 ELSE 0))
           k == Member("categories", Array(Filed(e)))
           ms == <<a, b, c, d, f, g, h, k>>
<1>1. PostStruct(i, marked) = Struct(ms)
  BY DEF PostStruct, Told, Filed, Each
<1> HIDE DEF a, b, c, d, f, g, h, k
<1>2. IsText(ms)
  BY DEF IsText, ToSet
<1>3. DOMAIN ms = 1..8 /\ ms[1] = a /\ ms[2] = b /\ ms[3] = c /\ ms[4] = d /\ ms[5] = f /\ ms[6] = g /\ ms[7] = h /\ ms[8] = k
  OBVIOUS
<1> HIDE DEF ms
<1>4. TellsOf(ms, e, i, marked)
  BY <1>2, <1>3 DEF TellsOf, a, b, c, d, f, g, h, k
<1> QED
  BY <1>1, <1>4

\* And a client could have sent them.
LEMMA StructIsDraft ==
    ASSUME NEW e, GoodRow(e), NEW i, NEW marked, NEW ms, TellsOf(ms, e, i, marked)
    PROVE  IsDraft(Struct(ms))
<1>1. \A t : IsText(t) => Atomic(Str(t))
  BY DEF Atomic, Str
<1>2. IsText(e.title) /\ IsText(e.body) /\ IsText(e.more) /\ e.posted \in DOMAIN Wall
  BY DEF GoodRow, IsRow
<1>3. IsText(Told(e, marked))
  <2>1. IsText(Joint(e))
    BY <1>2, ThreeJoined DEF Joint
  <2> QED
    BY <2>1, LeftIs, PieceByPiece DEF Told
<1>4. Atomic(Date(Wall[e.posted]))
  <2>1. Wall[e.posted] \in Clocks
    BY <1>2, XmlrpcAssumption DEF Clocks
  <2> QED
    BY <2>1 DEF Atomic, Date
<1>5. \A n : Atomic(Number(n))
  BY DEF Atomic, Number
<1>6. ListOfAtoms(Array(Filed(e)))
  <2> DEFINE f == Filed(e)
  <2>1. IsText(f) /\ \A n \in DOMAIN f : \E c : f[n] = Str(<<c>>)
    BY FiledIs
  <2> HIDE DEF f
  <2>2. \A n \in DOMAIN f : Atomic(f[n])
    BY <1>1, <2>1, OneText
  <2>3. ListOfAtoms(Array(f))
    BY <2>1, <2>2 DEF ListOfAtoms, Array
  <2> QED
    BY <2>3 DEF f
<1>7. IsText(<<>>) /\ \A p : IsText(<<p>>)
  BY OneText DEF IsText
<1>8. \A n, v : Member(n, v).name = n /\ Member(n, v).value = v
  BY DEF Member
<1> DEFINE Fits(mm) == mm = Member(mm.name, mm.value) /\ (Atomic(mm.value) \/ ListOfAtoms(mm.value))
<1>9. \A n, v : Atomic(v) \/ ListOfAtoms(v) => Fits(Member(n, v))
  BY <1>8
<1> HIDE DEF Fits
<1>10. Fits(ms[1]) /\ Fits(ms[5])
  BY <1>1, <1>2, <1>3, <1>9 DEF TellsOf
<1>11. Fits(ms[2])
  BY <1>4, <1>9 DEF TellsOf
<1>12. Fits(ms[3]) /\ Fits(ms[4]) /\ Fits(ms[6])
  BY <1>1, <1>7, <1>9 DEF TellsOf
<1>13. Fits(ms[7])
  BY <1>5, <1>9 DEF TellsOf
<1>14. Fits(ms[8])
  BY <1>6, <1>9 DEF TellsOf
<1>15. IsText(ms) /\ DOMAIN ms = 1..8
  BY DEF TellsOf
<1>16. \A n \in 1..8 : n \in {1, 2, 3, 4, 5, 6, 7, 8}
  OBVIOUS
<1>17. \A n \in DOMAIN ms : Fits(ms[n])
  <2> SUFFICES ASSUME NEW n \in DOMAIN ms PROVE Fits(ms[n])
    OBVIOUS
  <2>1. n \in {1, 2, 3, 4, 5, 6, 7, 8}
    BY <1>15, <1>16
  <2> QED
    BY <2>1, <1>10, <1>11, <1>12, <1>13, <1>14
<1>18. Struct(ms).v = ms
  BY DEF Struct
<1> QED
  BY <1>15, <1>17, <1>18 DEF IsDraft, Fits

-----------------------------------------------------------------------------
(* What comes back. *)

\* A name goes by another only if it is a category's.
LEMMA OnlyItself ==
    \A a, n : n \notin {"categoryId", "categoryid"} => (SameName(a, n) <=> a = n)
BY DEF SameName

\* What comes back of what a client was sent of a row.
ComesBack(h, e, marked) ==
    /\ IsDraft(h) /\ h.is = "struct"
    /\ Has(h, "title") /\ Get(h, "title") = Str(Escaped(e.title))
    /\ Has(h, "dateCreated") /\ Get(h, "dateCreated") = Date(Wall[e.posted])
    /\ Has(h, "description") /\ Get(h, "description") = Str(Escaped(Told(e, marked)))
    /\ Has(h, "mt_text_more") /\ Get(h, "mt_text_more") = Str(<<>>)
    /\ Has(h, "mt_allow_comments") /\ Get(h, "mt_allow_comments") = Number(IF e.allow THEN 1 ELSE 0)
    /\ Has(h, "categories") /\ Get(h, "categories") = Array(CleanAtoms(Filed(e)))
    /\ ~Has(h, "pubDate") /\ ~Has(h, "date_created_gmt")

\* All that a row is made of.
LEMMA BackIs ==
    ASSUME NEW e, GoodRow(e), NEW i, NEW marked, NEW ms, TellsOf(ms, e, i, marked),
           NEW h, h = CleanDraft(Struct(ms))
    PROVE  ComesBack(h, e, marked)
<1>1. IsDraft(Struct(ms)) /\ Struct(ms).v = ms
  BY StructIsDraft DEF Struct
<1>2. IsDraft(h) /\ h.is = "struct"
  <2>1. IsDraft(h)
    BY <1>1, CleanIs
  <2> QED
    BY <2>1 DEF CleanDraft, Struct
<1>3. IsText(h.v)
  BY <1>2 DEF IsDraft
<1>4. DOMAIN ms = 1..8
  BY DEF TellsOf
<1>5. h.v = [n \in DOMAIN ms |-> CleanMember(ms[n])]
  BY <1>1 DEF CleanDraft, Struct
<1> DEFINE v == h.v
<1>6. DOMAIN v = 1..8 /\ \A n \in 1..8 : v[n].name = ms[n].name /\ v[n].value = CleanValue(ms[n].value)
  BY <1>4, <1>5 DEF CleanMember, Member
<1>7. \A n, w : Member(n, w).name = n /\ Member(n, w).value = w
  BY DEF Member
<1>8. /\ ms[1].name = "title" /\ ms[2].name = "dateCreated" /\ ms[3].name = "userid" /\ ms[4].name = "postid"
      /\ ms[5].name = "description" /\ ms[6].name = "mt_text_more" /\ ms[7].name = "mt_allow_comments"
      /\ ms[8].name = "categories"
  BY <1>7 DEF TellsOf
<1> DEFINE Sole(k, n) == k \in DOMAIN v /\ v[k].name = n /\ \A j \in DOMAIN v : SameName(v[j].name, n) => j = k
<1>9. ASSUME NEW k, NEW n, Sole(k, n) PROVE Has(h, n) /\ Get(h, n) = v[k].value
  BY <1>3, <1>9, ReadMember
<1>10. \A j \in DOMAIN v : j \in {1, 2, 3, 4, 5, 6, 7, 8} /\ v[j].name = ms[j].name
  BY <1>6
<1>11. {1, 2, 3, 4, 5, 6, 7, 8} \subseteq DOMAIN v
  BY <1>6
<1> HIDE DEF v
<1> DEFINE named == {"title", "dateCreated", "description", "mt_text_more", "mt_allow_comments", "categories"}
<1>12. ASSUME NEW n, n \notin {"categoryId", "categoryid"}, NEW j \in DOMAIN v, SameName(v[j].name, n)
       PROVE  v[j].name = n
  BY <1>12, OnlyItself
<1>13. Sole(1, "title")
  BY <1>8, <1>10, <1>11, <1>12
<1>14. Sole(2, "dateCreated")
  BY <1>8, <1>10, <1>11, <1>12
<1>15. Sole(5, "description")
  BY <1>8, <1>10, <1>11, <1>12
<1>16. Sole(6, "mt_text_more")
  BY <1>8, <1>10, <1>11, <1>12
<1>17. Sole(7, "mt_allow_comments")
  BY <1>8, <1>10, <1>11, <1>12
<1>18. Sole(8, "categories")
  BY <1>8, <1>10, <1>11, <1>12
<1>19. \A j \in DOMAIN v : v[j].name # "pubDate" /\ v[j].name # "date_created_gmt"
  BY <1>8, <1>10
<1>20. ~Has(h, "pubDate") /\ ~Has(h, "date_created_gmt")
  BY <1>19, OnlyItself DEF Has, v
<1>21. \A n \in {1, 2, 5, 6, 7, 8} : v[n].value = CleanValue(ms[n].value)
  BY <1>6
<1> HIDE DEF Sole
<1>22. /\ Has(h, "title") /\ Get(h, "title") = CleanValue(ms[1].value)
       /\ Has(h, "dateCreated") /\ Get(h, "dateCreated") = CleanValue(ms[2].value)
       /\ Has(h, "description") /\ Get(h, "description") = CleanValue(ms[5].value)
       /\ Has(h, "mt_text_more") /\ Get(h, "mt_text_more") = CleanValue(ms[6].value)
       /\ Has(h, "mt_allow_comments") /\ Get(h, "mt_allow_comments") = CleanValue(ms[7].value)
       /\ Has(h, "categories") /\ Get(h, "categories") = CleanValue(ms[8].value)
  BY <1>9, <1>13, <1>14, <1>15, <1>16, <1>17, <1>18, <1>21
<1>23. \A t : CleanValue(Str(t)) = Str(Escaped(t))
  BY DEF CleanValue, CleanAtom, Str
<1>24. \A t : CleanValue(Date(t)) = Date(t)
  BY DEF CleanValue, CleanAtom, Date
<1>25. \A t : CleanValue(Number(IF t THEN 1 ELSE 0)) = Number(IF t THEN 1 ELSE 0)
  <2> TAKE t
  <2> DEFINE k == IF t THEN 1 ELSE 0
  <2>1. (IF k = 0 THEN 0 ELSE 1) = k
    OBVIOUS
  <2> HIDE DEF k
  <2>2. CleanValue(Number(k)) = Number(IF k = 0 THEN 0 ELSE 1)
    BY DEF CleanValue, CleanAtom, Number
  <2> QED
    BY <2>1, <2>2 DEF k
<1>26. \A t : CleanValue(Array(t)) = Array(CleanAtoms(t))
  BY DEF CleanValue, Array
<1>27. Escaped(<<>>) = <<>>
  <2> DEFINE t == <<>>
  <2>1. IsText(t) /\ \A n \in DOMAIN t : t[n] # "control"
    BY DEF IsText
  <2> HIDE DEF t
  <2>2. Escaped(t) = t
    BY <2>1, EscapedSame
  <2> QED
    BY <2>2 DEF t
<1>28. CleanValue(ms[1].value) = Str(Escaped(e.title))
  BY <1>7, <1>23 DEF TellsOf
<1>29. CleanValue(ms[2].value) = Date(Wall[e.posted])
  BY <1>7, <1>24 DEF TellsOf
<1>30. CleanValue(ms[5].value) = Str(Escaped(Told(e, marked)))
  BY <1>7, <1>23 DEF TellsOf
<1>31. CleanValue(ms[6].value) = Str(<<>>)
  BY <1>7, <1>23, <1>27 DEF TellsOf
<1>32. CleanValue(ms[7].value) = Number(IF e.allow THEN 1 ELSE 0)
  BY <1>7, <1>25 DEF TellsOf
<1>33. CleanValue(ms[8].value) = Array(CleanAtoms(Filed(e)))
  BY <1>7, <1>26 DEF TellsOf
<1> QED
  BY <1>2, <1>20, <1>22, <1>28, <1>29, <1>30, <1>31, <1>32, <1>33 DEF ComesBack

\* The date is the one the blog's clock showed.
LEMMA DateReturns ==
    ASSUME NEW e, GoodRow(e), NEW marked, NEW h, ComesBack(h, e, marked)
    PROVE  /\ ~PostedFrom(h).bad /\ PostedFrom(h).at \in DOMAIN Wall
           /\ Wall[PostedFrom(h).at] = Wall[e.posted] /\ PostedFrom(h).at # 0
<1> DEFINE d == Wall[e.posted]
           said == {n \in DOMAIN DateKeys : Has(h, DateKeys[n]) /\ SaysDate(Get(h, DateKeys[n]))}
           key == DateKeys[Min(said)]
           v == Get(h, key)
           at == {t \in DOMAIN Wall : Wall[t] = d}
<1>1. DOMAIN DateKeys = {1, 2, 3} /\ DateKeys[1] = "dateCreated" /\ DateKeys[2] = "pubDate"
      /\ DateKeys[3] = "date_created_gmt"
  <2>1. DOMAIN DateKeys = 1..3 /\ DateKeys[1] = "dateCreated" /\ DateKeys[2] = "pubDate"
        /\ DateKeys[3] = "date_created_gmt"
    BY DEF DateKeys
  <2> QED
    BY <2>1
<1>2. Get(h, "dateCreated") = Date(d) /\ Date(d).is = "date" /\ Date(d).v = d
  BY DEF ComesBack, Date
<1>3. said = {1}
  <2>1. 1 \in said
    BY <1>1, <1>2 DEF ComesBack, SaysDate
  <2>2. 2 \notin said /\ 3 \notin said
    BY <1>1 DEF ComesBack
  <2> QED
    BY <1>1, <2>1, <2>2
<1>4. Min(said) = 1
  <2>1. 1 \in Nat
    OBVIOUS
  <2> HIDE DEF said
  <2>2. said \in SUBSET Nat /\ said # {}
    BY <1>3, <2>1
  <2>3. Min(said) \in said
    BY <2>2, MinOf
  <2> QED
    BY <1>3, <2>3
<1>5. key = "dateCreated"
  BY <1>1, <1>4
<1>6. PostedFrom(h) = IF said = {} THEN [bad |-> FALSE, at |-> 0]
                      ELSE IF v.is = "date" THEN [bad |-> FALSE, at |-> Instant(key, v.v)]
                      ELSE IF IsClock(Trim(v.v)) THEN [bad |-> FALSE, at |-> InZone(Trim(v.v)[1])]
                      ELSE [bad |-> TRUE, at |-> 0]
  BY DEF PostedFrom
<1> HIDE DEF said, key
<1>7. PostedFrom(h) = [bad |-> FALSE, at |-> InZone(d)]
  <2>1. v.is = "date" /\ v.v = d /\ said # {}
    BY <1>2, <1>3, <1>5
  <2>2. Instant(key, v.v) = InZone(d)
    BY <1>5, <2>1 DEF Instant
  <2> QED
    BY <1>6, <2>1, <2>2
<1>8. e.posted \in DOMAIN Wall
  BY DEF GoodRow, IsRow
<1>9. d \notin DOMAIN Zoned
  BY <1>8, XmlrpcAssumption
<1>10. at # {}
  BY <1>8
<1>11. InZone(d) = CHOOSE t \in at : TRUE
  BY <1>9, <1>10 DEF InZone
<1>12. InZone(d) \in at
  <2> HIDE DEF at
  <2> QED
    BY <1>10, <1>11
<1>13. 0 \notin DOMAIN Wall
  BY XmlrpcAssumption
<1> QED
  BY <1>7, <1>12, <1>13

-----------------------------------------------------------------------------
(* The row again. *)

\* A word that is no blank and that XML has a place for is read as it is.
LEMMA WordIs ==
    \A p : p # "blank" /\ p # "control" =>
        Escaped(<<p>>) = <<p>> /\ Trim(<<p>>) = <<p>> /\ CleanAtom(Str(<<p>>)) = Str(<<p>>)
<1> TAKE p
<1> HAVE p # "blank" /\ p # "control"
<1> DEFINE t == <<p>>
<1>1. IsText(t) /\ \A i \in DOMAIN t : t[i] # "control"
  <2>1. IsText(t) /\ DOMAIN t = {1} /\ t[1] = p
    BY OneText
  <2> HIDE DEF t
  <2> QED
    BY <2>1
<1>2. Trim(t) = t
  BY TrimOne
<1> HIDE DEF t
<1>3. Escaped(t) = t
  BY <1>1, EscapedSame
<1>4. CleanAtom(Str(t)) = Str(Escaped(t))
  BY DEF CleanAtom, Str
<1> QED
  BY <1>2, <1>3, <1>4 DEF t

\* The categories a post is filed under again are those it was.
LEMMA CatsReturn ==
    ASSUME NEW e, NEW marked, NEW h, ComesBack(h, e, marked)
    PROVE  SaysCategories(h) /\ CategoryIDs(Names(h)) = e.cats \intersect DOMAIN CatName
<1> DEFINE f == Filed(e)  list == CleanAtoms(f)  S == e.cats \intersect DOMAIN CatName
<1>1. Has(h, "categories") /\ Get(h, "categories") = Array(list)
  BY DEF ComesBack
<1>2. Array(list).is = "array" /\ Array(list).v = list
  BY DEF Array
<1>3. Names(h) = {Trim(AsString(list[n])) : n \in DOMAIN list}
  <2> HIDE DEF list
  <2>1. Names(h) = {Trim(AsString(Array(list).v[n])) : n \in DOMAIN Array(list).v}
    BY <1>1, <1>2 DEF Names
  <2> QED
    BY <1>2, <2>1
<1>4. DOMAIN list = DOMAIN f /\ \A n \in DOMAIN f : list[n] = CleanAtom(f[n])
  <2> HIDE DEF f
  <2> QED
    BY DEF CleanAtoms
<1>5. /\ \A n \in DOMAIN f : \E c \in S : f[n] = Str(<<CatName[c]>>)
      /\ \A c \in S : \E n \in DOMAIN f : f[n] = Str(<<CatName[c]>>)
  BY FiledIs
<1>6. \A c \in DOMAIN CatName : CatName[c] # "blank" /\ CatName[c] # "control"
  BY XmlrpcAssumption
<1>7. \A b, c \in DOMAIN CatName : CatName[b] = CatName[c] => b = c
  BY XmlrpcAssumption
<1> HIDE DEF f, list
<1>8. ASSUME NEW n \in DOMAIN f, NEW c \in S, f[n] = Str(<<CatName[c]>>)
      PROVE  Trim(AsString(list[n])) = <<CatName[c]>>
  <2> DEFINE p == CatName[c]
  <2>1. p # "blank" /\ p # "control" /\ f[n] = Str(<<p>>)
    BY <1>6, <1>8
  <2> HIDE DEF p
  <2>2. list[n] = Str(<<p>>) /\ Trim(<<p>>) = <<p>>
    BY <1>4, <2>1, WordIs
  <2>3. AsString(Str(<<p>>)) = <<p>>
    BY DEF AsString, Str
  <2> QED
    BY <2>2, <2>3 DEF p
<1>9. \A t : t \in Names(h) <=> \E n \in DOMAIN f : t = Trim(AsString(list[n]))
  BY <1>3, <1>4
<1>10. ASSUME NEW c \in S PROVE <<CatName[c]>> \in Names(h)
  <2>1. PICK n \in DOMAIN f : f[n] = Str(<<CatName[c]>>)
    BY <1>5
  <2>2. Trim(AsString(list[n])) = <<CatName[c]>>
    BY <1>8, <2>1
  <2> QED
    BY <1>9, <2>2
<1>11. ASSUME NEW b \in DOMAIN CatName, <<CatName[b]>> \in Names(h) PROVE b \in S
  <2>1. PICK n \in DOMAIN f : <<CatName[b]>> = Trim(AsString(list[n]))
    BY <1>9, <1>11
  <2>2. PICK c \in S : f[n] = Str(<<CatName[c]>>)
    BY <1>5
  <2>3. <<CatName[b]>> = <<CatName[c]>>
    BY <1>8, <2>1, <2>2
  <2>4. CatName[b] = CatName[c]
    BY <2>3
  <2> QED
    BY <1>7, <2>2, <2>4
<1>12. CategoryIDs(Names(h)) = S
  BY <1>10, <1>11 DEF CategoryIDs
<1> QED
  BY <1>1, <1>12 DEF SaysCategories, S

\* The row a client's own answer saves is the row it was, as far as it shows.
LEMMA RowReturns ==
    ASSUME NEW e, GoodRow(e), e # NoPost, NEW marked \in BOOLEAN, ~Headless(e, marked), ~(marked /\ Garbled(e)),
           NEW h, ComesBack(h, e, marked), NEW by
    PROVE  AsShown(SavedRow(h, e, e.released, by, marked)) = AsShown(Sparse(e, marked))
<1> DEFINE text == StrOf(h, "description")
           split == SplitMore(FixEditorEntities(IF marked THEN UnescapeMarkup(text) ELSE text))
           date == PostedFrom(h).at
           title == Escaped(e.title)
           row == SavedRow(h, e, e.released, by, marked)
           cats == e.cats \intersect DOMAIN CatName
           back == SplitMore(Returned(Joint(e), marked))
<1>1. /\ IsText(e.title) /\ IsText(e.body) /\ IsText(e.more) /\ e.allow \in BOOLEAN /\ e.released \in BOOLEAN
      /\ TagFirst(e)
  BY DEF GoodRow, IsRow
<1>2. /\ ~PostedFrom(h).bad /\ date \in DOMAIN Wall /\ Wall[date] = Wall[e.posted] /\ date # 0
  BY DateReturns
<1>3. SaysCategories(h) /\ CategoryIDs(Names(h)) = cats
  BY CatsReturn
<1>4. \A t : AsString(Str(t)) = t
  BY DEF AsString, Str
<1>5. StrOf(h, "title") = title /\ StrOf(h, "mt_text_more") = <<>> /\ text = Escaped(Told(e, marked))
  BY <1>4 DEF ComesBack, StrOf
<1>6. FixEditorEntities(IF marked THEN UnescapeMarkup(text) ELSE text) = Returned(Joint(e), marked)
  BY <1>5 DEF Returned, Told
<1>7. /\ IsText(back.body) /\ Shown(back.body) = Shown(Left(e.body, marked))
      /\ IsText(back.more) /\ Shown(back.more) = Shown(Left(e.more, marked))
  BY <1>1, TextReturns
<1>8. split = back
  BY <1>6
<1>9. (IF Has(h, "mt_allow_comments") THEN ToBool(Get(h, "mt_allow_comments"), TRUE) ELSE TRUE) = e.allow
  <2>1. Has(h, "mt_allow_comments") /\ Get(h, "mt_allow_comments") = Number(IF e.allow THEN 1 ELSE 0)
    BY DEF ComesBack
  <2>2. CASE e.allow = TRUE
    <3>1. Get(h, "mt_allow_comments") = Number(1)
      BY <2>1, <2>2
    <3>2. ToBool(Number(1), TRUE) = TRUE
      BY DEF ToBool, Number
    <3> QED
      BY <2>1, <2>2, <3>1, <3>2
  <2>3. CASE e.allow = FALSE
    <3>1. Get(h, "mt_allow_comments") = Number(0)
      BY <2>1, <2>3
    <3>2. ToBool(Number(0), TRUE) = FALSE
      BY DEF ToBool, Number
    <3> QED
      BY <2>1, <2>3, <3>1, <3>2
  <2> QED
    BY <1>1, <2>2, <2>3
<1> HIDE DEF text, split, date, title, cats, back
<1>10. row = [title |-> title, body |-> back.body,
              more |-> IF back.more = <<>> THEN <<>> ELSE back.more,
              allow |-> e.allow, posted |-> date, released |-> e.released, by |-> e.by, cats |-> cats]
  <2> DEFINE was == e  publish == e.released
             posted == IF date # 0 THEN date ELSE IF was = NoPost THEN Now ELSE was.posted
             allow == IF Has(h, "mt_allow_comments") THEN ToBool(Get(h, "mt_allow_comments"), TRUE) ELSE TRUE
  <2>1. row = [title |-> StrOf(h, "title"), body |-> split.body,
               more |-> IF split.more = <<>> THEN StrOf(h, "mt_text_more") ELSE split.more,
               allow |-> allow,
               posted |-> IF was # NoPost /\ ~was.released /\ publish /\ posted < Now THEN Now ELSE posted,
               released |-> publish,
               by |-> IF was = NoPost THEN by ELSE was.by,
               cats |-> IF SaysCategories(h) THEN CategoryIDs(Names(h)) ELSE IF was = NoPost THEN {} ELSE was.cats]
    BY DEF SavedRow, split, text, date
  <2>2. posted = date
    BY <1>2
  <2>3. allow = e.allow
    BY <1>9
  <2> HIDE DEF posted, allow, row
  <2>4. (IF was # NoPost /\ ~was.released /\ publish /\ posted < Now THEN Now ELSE posted) = date
    BY <2>2
  <2>5. (IF was = NoPost THEN by ELSE was.by) = e.by
    OBVIOUS
  <2>6. (IF SaysCategories(h) THEN CategoryIDs(Names(h)) ELSE IF was = NoPost THEN {} ELSE was.cats) = cats
    BY <1>3
  <2>7. (IF split.more = <<>> THEN StrOf(h, "mt_text_more") ELSE split.more) = IF back.more = <<>> THEN <<>> ELSE back.more
    BY <1>5, <1>8
  <2> QED
    BY <1>5, <1>8, <2>1, <2>3, <2>4, <2>5, <2>6, <2>7, Zenon
<1>11. (IF back.more = <<>> THEN <<>> ELSE back.more) = back.more
  OBVIOUS
<1> HIDE DEF row
<1>12. row = [title |-> title, body |-> back.body, more |-> back.more, allow |-> e.allow, posted |-> date,
              released |-> e.released, by |-> e.by, cats |-> cats]
  BY <1>10, <1>11, Zenon
<1>13. Escaped(title) = title
  BY <1>1, EscapedTwice DEF title
<1>14. row # NoPost
  <2>1. row.title = title /\ DOMAIN row = {"title", "body", "more", "allow", "posted", "released", "by", "cats"}
    BY <1>12
  <2>2. DOMAIN NoPost = {"is"}
    BY DEF NoPost
  <2> QED
    BY <2>1, <2>2
<1>15. AsShown(row) =
         [title |-> Escaped(row.title), body |-> Shown(row.body), more |-> Shown(row.more),
          allow |-> row.allow, posted |-> Wall[row.posted], released |-> row.released,
          by |-> row.by, cats |-> row.cats \intersect DOMAIN CatName]
  BY <1>14 DEF AsShown
<1>16. AsShown(Sparse(e, marked)) =
         [title |-> Escaped(e.title), body |-> Shown(Left(e.body, marked)), more |-> Shown(Left(e.more, marked)),
          allow |-> e.allow, posted |-> Wall[e.posted], released |-> e.released,
          by |-> e.by, cats |-> e.cats \intersect DOMAIN CatName]
  <2> DEFINE left == Sparse(e, marked)
  <2>1. e = [title |-> e.title, body |-> e.body, more |-> e.more, allow |-> e.allow,
             posted |-> e.posted, released |-> e.released, by |-> e.by, cats |-> e.cats]
    BY DEF GoodRow, IsRow
  <2>2. /\ left.title = e.title /\ left.body = Left(e.body, marked) /\ left.more = Left(e.more, marked)
        /\ left.allow = e.allow /\ left.posted = e.posted /\ left.released = e.released
        /\ left.by = e.by /\ left.cats = e.cats
    BY <2>1 DEF Sparse
  <2>3. left # NoPost
    <3>1. DOMAIN left = {"title", "body", "more", "allow", "posted", "released", "by", "cats"}
      BY <2>1 DEF Sparse
    <3>2. DOMAIN NoPost = {"is"}
      BY DEF NoPost
    <3> QED
      BY <3>1, <3>2
  <2> HIDE DEF left
  <2> QED
    BY <2>2, <2>3 DEF AsShown, left
<1>17. /\ row.title = title /\ row.body = back.body /\ row.more = back.more /\ row.allow = e.allow
       /\ row.posted = date /\ row.released = e.released /\ row.by = e.by /\ row.cats = cats
  BY <1>12
<1>18. row.cats \intersect DOMAIN CatName = e.cats \intersect DOMAIN CatName
  BY <1>17 DEF cats
<1>19. Escaped(row.title) = Escaped(e.title)
  BY <1>13, <1>17 DEF title
<1>20. Wall[row.posted] = Wall[e.posted] /\ Shown(row.body) = Shown(Left(e.body, marked))
      /\ Shown(row.more) = Shown(Left(e.more, marked))
  BY <1>2, <1>7, <1>17
<1> QED
  BY <1>15, <1>16, <1>17, <1>18, <1>19, <1>20 DEF row

-----------------------------------------------------------------------------
(* A post that is fetched and sent back. *)

\* A user who gives the password is let in, and a post that is there is found.
LEMMA LetIn ==
    ASSUME NEW u \in DOMAIN Password, NEW i \in Ids, Stored(i), NEW q, Len(q) \in {3, 4, 5},
           q[1] = Str(<<i>>), q[2] = Str(<<u>>), q[3] = Str(<<Password[u]>>)
    PROVE  AuthFault(q, 2) = 0 /\ Named(AsString(q[1])) = {i}
<1>1. \A t : AsString(Str(t)) = t
  BY DEF AsString, Str
<1>2. AuthFault(q, 2) = 0
  <2> DEFINE at == 2
  <2>1. ~(Len(q) < at + 1) /\ at + 1 = 3 /\ at = 2
    OBVIOUS
  <2> HIDE DEF at
  <2>2. AuthFault(q, at) = IF Len(q) < at + 1 THEN BadParams
                           ELSE IF Authenticate(User(q, at), AsString(q[at + 1])) THEN 0 ELSE Auth
    BY DEF AuthFault
  <2>3. User(q, at) = <<u>> /\ AsString(q[at + 1]) = <<Password[u]>>
    BY <1>1, <2>1 DEF User
  <2>4. Authenticate(<<u>>, <<Password[u]>>)
    BY DEF Authenticate
  <2> QED
    BY <2>1, <2>2, <2>3, <2>4
<1>3. \A j : <<j>> = <<i>> => j = i
  OBVIOUS
<1>4. AsString(q[1]) = <<i>>
  BY <1>1
<1>5. Named(<<i>>) = {i}
  BY <1>3 DEF Named
<1> QED
  BY <1>2, <1>4, <1>5

\* The words a client signs in with are read as they are.
LEMMA WordsReturn ==
    ASSUME NEW u \in DOMAIN Password, NEW i \in Ids
    PROVE  \A w \in {i, u, Password[u]} : Readable(Str(<<w>>)) /\ CleanParam(Str(<<w>>)) = Str(<<w>>)
<1>1. \A w \in {i, u, Password[u]} : w # "blank" /\ w # "control"
  BY XmlrpcAssumption
<1>2. \A w : Readable(Str(<<w>>))
  BY OneText DEF Readable, Atomic, Str
<1>3. \A t : CleanParam(Str(t)) = CleanAtom(Str(t))
  BY DEF CleanParam, Str
<1> QED
  BY <1>1, <1>2, <1>3, WordIs

\* What a client is given that asks for a post.
LEMMA Fetched ==
    ASSUME NEW u \in DOMAIN Password, NEW i \in Ids, GoodRow(posts[i]), posts[i] # NoPost,
           NEW style, NEW marked,
           NEW got, got = DecodeResponse(Reply(Sent(style, "getPost", <<Str(<<i>>)>> \o Login(u, Password[u]), marked)))
    PROVE  ~got.fault /\ ComesBack(got.value, posts[i], marked) /\ CleanDraft(got.value) = got.value
<1> DEFINE a == Str(<<i>>)  b == Str(<<u>>)  c == Str(<<Password[u]>>)  ps == <<a, b, c>>
           q == CleanParams(ps)  call == DecodeCall(EncodeCall(style, "getPost", ps))
           out == Sent(style, "getPost", ps, marked)
<1>1. got = DecodeResponse(Reply(out))
  <2>1. <<a>> \o Login(u, Password[u]) = <<a>> \o <<b, c>>
    BY DEF Login
  <2> HIDE DEF a, b, c
  <2>2. <<a>> \o <<b, c>> = ps
    BY InARow
  <2> QED
    BY <2>1, <2>2 DEF a
<1>2. /\ Readable(a) /\ CleanParam(a) = a /\ Readable(b) /\ CleanParam(b) = b
      /\ Readable(c) /\ CleanParam(c) = c
  BY WordsReturn
<1>3. a = Str(<<i>>) /\ b = Str(<<u>>) /\ c = Str(<<Password[u]>>)
  OBVIOUS
<1>4. out = IF call = NoCall THEN Refuses(Parse) ELSE Dispatch(call, marked)
  BY DEF Sent, Handle
<1> HIDE DEF a, b, c, out
<1>5. IsText(ps) /\ DOMAIN ps = {1, 2, 3} /\ ps[1] = a /\ ps[2] = b /\ ps[3] = c /\ Len(ps) = 3
  <2>1. IsText(ps)
    BY InARow
  <2>2. DOMAIN ps = 1..3 /\ ps[1] = a /\ ps[2] = b /\ ps[3] = c /\ Len(ps) = 3
    OBVIOUS
  <2>3. 1..3 = {1, 2, 3}
    OBVIOUS
  <2> QED
    BY <2>1, <2>2, <2>3
<1> HIDE DEF ps
<1>6. \A n \in DOMAIN ps : Readable(ps[n])
  BY <1>2, <1>5
<1>7. call = [method |-> "getPost", params |-> q]
  BY <1>5, <1>6, CallReturns
<1>8. Len(q) = 3 /\ q[1] = a /\ q[2] = b /\ q[3] = c
  BY <1>2, <1>5, <1>6, CleanReadable
<1> HIDE DEF q, call
<1>9. call # NoCall /\ call.method = "getPost" /\ call.params = q
  BY <1>7 DEF NoCall
<1>10. AuthFault(q, 2) = 0 /\ Named(AsString(q[1])) = {i}
  BY <1>3, <1>8, LetIn DEF Stored
<1>11. out = GetPost(q, marked)
  BY <1>4, <1>9, <1>10, Dispatched
<1>12. GetPost(q, marked) = Answers(PostStruct(i, marked))
  <2>1. (CHOOSE j \in {i} : TRUE) = i /\ {i} # {}
    OBVIOUS
  <2> QED
    BY <1>10, <2>1 DEF GetPost
<1>13. PICK ms : PostStruct(i, marked) = Struct(ms) /\ TellsOf(ms, posts[i], i, marked)
  BY StructIs
<1> DEFINE d == Struct(ms)  h == CleanDraft(d)
<1>14. IsDraft(d)
  BY <1>13, StructIsDraft
<1>15. Reply(out) = EncodeResponse(d)
  BY <1>11, <1>12, <1>13 DEF Reply, Answers, Says
<1>16. CleanParam(d) = h
  BY DEF CleanParam, Struct
<1> HIDE DEF d
<1>17. DecodeResponse(EncodeResponse(d)) = [fault |-> FALSE, value |-> h]
  BY <1>14, <1>16, AnswerReturns DEF Readable
<1>18. got = [fault |-> FALSE, value |-> h]
  BY <1>1, <1>15, <1>17
<1>19. ComesBack(h, posts[i], marked)
  BY <1>13, BackIs DEF d
<1>20. CleanDraft(h) = h
  BY <1>14, CleanTwice
<1> HIDE DEF h
<1> QED
  BY <1>18, <1>19, <1>20

\* What is left when it sends it back.
LEMMA PutBack ==
    ASSUME NEW u \in DOMAIN Password, NEW i \in Ids, GoodRow(posts[i]), posts[i] # NoPost,
           NEW style, NEW marked, NEW h, ComesBack(h, posts[i], marked), CleanDraft(h) = h,
           NEW put, put = Sent(style, "editPost", <<Str(<<i>>)>> \o Login(u, Password[u])
                                    \o <<h, Bool(posts[i].released)>>, marked)
    PROVE  /\ put.fault = 0
           /\ \E by : put.posts = [posts EXCEPT ![i] = SavedRow(h, posts[i], posts[i].released, by, marked)]
<1> DEFINE a == Str(<<i>>)  b == Str(<<u>>)  c == Str(<<Password[u]>>)  r == posts[i].released  d == Bool(r)
           ps == <<a, b, c, h, d>>
           q == CleanParams(ps)  call == DecodeCall(EncodeCall(style, "editPost", ps))
           out == Sent(style, "editPost", ps, marked)
           by == CHOOSE w \in DOMAIN Password : <<w>> = User(q, 2)
<1>1. put = out
  <2>1. <<a>> \o Login(u, Password[u]) \o <<h, d>> = <<a>> \o <<b, c>> \o <<h, d>>
    BY DEF Login
  <2> HIDE DEF a, b, c, d
  <2>2. <<a>> \o <<b, c>> \o <<h, d>> = ps
    BY InARow
  <2> QED
    BY <2>1, <2>2 DEF a, d
<1>2. /\ Readable(a) /\ CleanParam(a) = a /\ Readable(b) /\ CleanParam(b) = b
      /\ Readable(c) /\ CleanParam(c) = c
  BY WordsReturn
<1>3. a = Str(<<i>>) /\ b = Str(<<u>>) /\ c = Str(<<Password[u]>>)
  OBVIOUS
<1>4. out = IF call = NoCall THEN Refuses(Parse) ELSE Dispatch(call, marked)
  BY DEF Sent, Handle
<1>5. r \in BOOLEAN
  BY DEF GoodRow, IsRow
<1>6. Readable(d) /\ CleanParam(d) = d /\ ToBool(d, TRUE) = r
  <2> HIDE DEF r
  <2>1. Atomic(d)
    BY <1>5 DEF Atomic, Bool
  <2>2. CleanParam(d) = d
    BY DEF CleanParam, CleanAtom, Bool
  <2>3. ToBool(d, TRUE) = r
    BY DEF ToBool, Bool
  <2> QED
    BY <2>1, <2>2, <2>3 DEF Readable
<1>7. Readable(h) /\ CleanParam(h) = h /\ h.is = "struct"
  BY DEF ComesBack, Readable, CleanParam
<1>8. ~PostedFrom(h).bad
  BY DateReturns
<1> HIDE DEF a, b, c, d, r, out
<1>9. IsText(ps) /\ DOMAIN ps = {1, 2, 3, 4, 5} /\ ps[1] = a /\ ps[2] = b /\ ps[3] = c /\ ps[4] = h /\ ps[5] = d /\ Len(ps) = 5
  <2>1. IsText(ps)
    BY InARow
  <2>2. DOMAIN ps = 1..5 /\ ps[1] = a /\ ps[2] = b /\ ps[3] = c /\ ps[4] = h /\ ps[5] = d /\ Len(ps) = 5
    OBVIOUS
  <2>3. 1..5 = {1, 2, 3, 4, 5}
    OBVIOUS
  <2> QED
    BY <2>1, <2>2, <2>3
<1> HIDE DEF ps
<1>10. \A n \in DOMAIN ps : Readable(ps[n])
  BY <1>2, <1>6, <1>7, <1>9
<1>11. call = [method |-> "editPost", params |-> q]
  BY <1>9, <1>10, CallReturns
<1>12. Len(q) = 5 /\ q[1] = a /\ q[2] = b /\ q[3] = c /\ q[4] = h /\ q[5] = d
  BY <1>2, <1>6, <1>7, <1>9, <1>10, CleanReadable
<1> HIDE DEF q, call
<1>13. call # NoCall /\ call.method = "editPost" /\ call.params = q
  BY <1>11 DEF NoCall
<1>14. AuthFault(q, 2) = 0 /\ Named(AsString(q[1])) = {i}
  BY <1>3, <1>12, LetIn DEF Stored
<1>15. out = SavePost(q, marked, TRUE)
  BY <1>4, <1>13, <1>14, Dispatched
<1> HIDE DEF by
<1> DEFINE saved(j) == [posts EXCEPT ![j] = SavedRow(h, posts[j], r, by, marked)]
<1>16. SavePost(q, marked, TRUE) = Says(Bool(TRUE), saved(i), media)
  <2> DEFINE in == q[4]
             publish == IF Len(q) < 5 THEN TRUE ELSE ToBool(q[5], TRUE)
             found == Named(AsString(q[1]))
             free == {j \in Ids : ~Stored(j)}
             kept(j) == [posts EXCEPT ![j] = SavedRow(in, posts[j], publish, by, marked)]
             first == CHOOSE j \in free : TRUE
  <2>1. SavePost(q, marked, TRUE) =
          IF Len(q) < 4 THEN Refuses(BadParams)
          ELSE IF in.is # "struct" THEN Refuses(BadParams)
          ELSE IF PostedFrom(in).bad THEN Refuses(BadParams)
          ELSE IF TRUE
          THEN IF found = {} THEN Refuses(BadParams)
               ELSE Says(Bool(TRUE), kept(CHOOSE j \in found : TRUE), media)
          ELSE Says(Str(<<first>>), kept(first), media)
    BY DEF SavePost, by
  <2>2. in = h /\ publish = r /\ found = {i}
    <3>1. in = h /\ found = {i}
      BY <1>12, <1>14
    <3>2. ~(Len(q) < 5) /\ q[5] = d
      BY <1>12
    <3>3. ToBool(q[5], TRUE) = r
      BY <1>6, <3>2, Zenon
    <3> QED
      BY <3>1, <3>2, <3>3, Zenon
  <2> HIDE DEF in, publish, found, first
  <2>3. kept(i) = saved(i)
    BY <2>2
  <2> HIDE DEF kept, saved
  <2>4. (CHOOSE j \in found : TRUE) = i /\ found # {}
    BY <2>2
  <2>5. ~(Len(q) < 4) /\ in.is = "struct" /\ ~PostedFrom(in).bad
    BY <1>7, <1>8, <1>12, <2>2
  <2> QED
    BY <2>1, <2>3, <2>4, <2>5
<1>17. put = Says(Bool(TRUE), saved(i), media)
  BY <1>1, <1>15, <1>16
<1> HIDE DEF saved
<1>18. put.fault = 0 /\ put.posts = saved(i)
  BY <1>17 DEF Says
<1> QED
  BY <1>18 DEF saved, r

\* Whatever the rows, the drafts, the clocks, the words and the client's own
\* spelling: what a client fetches and sends back changes nothing that shows.
THEOREM FetchedReturns == XmlSpec => []FetchAndReturn
<1>1. XmlInv => FetchAndReturn
  <2> SUFFICES ASSUME XmlInv, NEW u \in DOMAIN Password, NEW i \in Ids, NEW style \in Styles, NEW marked \in BOOLEAN,
                      Stored(i) /\ ~Headless(posts[i], marked) /\ ~(marked /\ Garbled(posts[i])),
                      NEW got, got = DecodeResponse(Reply(Sent(style, "getPost",
                            <<Str(<<i>>)>> \o Login(u, Password[u]), marked))),
                      NEW put, put = Sent(style, "editPost", <<Str(<<i>>)>> \o Login(u, Password[u])
                            \o <<got.value, Bool(posts[i].released)>>, marked)
               PROVE  /\ ~got.fault
                      /\ put.fault = 0
                      /\ \A j \in Ids : IF j = i THEN AsShown(put.posts[j]) = AsShown(Sparse(posts[j], marked))
                                        ELSE put.posts[j] = posts[j]
    BY DEF FetchAndReturn
  <2>1. posts = [j \in Ids |-> posts[j]] /\ GoodRow(posts[i]) /\ posts[i] # NoPost
    BY DEF XmlInv, GoodRows, Stored
  <2>2. ~got.fault /\ ComesBack(got.value, posts[i], marked) /\ CleanDraft(got.value) = got.value
    BY <2>1, Fetched
  <2> DEFINE h == got.value
  <2>3. put.fault = 0 /\ \E by : put.posts = [posts EXCEPT ![i] = SavedRow(h, posts[i], posts[i].released, by, marked)]
    BY <2>1, <2>2, PutBack
  <2> HIDE DEF h
  <2>4. PICK by : put.posts = [posts EXCEPT ![i] = SavedRow(h, posts[i], posts[i].released, by, marked)]
    BY <2>3
  <2>5. AsShown(SavedRow(h, posts[i], posts[i].released, by, marked)) = AsShown(Sparse(posts[i], marked))
    BY <2>1, <2>2, RowReturns DEF h
  <2> DEFINE row == SavedRow(h, posts[i], posts[i].released, by, marked)
  <2>6. \A j \in Ids : put.posts[j] = IF j = i THEN row ELSE posts[j]
    BY <2>1, <2>4
  <2> HIDE DEF row
  <2>7. AsShown(row) = AsShown(Sparse(posts[i], marked))
    BY <2>5 DEF row
  <2> QED
    BY <2>2, <2>3, <2>6, <2>7
<1>2. XmlSpec => []XmlInv
  BY PostsAreRows
<1> QED
  BY <1>1, <1>2, PTL
===============================================================================
