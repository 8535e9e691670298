---------------------------- MODULE ReadingProofs -----------------------------
(***************************************************************************)
(* Theorems about Reading, for any entries, rows, pages, filters and       *)
(* links: the order of a list, what its pages show, the reader who goes    *)
(* through them while authors write, and what every link opens.            *)
(***************************************************************************)
EXTENDS Reading, FiniteSetTheorems, SequenceTheorems, TLAPS

-----------------------------------------------------------------------------
(* The order of a list. *)

RowsOK == row \in [Entries -> Rows]

LEMMA PostedIsInt == RowsOK => \A i \in Entries : row[i].posted \in Int
<1> SUFFICES ASSUME RowsOK, NEW i \in Entries PROVE row[i].posted \in Int
  OBVIOUS
<1>1. CASE row[i] = NoRow
  BY <1>1 DEF NoRow
<1>2. CASE row[i] \in [posted : PostTimes, released : BOOLEAN, there : {TRUE}]
  BY <1>2, ReadingAssumption
<1> QED
  BY <1>1, <1>2 DEF RowsOK, Rows

\* Of two entries one comes before the other.
LEMMA TotalOrder ==
    ASSUME RowsOK
    PROVE  /\ \A i \in Entries : ~Before(i, i)
           /\ \A i, j \in Entries : i # j => Before(i, j) \/ Before(j, i)
           /\ \A i, j, k \in Entries : Before(i, j) /\ Before(j, k) => Before(i, k)
<1>1. \A i \in Entries : row[i].posted \in Int /\ i \in Int
  BY PostedIsInt, ReadingAssumption
<1> QED
  BY <1>1 DEF Before

\* The place of an entry in a list.
LEMMA PlaceFacts ==
    ASSUME RowsOK, NEW S \in SUBSET Entries, NEW i \in S
    PROVE  /\ IsFiniteSet(S) /\ IsFiniteSet(Ahead(S, i))
           /\ Cardinality(S) \in Nat /\ Cardinality(Ahead(S, i)) \in Nat
           /\ Cardinality(Ahead(S, i)) < Cardinality(S)
<1>1. IsFiniteSet(S)
  BY ReadingAssumption, FS_Subset
<1>2. Ahead(S, i) \in SUBSET (S \ {i})
  BY TotalOrder DEF Ahead
<1>3. IsFiniteSet(S \ {i}) /\ Cardinality(S \ {i}) = Cardinality(S) - 1
  BY <1>1, FS_RemoveElement
<1>4. IsFiniteSet(Ahead(S, i)) /\ Cardinality(Ahead(S, i)) <= Cardinality(S \ {i})
  BY <1>2, <1>3, FS_Subset
<1>5. Cardinality(S) \in Nat /\ Cardinality(Ahead(S, i)) \in Nat
  BY <1>1, <1>4, FS_CardinalityType
<1> QED
  BY <1>1, <1>3, <1>4, <1>5

LEMMA PlacesDiffer ==
    ASSUME RowsOK, NEW S \in SUBSET Entries, NEW i \in S, NEW j \in S, Before(i, j)
    PROVE  Cardinality(Ahead(S, i)) < Cardinality(Ahead(S, j))
<1>1. Ahead(S, i) \in SUBSET Ahead(S, j)
  BY TotalOrder DEF Ahead
<1>2. i \in Ahead(S, j) /\ i \notin Ahead(S, i)
  BY TotalOrder DEF Ahead
<1>3. IsFiniteSet(Ahead(S, j)) /\ Cardinality(Ahead(S, i)) \in Nat /\ Cardinality(Ahead(S, j)) \in Nat
  BY PlaceFacts
<1>4. /\ Cardinality(Ahead(S, i)) <= Cardinality(Ahead(S, j))
      /\ Cardinality(Ahead(S, j)) = Cardinality(Ahead(S, i)) => Ahead(S, j) = Ahead(S, i)
  BY <1>1, <1>3, FS_Subset
<1> QED
  BY <1>2, <1>3, <1>4

LEMMA InOrder ==
    ASSUME RowsOK, NEW S \in SUBSET Entries, NEW i \in S
    PROVE  LET n == Cardinality(Ahead(S, i)) + 1 IN
           n \in 1..Cardinality(S) /\ Ordered(S)[n] = i
<1> DEFINE n == Cardinality(Ahead(S, i)) + 1
<1>0. Cardinality(Ahead(S, i)) \in Nat /\ Cardinality(S) \in Nat /\ Cardinality(Ahead(S, i)) < Cardinality(S)
  BY PlaceFacts
<1>1. n \in 1..Cardinality(S) /\ n - 1 = Cardinality(Ahead(S, i))
  BY <1>0
<1>2. \A j \in S : Cardinality(Ahead(S, j)) = n - 1 => j = i
  <2> SUFFICES ASSUME NEW j \in S, Cardinality(Ahead(S, j)) = n - 1, j # i PROVE FALSE
    OBVIOUS
  <2>1. Before(i, j) \/ Before(j, i)
    BY TotalOrder
  <2>2. /\ Before(i, j) => Cardinality(Ahead(S, i)) < Cardinality(Ahead(S, j))
        /\ Before(j, i) => Cardinality(Ahead(S, j)) < Cardinality(Ahead(S, i))
    BY PlacesDiffer
  <2>3. Cardinality(Ahead(S, i)) \in Nat
    BY PlaceFacts
  <2> QED
    BY <1>1, <2>1, <2>2, <2>3
<1>3. (CHOOSE j \in S : Cardinality(Ahead(S, j)) = n - 1) = i
  BY <1>1, <1>2
<1>4. Ordered(S)[n] = (CHOOSE j \in S : Cardinality(Ahead(S, j)) = n - 1)
  BY <1>1 DEF Ordered
<1> QED
  BY <1>1, <1>3, <1>4

\* What a page shows of a list.
LEMMA PageShows ==
    ASSUME RowsOK, NEW S \in SUBSET Entries, NEW i \in S, NEW offset \in Nat,
           offset <= Cardinality(Ahead(S, i)), Cardinality(Ahead(S, i)) < offset + PageSize
    PROVE  i \in ToSet(Limited(Ordered(S), offset, PageSize))
<1>1. PICK n \in Nat, size \in Nat :
        n = Cardinality(Ahead(S, i)) + 1 /\ size = Cardinality(S) /\ n \in 1..size /\ Ordered(S)[n] = i
  <2>1. Cardinality(Ahead(S, i)) + 1 \in Nat /\ Cardinality(S) \in Nat
    BY PlaceFacts
  <2> QED
    BY <2>1, InOrder
<1> DEFINE list == Ordered(S)
           T == {list[k] : k \in 1..size}
<1>2. list \in Seq(T) /\ Len(list) = size
  <2>1. list \in [1..size -> T]
    BY <1>1 DEF Ordered
  <2> HIDE DEF list, T
  <2>2. list \in Seq(T)
    BY <2>1, <1>1
  <2> QED
    BY <2>1, <2>2, <1>1, LenProperties
<1>3. PageSize \in Nat /\ n - 1 >= offset /\ n - 1 < offset + PageSize
  <2>1. Cardinality(Ahead(S, i)) = n - 1
    BY <1>1, PlaceFacts
  <2> QED
    BY <2>1, ReadingAssumption
<1>4. PICK last \in Nat : last = Min({Len(list), offset + PageSize}) /\ n <= last /\ last <= size
  <2> DEFINE M == offset + PageSize
  <2>1. M \in Nat /\ n <= size /\ n <= M
    BY <1>1, <1>3
  <2>2. Min({Len(list), offset + PageSize}) = Min({size, M})
    BY <1>2
  <2> HIDE DEF M
  <2>3. \E x \in {size, M} : \A y \in {size, M} : x =< y
    BY <2>1
  <2>4. Min({size, M}) \in {size, M} /\ \A y \in {size, M} : Min({size, M}) =< y
    BY <2>3 DEF Min
  <2> QED
    BY <1>1, <2>1, <2>2, <2>4
<1> DEFINE page == SubSeq(list, offset + 1, last)
<1>5. /\ Len(page) = last - offset
      /\ page \in Seq(T)
      /\ \A k \in 1..(last - offset) : page[k] = list[offset + k]
  <2>1. offset + 1 \in Int /\ last \in Int /\ offset + 1 <= last /\ \A k \in (offset + 1)..last : list[k] \in T
    <3>1. n <= last /\ last <= size /\ offset <= n - 1
      BY <1>3, <1>4
    <3>2. offset + 1 <= last /\ \A k \in (offset + 1)..last : k \in 1..size
      BY <3>1
    <3>3. \A k \in 1..size : list[k] \in T
      BY DEF T
    <3> QED
      BY <3>2, <3>3
  <2>2. last - (offset + 1) + 1 = last - offset /\ \A k \in 1..(last - offset) : offset + 1 + k - 1 = offset + k
    BY <1>4
  <2> HIDE DEF list, T
  <2>3. /\ page \in Seq(T)
        /\ Len(page) = last - (offset + 1) + 1
        /\ \A k \in 1..(last - (offset + 1) + 1) : page[k] = list[offset + 1 + k - 1]
    BY <2>1, SubSeqProperties
  <2> QED
    BY <2>2, <2>3
<1> HIDE DEF list, T
<1>6. DOMAIN page = 1..(last - offset)
  BY <1>5, LenProperties
<1> HIDE DEF page
<1>7. n - offset \in 1..(last - offset) /\ offset + (n - offset) = n
  BY <1>1, <1>3, <1>4
<1>8. page[n - offset] = i
  BY <1>1, <1>5, <1>7 DEF list
<1>9. Limited(Ordered(S), offset, PageSize) = page
  BY <1>4 DEF Limited, page, list
<1> QED
  BY <1>6, <1>7, <1>8, <1>9 DEF ToSet

\* A list holds its entries and no others.
LEMMA Filled ==
    ASSUME RowsOK, NEW S \in SUBSET Entries, NEW n \in 1..Cardinality(S)
    PROVE  Ordered(S)[n] \in S
<1> DEFINE rank == [i \in S |-> Cardinality(Ahead(S, i))]
           taken == {rank[i] : i \in S}
<1>1. PICK size \in Nat : size = Cardinality(S) /\ IsFiniteSet(S)
  <2>1. IsFiniteSet(S)
    BY ReadingAssumption, FS_Subset
  <2> QED
    BY <2>1, FS_CardinalityType
<1>2. \A i \in S : rank[i] \in 0..(size - 1)
  <2> SUFFICES ASSUME NEW i \in S PROVE rank[i] \in 0..(size - 1)
    OBVIOUS
  <2>1. Cardinality(Ahead(S, i)) \in Nat /\ Cardinality(Ahead(S, i)) < size
    BY <1>1, PlaceFacts
  <2> QED
    BY <1>1, <2>1
<1>3. \A i, j \in S : rank[i] = rank[j] => i = j
  <2> SUFFICES ASSUME NEW i \in S, NEW j \in S, rank[i] = rank[j], i # j PROVE FALSE
    OBVIOUS
  <2>1. /\ Before(i, j) => rank[i] < rank[j]
        /\ Before(j, i) => rank[j] < rank[i]
    BY PlacesDiffer
  <2>2. Before(i, j) \/ Before(j, i)
    BY TotalOrder
  <2> HIDE DEF rank
  <2> QED
    BY <1>2, <2>1, <2>2
<1>4. rank \in Bijection(S, taken)
  <2>1. rank \in [S -> taken]
    OBVIOUS
  <2> HIDE DEF rank
  <2> QED
    BY <1>3, <2>1 DEF Bijection, Injection, Surjection, IsInjective
<1>5. IsFiniteSet(taken) /\ Cardinality(taken) = size
  <2>1. ExistsBijection(S, taken)
    BY <1>4 DEF ExistsBijection
  <2> HIDE DEF taken
  <2> QED
    BY <1>1, <2>1, FS_Bijection
<1>6. IsFiniteSet(0..(size - 1)) /\ Cardinality(0..(size - 1)) = size
  <2>1. size - 1 \in Int /\ (0 > size - 1 => size = 0) /\ (size - 1) - 0 + 1 = size
    BY <1>1
  <2> QED
    BY <2>1, FS_Interval
<1>7. taken \in SUBSET (0..(size - 1))
  BY <1>2
<1>8. taken = 0..(size - 1)
  BY <1>5, <1>6, <1>7, FS_Subset
<1>9. n - 1 \in taken
  <2>1. n \in 1..size
    BY <1>1
  <2>2. n - 1 \in 0..(size - 1)
    BY <1>1, <2>1
  <2> HIDE DEF taken
  <2> QED
    BY <1>8, <2>2
<1>10. PICK i \in S : Cardinality(Ahead(S, i)) = n - 1
  BY <1>9
<1> QED
  BY <1>10 DEF Ordered

\* What a page shows is in the list.
LEMMA PageHolds ==
    ASSUME RowsOK, NEW S \in SUBSET Entries, NEW offset \in Nat, NEW limit \in Nat
    PROVE  ToSet(Limited(Ordered(S), offset, limit)) \subseteq S
<1> DEFINE list == Ordered(S)
<1>1. PICK size \in Nat : size = Cardinality(S)
  <2>1. IsFiniteSet(S)
    BY ReadingAssumption, FS_Subset
  <2> QED
    BY <2>1, FS_CardinalityType
<1>2. list \in Seq(S) /\ Len(list) = size /\ \A k \in 1..size : list[k] \in S
  <2>1. \A k \in 1..size : list[k] \in S
    BY <1>1, Filled
  <2>2. list = [k \in 1..size |-> list[k]]
    BY <1>1 DEF Ordered
  <2> HIDE DEF list
  <2>3. list \in [1..size -> S]
    BY <2>1, <2>2
  <2>4. list \in Seq(S)
    BY <1>1, <2>3
  <2> QED
    BY <1>1, <2>1, <2>3, <2>4, LenProperties
<1>3. PICK last \in Int : last = Min({Len(list), offset + limit}) /\ last <= size
  <2> DEFINE M == offset + limit
  <2>1. M \in Nat
    OBVIOUS
  <2>2. Min({Len(list), offset + limit}) = Min({size, M})
    BY <1>2
  <2> HIDE DEF M
  <2>3. \E x \in {size, M} : \A y \in {size, M} : x =< y
    BY <2>1
  <2>4. Min({size, M}) \in {size, M} /\ \A y \in {size, M} : Min({size, M}) =< y
    BY <2>3 DEF Min
  <2> QED
    BY <1>1, <2>1, <2>2, <2>4
<1> DEFINE page == SubSeq(list, offset + 1, last)
<1>4. page \in Seq(S)
  <2>1. offset + 1 \in Int /\ \A k \in (offset + 1)..last : list[k] \in S
    <3>1. \A k \in (offset + 1)..last : k \in 1..size
      BY <1>3
    <3> QED
      BY <1>2, <3>1
  <2> HIDE DEF list
  <2> QED
    BY <1>2, <1>3, <2>1, SubSeqProperties
<1>5. Limited(Ordered(S), offset, limit) = page
  BY <1>3 DEF Limited
<1> HIDE DEF page
<1> QED
  BY <1>4, <1>5 DEF ToSet

-----------------------------------------------------------------------------
(* The reader, and the list that is being read. *)

Walks == [at : {"counted", "shown", "end"}, kind : {"listing", "search", "admin"},
          f : {l.f : l \in Browsed}, first : Nat \ {0}, total : Nat, now : Int,
          seen : SUBSET Entries, must : SUBSET Entries,
          list : {"steady", "moved"}, page : {"whole", "torn"}, changes : Nat]

ReaTypeOK ==
    /\ row \in [Entries -> Rows]
    /\ present \in Int
    /\ walk \in {NoWalk} \union Walks
    /\ walk # NoWalk => walk.now <= present

\* The list as the reader's last query saw the time, and the places in it the
\* pages have covered.
InList == MatchingIn(row, walk.now, walk.f)
Covered == IF walk.at = "counted" THEN walk.first - 1 ELSE walk.first - 1 + PageSize

\* What was in the list all the while is in it still, and was seen if its place
\* is covered.
Caught ==
    walk # NoWalk /\ walk.list = "steady" =>
        \A i \in walk.must : i \in InList /\ (Cardinality(Ahead(InList, i)) < Covered => i \in walk.seen)

\* The count is that of the list, or more.
Counted ==
    walk # NoWalk /\ walk.at \in {"counted", "end"} /\ walk.page = "whole" =>
        Cardinality(InList) <= walk.total
Ended == walk # NoWalk /\ walk.at = "end" => ~Next(walk.kind, walk.first, walk.total)

ReaInv == ReaTypeOK /\ Caught /\ Counted /\ Ended

\* The last page reaches to the end of what was counted.
LEMMA LastPage ==
    ASSUME NEW kind \in {"listing", "search", "admin"}, NEW first \in Nat \ {0}, NEW total \in Nat,
           ~Next(kind, first, total)
    PROVE  total <= first - 1 + PageSize
<1>0. PageSize \in Nat \ {0}
  BY ReadingAssumption
<1>1. CASE kind = "listing"
  BY <1>0, <1>1 DEF Next
<1>2. CASE kind = "search"
  BY <1>0, <1>2 DEF Next
<1>3. CASE kind = "admin"
  <2> DEFINE a == (first - 1) \div PageSize
             b == (total + PageSize - 1) \div PageSize
  <2>1. ~(a + 1 < b)
    BY <1>3 DEF Next
  <2>2. a \in Int /\ a * PageSize <= first - 1
    <3>1. first - 1 \in Int
      OBVIOUS
    <3>2. \A x \in Int : x \div PageSize \in Int /\ (x \div PageSize) * PageSize <= x
      BY <1>0
    <3> QED
      BY <3>1, <3>2
  <2>3. b \in Int /\ total + PageSize - 1 < (b + 1) * PageSize
    <3>1. total + PageSize - 1 \in Int
      BY <1>0
    <3>2. \A x \in Int : x \div PageSize \in Int /\ x < ((x \div PageSize) + 1) * PageSize
      BY <1>0
    <3> QED
      BY <3>1, <3>2
  <2> HIDE DEF a, b
  <2>4. b <= a + 1
    BY <2>1, <2>2, <2>3
  <2>5. b * PageSize <= (a + 1) * PageSize
    BY <1>0, <2>2, <2>3, <2>4
  <2>6. (a + 1) * PageSize = a * PageSize + PageSize /\ (b + 1) * PageSize = b * PageSize + PageSize
    BY <1>0, <2>2, <2>3
  <2>7. a * PageSize \in Int /\ b * PageSize \in Int
    BY <1>0, <2>2, <2>3
  <2> HIDE DEF Next
  <2> QED
    BY <1>0, <2>2, <2>3, <2>5, <2>6, <2>7
<1> QED
  BY <1>1, <1>2, <1>3

\* What the filter takes: entries, and no fewer of them as time goes on.
LEMMA Taken ==
    ASSUME NEW table, NEW f, NEW now \in Int, NEW later \in Int, now <= later,
           \A i \in Entries : table[i].posted \in Int
    PROVE  /\ MatchingIn(table, now, f) \in SUBSET Entries
           /\ MatchingIn(table, now, f) \subseteq MatchingIn(table, later, f)
<1>1. ASSUME NEW i \in Entries, Where(f, i, table[i], now) PROVE Where(f, i, table[i], later)
  <2>1. table[i].posted <= now => table[i].posted <= later
    OBVIOUS
  <2> QED
    BY <1>1, <2>1 DEF Where, LiveIn
<1> QED
  BY <1>1 DEF MatchingIn

\* An entry that stays where it is among the rows of one time was among those of
\* an earlier one if it was before the change.
LEMMA Stays ==
    ASSUME NEW table, NEW table2, NEW f, NEW now, NEW later, NEW i,
           i \in MatchingIn(table, now, f), i \in MatchingIn(table2, later, f),
           table2[i].posted = table[i].posted
    PROVE  i \in MatchingIn(table2, now, f)
BY DEF MatchingIn, Where, LiveIn

LEMMA Smaller ==
    ASSUME NEW B \in SUBSET Entries, NEW A \in SUBSET B
    PROVE  Cardinality(A) \in Nat /\ Cardinality(B) \in Nat /\ Cardinality(A) <= Cardinality(B)
<1>1. IsFiniteSet(B)
  BY ReadingAssumption, FS_Subset
<1>2. IsFiniteSet(A) /\ Cardinality(A) <= Cardinality(B)
  BY <1>1, FS_Subset
<1> QED
  BY <1>1, <1>2, FS_CardinalityType

\* PagingMissesNothing.
LEMMA EndSeen == ReaInv => PagingMissesNothing
<1> SUFFICES ASSUME ReaInv, walk.at = "end", walk.list = "steady", walk.page = "whole", NEW i \in walk.must
             PROVE  i \in walk.seen
  BY DEF PagingMissesNothing
<1>1. walk # NoWalk /\ walk \in Walks
  BY DEF ReaInv, ReaTypeOK, NoWalk
<1>2. i \in InList /\ (Cardinality(Ahead(InList, i)) < Covered => i \in walk.seen)
  BY <1>1 DEF ReaInv, Caught
<1>3. Cardinality(InList) <= walk.total
  BY <1>1 DEF ReaInv, Counted
<1>4. ~Next(walk.kind, walk.first, walk.total)
  BY <1>1 DEF ReaInv, Ended
<1>5. /\ walk.kind \in {"listing", "search", "admin"}
      /\ walk.first \in Nat \ {0}
      /\ walk.total \in Nat
  BY <1>1 DEF Walks
<1>6. walk.total <= walk.first - 1 + PageSize
  BY <1>4, <1>5, LastPage
<1>7. InList \in SUBSET Entries
  BY DEF InList, MatchingIn
<1>8. /\ Cardinality(InList) \in Nat /\ Cardinality(Ahead(InList, i)) \in Nat
      /\ Cardinality(Ahead(InList, i)) < Cardinality(InList)
  BY <1>2, <1>7, PlaceFacts DEF ReaInv, ReaTypeOK, RowsOK
<1>9. Covered = walk.first - 1 + PageSize /\ PageSize \in Nat
  BY ReadingAssumption DEF Covered
<1> HIDE DEF Covered
<1> QED
  BY <1>2, <1>3, <1>5, <1>6, <1>8, <1>9

LEMMA ReaInitOK == ReaInit => ReaInv
<1> SUFFICES ASSUME ReaInit PROVE ReaInv
  OBVIOUS
<1>1. present \in Int
  <2>1. Min(Times) \in Times
    BY ReadingAssumption DEF Min
  <2> QED
    BY <2>1, ReadingAssumption DEF ReaInit, ReaStart
<1>2. row \in [Entries -> Rows]
  BY DEF ReaInit, ReaStart, Rows
<1>3. walk = NoWalk
  BY DEF ReaInit, ReaStart
<1> QED
  BY <1>1, <1>2, <1>3 DEF ReaInv, ReaTypeOK, Caught, Counted, Ended

\* One query counts the list anew, at the time it is asked.
LEMMA OpenListOK == ASSUME ReaInv, NEW l \in Browsed, OpenList(l) PROVE ReaInv'
<1>1. /\ walk' = [at |-> "counted", kind |-> l.kind, f |-> l.f, first |-> 1,
                total |-> Cardinality(Matching(l.f)), now |-> present, seen |-> {}, must |-> Matching(l.f),
                list |-> "steady", page |-> "whole", changes |-> 0]
      /\ row' = row /\ present' = present
  BY DEF OpenList
<1>2. Matching(l.f) \in SUBSET Entries /\ Cardinality(Matching(l.f)) \in Nat
  <2>1. Matching(l.f) \in SUBSET Entries
    BY DEF Matching, MatchingIn
  <2> QED
    BY <2>1, Smaller
<1>3. walk' \in Walks
  BY <1>1, <1>2, ReadingAssumption DEF Walks, ReaInv, ReaTypeOK
<1>4. InList' = Matching(l.f) /\ Covered' = 0
  BY <1>1 DEF InList, Matching, Covered
<1>5. ReaTypeOK'
  <2>1. walk'.now = present
    BY <1>1
  <2> QED
    BY <1>1, <1>3, <2>1 DEF ReaInv, ReaTypeOK
<1>6. Caught'
  <2> SUFFICES ASSUME NEW i \in Matching(l.f)
               PROVE  i \in InList' /\ (Cardinality(Ahead(InList, i))' < Covered' => i \in walk'.seen)
    BY <1>1 DEF Caught
  <2>1. Ahead(InList, i)' \in SUBSET Matching(l.f)
    BY <1>4 DEF Ahead
  <2>2. Cardinality(Ahead(InList, i))' \in Nat
    BY <1>2, <2>1, Smaller
  <2> QED
    BY <1>4, <2>2
<1>7. Counted'
  BY <1>1, <1>2, <1>4 DEF Counted
<1>8. Ended'
  BY <1>1 DEF Ended
<1> QED
  BY <1>5, <1>6, <1>7, <1>8 DEF ReaInv

\* The other query of the page: what its places hold has been seen.
LEMMA ReadRowsOK == ASSUME ReaInv, ReadRows PROVE ReaInv'
<1> DEFINE shown == ToSet(Limited(Ordered(InList), walk.first - 1, PageSize))
           at == IF Next(walk.kind, walk.first, walk.total) THEN "shown" ELSE "end"
<1>1. walk # NoWalk /\ walk \in Walks /\ walk.at = "counted"
  BY DEF ReaInv, ReaTypeOK, NoWalk, ReadRows
<1>2. InList \in SUBSET Entries /\ walk.first - 1 \in Nat /\ walk.first \in Nat /\ PageSize \in Nat
  BY <1>1, ReadingAssumption DEF InList, MatchingIn, Walks
<1>3. shown \in SUBSET Entries
  <2>1. shown \subseteq InList
    BY <1>2, PageHolds DEF ReaInv, ReaTypeOK, RowsOK
  <2> QED
    BY <1>2, <2>1
<1>4. /\ walk' = [walk EXCEPT !.seen = @ \union shown, !.at = at]
      /\ row' = row /\ present' = present
  BY DEF ReadRows, InList
<1>5. at \in {"shown", "end"} /\ (at = "end" => ~Next(walk.kind, walk.first, walk.total))
  OBVIOUS
<1> HIDE DEF shown, at
<1>6. /\ walk' \in Walks
      /\ walk'.at = at /\ walk'.seen = walk.seen \union shown
      /\ walk'.kind = walk.kind /\ walk'.f = walk.f /\ walk'.first = walk.first
      /\ walk'.total = walk.total /\ walk'.now = walk.now /\ walk'.must = walk.must
      /\ walk'.list = walk.list /\ walk'.page = walk.page
  BY <1>1, <1>3, <1>4, <1>5 DEF Walks
<1>7. InList' = InList /\ Covered = walk.first - 1 /\ Covered' = walk.first - 1 + PageSize
  BY <1>1, <1>4, <1>5, <1>6 DEF InList, Covered
<1>8. ReaTypeOK'
  BY <1>1, <1>4, <1>6 DEF ReaInv, ReaTypeOK
<1>9. Caught'
  <2> SUFFICES ASSUME walk.list = "steady", NEW i \in walk.must
               PROVE  i \in InList /\ (Cardinality(Ahead(InList, i))' < Covered' => i \in walk'.seen)
    BY <1>6, <1>7 DEF Caught
  <2>1. i \in InList /\ (Cardinality(Ahead(InList, i)) < Covered => i \in walk.seen)
    BY <1>1 DEF ReaInv, Caught
  <2>2. Ahead(InList, i)' = Ahead(InList, i)
    BY <1>4, <1>7 DEF Ahead, Before
  <2>3. Cardinality(Ahead(InList, i)) \in Nat
    BY <1>2, <2>1, PlaceFacts DEF ReaInv, ReaTypeOK, RowsOK
  <2>4. CASE Cardinality(Ahead(InList, i)) < walk.first - 1
    BY <1>6, <1>7, <2>1, <2>4
  <2>5. CASE walk.first - 1 <= Cardinality(Ahead(InList, i)) /\ Cardinality(Ahead(InList, i)) < walk.first - 1 + PageSize
    <3>1. i \in shown
      BY <1>2, <2>1, <2>5, PageShows DEF shown, ReaInv, ReaTypeOK, RowsOK
    <3> QED
      BY <1>6, <2>1, <3>1
  <2> QED
    BY <1>2, <1>7, <2>1, <2>2, <2>3, <2>4, <2>5
<1>10. Counted'
  BY <1>1, <1>5, <1>6, <1>7 DEF Counted, ReaInv
<1>11. Ended'
  BY <1>5, <1>6 DEF Ended, Next
<1> QED
  BY <1>8, <1>9, <1>10, <1>11 DEF ReaInv

\* To another page, that begins in what the pages have covered: by now the list
\* may hold more.
LEMMA FollowOK ==
    ASSUME ReaInv, walk.at \in {"shown", "end"}, NEW first \in Nat \ {0}, first - 1 <= walk.first - 1 + PageSize,
           walk' = [walk EXCEPT !.first = first, !.at = "counted", !.page = "whole",
                                !.total = Cardinality(Matching(walk.f)), !.now = present],
           UNCHANGED <<row, present, zone>>
    PROVE  ReaInv'
<1>1. walk # NoWalk /\ walk \in Walks /\ walk.now \in Int /\ walk.now <= present /\ present \in Int
  BY DEF ReaInv, ReaTypeOK, NoWalk, Walks
<1> DEFINE total == Cardinality(Matching(walk.f))
<1>2. Matching(walk.f) \in SUBSET Entries /\ total \in Nat
  <2>1. Matching(walk.f) \in SUBSET Entries
    BY DEF Matching, MatchingIn
  <2> QED
    BY <2>1, Smaller
<1>3. walk' = [walk EXCEPT !.first = first, !.at = "counted", !.page = "whole", !.total = total, !.now = present]
  OBVIOUS
<1> HIDE DEF total
<1>4. /\ walk' \in Walks
      /\ walk'.at = "counted" /\ walk'.page = "whole" /\ walk'.first = first
      /\ walk'.total = total /\ walk'.now = present
      /\ walk'.f = walk.f /\ walk'.seen = walk.seen /\ walk'.must = walk.must /\ walk'.list = walk.list
  BY <1>1, <1>2, <1>3 DEF Walks
<1>5. /\ InList' = Matching(walk.f)
      /\ Covered' = first - 1 /\ Covered = walk.first - 1 + PageSize
  BY <1>4 DEF InList, Covered, Matching
<1>6. InList \subseteq InList'
  <2>1. \A i \in Entries : row[i].posted \in Int
    BY PostedIsInt DEF ReaInv, ReaTypeOK, RowsOK
  <2> QED
    BY <1>1, <1>5, <2>1, Taken DEF InList, Matching
<1>7. ReaTypeOK'
  BY <1>1, <1>4 DEF ReaInv, ReaTypeOK
<1>8. Caught'
  <2> SUFFICES ASSUME walk.list = "steady", NEW i \in walk.must
               PROVE  i \in InList' /\ (Cardinality(Ahead(InList, i))' < Covered' => i \in walk'.seen)
    BY <1>4 DEF Caught
  <2>1. i \in InList /\ (Cardinality(Ahead(InList, i)) < Covered => i \in walk.seen)
    BY <1>1 DEF ReaInv, Caught
  <2>2. Ahead(InList, i)' \in SUBSET InList' /\ Ahead(InList, i) \subseteq Ahead(InList, i)'
    BY <1>6 DEF Ahead, Before
  <2>3. Ahead(InList, i)' \in SUBSET Entries
    BY <1>2, <1>5, <2>2
  <2>4. /\ Cardinality(Ahead(InList, i)) \in Nat /\ Cardinality(Ahead(InList, i))' \in Nat
        /\ Cardinality(Ahead(InList, i)) <= Cardinality(Ahead(InList, i))'
    BY <2>2, <2>3, Smaller
  <2>5. walk.first \in Nat /\ PageSize \in Nat
    BY <1>1, ReadingAssumption DEF Walks
  <2> QED
    BY <1>4, <1>5, <1>6, <2>1, <2>4, <2>5
<1>9. Counted'
  BY <1>2, <1>4, <1>5 DEF Counted, total
<1>10. Ended'
  BY <1>4 DEF Ended
<1> QED
  BY <1>7, <1>8, <1>9, <1>10 DEF ReaInv

LEMMA FollowNextOK == ASSUME ReaInv, FollowNext PROVE ReaInv'
<1>1. walk \in Walks /\ walk.at = "shown"
  BY DEF ReaInv, ReaTypeOK, NoWalk, FollowNext
<1>2. walk.first \in Nat \ {0} /\ PageSize \in Nat
  BY <1>1, ReadingAssumption DEF Walks
<1>3. walk' = [walk EXCEPT !.first = walk.first + PageSize, !.at = "counted", !.page = "whole",
                            !.total = Cardinality(Matching(walk.f)), !.now = present]
  BY <1>1 DEF FollowNext, Walks
<1> DEFINE first == walk.first + PageSize
<1>4. first \in Nat \ {0} /\ first - 1 <= walk.first - 1 + PageSize
  BY <1>2
<1>5. UNCHANGED <<row, present, zone>>
  BY DEF FollowNext
<1>6. walk' = [walk EXCEPT !.first = first, !.at = "counted", !.page = "whole",
                            !.total = Cardinality(Matching(walk.f)), !.now = present]
  BY <1>3
<1> HIDE DEF first
<1> QED
  BY <1>1, <1>4, <1>5, <1>6, FollowOK

LEMMA FollowPrevOK == ASSUME ReaInv, FollowPrev PROVE ReaInv'
<1>1. walk \in Walks /\ walk.at \in {"shown", "end"}
  BY DEF ReaInv, ReaTypeOK, NoWalk, FollowPrev
<1>2. walk.first \in Nat \ {0} /\ PageSize \in Nat
  BY <1>1, ReadingAssumption DEF Walks
<1> DEFINE first == Max({1, walk.first - PageSize})
<1>4. first \in Nat \ {0} /\ first - 1 <= walk.first - 1 + PageSize
  <2> DEFINE m == walk.first - PageSize
  <2>1. m \in Int /\ m <= walk.first
    BY <1>2
  <2>2. first = Max({1, m})
    OBVIOUS
  <2> HIDE DEF m, first
  <2>3. \E x \in {1, m} : \A y \in {1, m} : x >= y
    BY <2>1
  <2>4. first \in {1, m} /\ \A y \in {1, m} : first >= y
    BY <2>2, <2>3 DEF Max
  <2> QED
    BY <1>2, <2>1, <2>4
<1>5. UNCHANGED <<row, present, zone>>
  BY DEF FollowPrev
<1>6. walk' = [walk EXCEPT !.first = first, !.at = "counted", !.page = "whole",
                            !.total = Cardinality(Matching(walk.f)), !.now = present]
  BY DEF FollowPrev
<1> HIDE DEF first
<1> QED
  BY <1>1, <1>4, <1>5, <1>6, FollowOK

LEMMA CloseListOK == ASSUME ReaInv, CloseList PROVE ReaInv'
<1>1. walk' = NoWalk /\ row' = row /\ present' = present
  BY DEF CloseList
<1> QED
  BY <1>1 DEF ReaInv, ReaTypeOK, Caught, Counted, Ended

\* A change, as the reader would have to know of it: the entries that stay where
\* they are keep their order, and those that come in can only push them on.
LEMMA NotedOK ==
    ASSUME ReaInv, MayChange, Noted, row' \in [Entries -> Rows], present' \in Int, present <= present'
    PROVE  ReaInv'
<1>1. CASE walk = NoWalk
  BY <1>1 DEF Noted, ReaInv, ReaTypeOK, Caught, Counted, Ended
<1>2. CASE walk # NoWalk
  <2>1. walk \in Walks /\ walk.at # "end" /\ walk.now \in Int /\ walk.now <= present /\ present \in Int
    BY <1>2 DEF ReaInv, ReaTypeOK, MayChange, Walks
  <2> DEFINE old == MatchingIn(row, present, walk.f)
             moved == {i \in old : i \notin MatchingIn(row', present', walk.f) \/ row'[i].posted # row[i].posted}
             after == MatchingIn(row', walk.now, walk.f)
             torn == walk.at = "counted" /\ ~(after \subseteq InList)
             list == IF moved # {} THEN "moved" ELSE walk.list
             page == IF torn THEN "torn" ELSE walk.page
             must == walk.must \ moved
             changes == walk.changes + 1
  <2>2. walk' = [walk EXCEPT !.must = must, !.changes = changes, !.list = list, !.page = page]
    BY <1>2, <2>1 DEF Noted, InList, Walks
  <2>3. /\ list \in {"steady", "moved"} /\ page \in {"whole", "torn"}
        /\ must \in SUBSET Entries /\ changes \in Nat
    BY <2>1 DEF Walks
  <2>4. /\ list = "steady" => walk.list = "steady" /\ moved = {}
        /\ page = "whole" => walk.page = "whole" /\ ~torn
    OBVIOUS
  <2> HIDE DEF list, page, moved, torn, must, changes
  <2>5. /\ walk' \in Walks
        /\ walk'.must = must /\ walk'.list = list /\ walk'.page = page
        /\ walk'.at = walk.at /\ walk'.f = walk.f /\ walk'.first = walk.first
        /\ walk'.total = walk.total /\ walk'.now = walk.now /\ walk'.seen = walk.seen
    BY <2>1, <2>2, <2>3 DEF Walks
  <2>6. InList' = after /\ Covered' = Covered /\ after \in SUBSET Entries
    BY <2>5 DEF InList, Covered, MatchingIn
  <2>7. ReaTypeOK'
    BY <2>1, <2>5 DEF ReaInv, ReaTypeOK
  <2>8. Caught'
    <3> SUFFICES ASSUME list = "steady", NEW i \in walk.must \ moved
                 PROVE  i \in after /\ (Cardinality(Ahead(InList, i))' < Covered => i \in walk.seen)
      BY <2>5, <2>6 DEF Caught, must
    <3>1. i \in InList /\ (Cardinality(Ahead(InList, i)) < Covered => i \in walk.seen)
      BY <1>2, <2>4 DEF ReaInv, Caught
    <3>2. InList \subseteq old
      <4>1. \A j \in Entries : row[j].posted \in Int
        BY PostedIsInt DEF ReaInv, ReaTypeOK, RowsOK
      <4> QED
        BY <2>1, <4>1, Taken DEF InList
    <3>3. \A j \in InList : j \in after /\ row'[j].posted = row[j].posted
      <4> SUFFICES ASSUME NEW j \in InList PROVE j \in after /\ row'[j].posted = row[j].posted
        OBVIOUS
      <4>1. j \in MatchingIn(row', present', walk.f) /\ row'[j].posted = row[j].posted
        BY <2>4, <3>2 DEF moved
      <4> QED
        BY <4>1, Stays DEF InList
    <3>4. Ahead(InList, i)' \in SUBSET after /\ Ahead(InList, i) \subseteq Ahead(InList, i)'
      BY <2>6, <3>1, <3>3 DEF Ahead, Before
    <3>5. Ahead(InList, i)' \in SUBSET Entries
      BY <2>6, <3>4
    <3>6. /\ Cardinality(Ahead(InList, i)) \in Nat /\ Cardinality(Ahead(InList, i))' \in Nat
          /\ Cardinality(Ahead(InList, i)) <= Cardinality(Ahead(InList, i))'
      BY <3>4, <3>5, Smaller
    <3>7. Covered \in Int
      BY <2>1, ReadingAssumption DEF Covered, Walks
    <3> QED
      BY <3>1, <3>3, <3>6, <3>7
  <2>9. Counted'
    <3> SUFFICES ASSUME walk.at = "counted", page = "whole" PROVE Cardinality(after) <= walk.total
      BY <2>1, <2>5, <2>6 DEF Counted
    <3>1. after \subseteq InList /\ Cardinality(InList) <= walk.total
      BY <1>2, <2>4 DEF torn, ReaInv, Counted
    <3>2. InList \in SUBSET Entries
      BY DEF InList, MatchingIn
    <3>3. Cardinality(after) \in Nat /\ Cardinality(InList) \in Nat /\ Cardinality(after) <= Cardinality(InList)
      BY <3>1, <3>2, Smaller
    <3>4. walk.total \in Nat
      BY <2>1 DEF Walks
    <3> QED
      BY <3>1, <3>3, <3>4
  <2>10. Ended'
    BY <2>1, <2>5 DEF Ended
  <2> QED
    BY <2>7, <2>8, <2>9, <2>10 DEF ReaInv
<1> QED
  BY <1>1, <1>2

LEMMA WriteEntryOK == ASSUME ReaInv, NEW i \in Entries, NEW r \in Rows, WriteEntry(i, r) PROVE ReaInv'
<1>1. row' \in [Entries -> Rows] /\ present' = present /\ present \in Int
  BY DEF WriteEntry, ReaInv, ReaTypeOK
<1> QED
  BY <1>1, NotedOK DEF WriteEntry

LEMMA TimeGoesOnOK == ASSUME ReaInv, TimeGoesOn PROVE ReaInv'
<1>1. row' \in [Entries -> Rows] /\ present' \in Int /\ present <= present'
  <2>1. PICK t \in Times : t > present /\ present' = t
    BY DEF TimeGoesOn
  <2> QED
    BY <2>1, ReadingAssumption DEF TimeGoesOn, ReaInv, ReaTypeOK
<1> QED
  BY <1>1, NotedOK DEF TimeGoesOn

\* Nobody moves an invariant that leaves the rows, the time and the reader alone.
LEMMA ReaStutterOK == ASSUME ReaInv, UNCHANGED <<row, present, walk>> PROVE ReaInv'
<1>1. InList' = InList /\ Covered' = Covered
  BY DEF InList, Covered
<1>2. \A i : Ahead(InList, i)' = Ahead(InList, i)
  BY <1>1 DEF Ahead, Before
<1>3. Caught'
  BY <1>1, <1>2 DEF ReaInv, Caught
<1>4. Counted' /\ Ended'
  BY <1>1 DEF ReaInv, Counted, Ended, Next
<1> QED
  BY <1>3, <1>4 DEF ReaInv, ReaTypeOK

LEMMA ReaNextOK == ASSUME ReaInv, [ReaNext]_reaVars PROVE ReaInv'
<1>1. ASSUME NEW l \in Browsed, OpenList(l) PROVE ReaInv'
  BY <1>1, OpenListOK
<1>2. CASE ReadRows
  BY <1>2, ReadRowsOK
<1>3. CASE FollowNext
  BY <1>3, FollowNextOK
<1>4. CASE FollowPrev
  BY <1>4, FollowPrevOK
<1>5. CASE CloseList
  BY <1>5, CloseListOK
<1>6. ASSUME NEW i \in Entries, NEW r \in Rows, WriteEntry(i, r) PROVE ReaInv'
  BY <1>6, WriteEntryOK
<1>7. CASE TimeGoesOn
  BY <1>7, TimeGoesOnOK
<1>8. CASE MoveZone \/ UNCHANGED reaVars
  BY <1>8, ReaStutterOK DEF MoveZone, reaVars
<1> QED
  BY <1>1, <1>2, <1>3, <1>4, <1>5, <1>6, <1>7, <1>8 DEF ReaNext

\* The rows, the time and the walk stay what they are declared to be, and no
\* query is asked at a time still to come (ListEntries, ListEntriesForReader).
THEOREM ReadingTypeCorrect == ReaSpec => []ReaTypeOK
<1>1. ReaInv => ReaTypeOK
  BY DEF ReaInv
<1> QED
  BY ReaInitOK, ReaNextOK, <1>1, PTL DEF ReaSpec

\* Whoever reads a list to its end has missed nothing that was in it all the
\* while, in whatever order the pages are read and whatever authors do meanwhile
\* (pager, handleSearch, entriesList; ListEntries).
THEOREM PagersMissNothing == ReaSpec => []PagingMissesNothing
BY ReaInitOK, ReaNextOK, EndSeen, PTL DEF ReaSpec

-----------------------------------------------------------------------------
(* The calendar. *)

LastDay == Len(Calendar)
YearOf(n) == Calendar[n][1]
MonthOf(n) == Calendar[n][2]
DateOf(n) == Calendar[n][3]

\* A date's year, month and day are numbers.
LEMMA CalendarTypes ==
    /\ LastDay \in Nat /\ DOMAIN Calendar = 1..LastDay
    /\ \A n \in 1..LastDay :
          /\ Calendar[n] = <<YearOf(n), MonthOf(n), DateOf(n)>>
          /\ YearOf(n) \in 1000..9999 /\ MonthOf(n) \in 1..12 /\ DateOf(n) \in 1..31
<1> DEFINE Y == 1000..9999
           M == 1..12
           K == 1..31
           D == Y \X M \X K
<1>1. Calendar \in Seq(D)
  BY CalendarAssumption
<1> HIDE DEF Y, M, K
<1>2. ASSUME NEW n, Calendar[n] \in D
      PROVE  /\ Calendar[n] = <<YearOf(n), MonthOf(n), DateOf(n)>>
             /\ YearOf(n) \in Y /\ MonthOf(n) \in M /\ DateOf(n) \in K
  BY <1>2 DEF YearOf, MonthOf, DateOf
<1> HIDE DEF D
<1>3. LastDay \in Nat /\ DOMAIN Calendar = 1..LastDay
  BY <1>1, LenProperties DEF LastDay
<1>4. \A n \in 1..LastDay : Calendar[n] \in D
  BY <1>1, <1>3, ElementOfSeq DEF LastDay
<1>5. \A n \in 1..LastDay :
          /\ Calendar[n] = <<YearOf(n), MonthOf(n), DateOf(n)>>
          /\ YearOf(n) \in Y /\ MonthOf(n) \in M /\ DateOf(n) \in K
  BY <1>2, <1>4
<1>6. \A n \in 1..LastDay : YearOf(n) \in 1000..9999 /\ MonthOf(n) \in 1..12 /\ DateOf(n) \in 1..31
  BY <1>5 DEF Y, M, K
<1> QED
  BY <1>3, <1>5, <1>6

\* What the calendar's assumption says, day by day.
LEMMA CalendarFacts ==
    /\ \A n \in 1..LastDay :
          /\ DateOf(n) <= n
          /\ \A k \in 1..DateOf(n) :
                LET f == n - DateOf(n) + k IN YearOf(f) = YearOf(n) /\ MonthOf(f) = MonthOf(n) /\ DateOf(f) = k
    /\ \A m, n \in 1..LastDay :
          YearOf(m) = YearOf(n) /\ MonthOf(m) = MonthOf(n) /\ DateOf(m) = DateOf(n) => m = n
<1>1. ASSUME NEW n \in 1..LastDay
      PROVE  /\ DateOf(n) <= n
             /\ \A k \in 1..DateOf(n) : Calendar[n - DateOf(n) + k] = <<YearOf(n), MonthOf(n), k>>
  <2>1. LET d == Calendar[n] IN
          d[3] <= n /\ \A k \in 1..d[3] : Calendar[n - d[3] + k] = <<d[1], d[2], k>>
    BY CalendarAssumption DEF LastDay
  <2> QED
    BY <2>1 DEF YearOf, MonthOf, DateOf
<1>2. ASSUME NEW n \in 1..LastDay, NEW k \in 1..DateOf(n)
      PROVE  LET f == n - DateOf(n) + k IN YearOf(f) = YearOf(n) /\ MonthOf(f) = MonthOf(n) /\ DateOf(f) = k
  <2> DEFINE f == n - DateOf(n) + k
  <2>1. Calendar[f] = <<YearOf(n), MonthOf(n), k>>
    BY <1>1
  <2> HIDE DEF f
  <2>2. Calendar[f][1] = YearOf(n) /\ Calendar[f][2] = MonthOf(n) /\ Calendar[f][3] = k
    BY <2>1
  <2> QED
    BY <2>2 DEF YearOf, MonthOf, DateOf, f
<1>3. ASSUME NEW m \in 1..LastDay, NEW n \in 1..LastDay,
             YearOf(m) = YearOf(n), MonthOf(m) = MonthOf(n), DateOf(m) = DateOf(n)
      PROVE  m = n
  <2>0. Calendar[m] = <<YearOf(m), MonthOf(m), DateOf(m)>> /\ Calendar[n] = <<YearOf(n), MonthOf(n), DateOf(n)>>
    BY CalendarTypes
  <2>1. Calendar[m] = Calendar[n]
    BY <1>3, <2>0
  <2>2. \A a, b \in DOMAIN Calendar : Calendar[a] = Calendar[b] => a = b
    BY CalendarAssumption DEF IsInjective
  <2> QED
    BY <2>1, <2>2, CalendarTypes
<1> QED
  BY <1>1, <1>2, <1>3

\* The days of a month are one after the other, from the first.
LEMMA MonthDays ==
    ASSUME NEW n \in 1..LastDay
    PROVE  LET D == DaysOf(YearOf(n), MonthOf(n))
               first == n - DateOf(n) + 1
               days == Cardinality(D)
           IN /\ n \in D /\ Min(D) = first /\ first \in 1..LastDay
              /\ days \in Nat /\ D = first..(first + days - 1)
              /\ \A k \in D : DateOf(k) = k - first + 1
<1> DEFINE y == YearOf(n)
           m == MonthOf(n)
           first == n - DateOf(n) + 1
           D == DaysOf(y, m)
           days == Cardinality(D)
<1>0. \A k : k \in D <=> k \in 1..LastDay /\ YearOf(k) = y /\ MonthOf(k) = m
  <2>1. DOMAIN Calendar = 1..LastDay
    BY CalendarTypes
  <2> QED
    BY <2>1 DEF DaysOf, YearOf, MonthOf
<1>1. first \in 1..LastDay /\ YearOf(first) = y /\ MonthOf(first) = m /\ DateOf(first) = 1
  <2>1. DateOf(n) \in 1..31 /\ DateOf(n) <= n /\ n \in 1..LastDay /\ LastDay \in Nat
    BY CalendarTypes, CalendarFacts
  <2>2. 1 \in 1..DateOf(n) /\ first \in 1..LastDay
    BY <2>1
  <2> QED
    BY <2>2, CalendarFacts
<1>2. ASSUME NEW k \in D
      PROVE  /\ k \in 1..LastDay /\ k >= first /\ DateOf(k) = k - first + 1
             /\ \A j \in first..k : j \in D
  <2>1. k \in 1..LastDay /\ YearOf(k) = y /\ MonthOf(k) = m
    BY <1>0
  <2> DEFINE d == DateOf(k)
  <2>2. d \in 1..31 /\ d <= k /\ LastDay \in Nat
    BY <2>1, CalendarTypes, CalendarFacts
  <2>3. \A j \in 1..d : YearOf(k - d + j) = y /\ MonthOf(k - d + j) = m /\ DateOf(k - d + j) = j
    BY <2>1, CalendarFacts
  <2> HIDE DEF first, d, y, m, D
  <2>4. k - d + 1 \in 1..LastDay /\ YearOf(k - d + 1) = y /\ MonthOf(k - d + 1) = m /\ DateOf(k - d + 1) = 1
    BY <2>1, <2>2, <2>3
  <2>5. k - d + 1 = first
    BY <1>1, <2>4, CalendarFacts
  <2>7. first \in Int /\ d = k - first + 1 /\ k >= first
    BY <1>1, <2>1, <2>2, <2>5
  <2>8. ASSUME NEW j \in first..k PROVE j \in D
    <3>1. j - first + 1 \in 1..d /\ k - d + (j - first + 1) = j /\ j \in 1..LastDay
      BY <1>1, <2>1, <2>2, <2>7
    <3>2. YearOf(j) = y /\ MonthOf(j) = m
      BY <2>3, <3>1
    <3> QED
      BY <1>0, <3>1, <3>2
  <2> QED
    BY <2>1, <2>7, <2>8 DEF d
<1>3. first \in D /\ n \in D
  BY <1>0, <1>1
<1> HIDE DEF D, first
<1>4. D \in SUBSET (1..LastDay) /\ IsFiniteSet(D) /\ days \in Nat
  <2>1. D \in SUBSET (1..LastDay)
    BY <1>2
  <2>2. IsFiniteSet(1..LastDay)
    <3>1. 1 \in Int /\ LastDay \in Int
      BY CalendarTypes
    <3> QED
      BY <3>1, FS_Interval
  <2> QED
    BY <2>1, <2>2, FS_Subset, FS_CardinalityType
<1>5. Min(D) = first
  <2>1. \A k \in D : first <= k /\ k \in Int
    BY <1>2
  <2>2. first \in Int
    BY <1>1
  <2>3. \A x \in D : (\A k \in D : x <= k) => x = first
    BY <1>3, <2>1, <2>2
  <2> QED
    BY <1>3, <2>1, <2>3 DEF Min
<1>6. \A k \in D : k <= first + days - 1
  <2> SUFFICES ASSUME NEW k \in D PROVE k <= first + days - 1
    OBVIOUS
  <2>1. k \in Int /\ first \in Int /\ k >= first /\ (first..k) \in SUBSET D
    BY <1>1, <1>2
  <2>2. Cardinality(first..k) = k - first + 1
    BY <2>1, FS_Interval
  <2>3. Cardinality(first..k) <= days
    BY <1>4, <2>1, FS_Subset
  <2> QED
    BY <1>4, <2>1, <2>2, <2>3
<1>7. \A k \in first..(first + days - 1) : k \in D
  <2> SUFFICES ASSUME NEW k \in first..(first + days - 1), k \notin D PROVE FALSE
    OBVIOUS
  <2>1. first \in Int /\ k \in Int /\ k >= first /\ k < first + days
    BY <1>1, <1>4
  <2>2. D \in SUBSET (first..(k - 1))
    <3> SUFFICES ASSUME NEW j \in D PROVE j \in first..(k - 1)
      OBVIOUS
    <3>1. j \in Int /\ j >= first /\ (k \in first..j => k \in D)
      BY <1>2
    <3> QED
      BY <2>1, <3>1
  <2>3. IsFiniteSet(first..(k - 1)) /\ Cardinality(first..(k - 1)) = k - first
    <3> DEFINE b == k - 1
    <3>1. b \in Int /\ (first > b => k - first = 0) /\ b - first + 1 = k - first
      BY <2>1
    <3> HIDE DEF b
    <3>2. IsFiniteSet(first..b) /\ Cardinality(first..b) = IF first > b THEN 0 ELSE b - first + 1
      BY <2>1, <3>1, FS_Interval
    <3>3. Cardinality(first..b) = k - first
      BY <3>1, <3>2
    <3> QED
      BY <3>2, <3>3 DEF b
  <2>4. days <= k - first
    <3>1. days <= Cardinality(first..(k - 1))
      BY <2>2, <2>3, FS_Subset
    <3> QED
      BY <2>3, <3>1
  <2>5. days \in Int
    BY <1>4
  <2> QED
    BY <2>1, <2>4, <2>5
<1>8. D = first..(first + days - 1)
  <2>1. first \in Int /\ days \in Nat /\ \A k \in D : k \in Int /\ k >= first
    BY <1>1, <1>2, <1>4
  <2>2. \A k \in D : k \in first..(first + days - 1)
    BY <1>6, <2>1
  <2> QED
    BY <1>7, <2>2
<1> QED
  BY <1>1, <1>2, <1>3, <1>4, <1>5, <1>8 DEF D, first

Start(n) == TimeDate(Midnight(n))

\* What the clock shows, and its day.
LEMMA ClockIs ==
    ASSUME zone \in Zones, NEW t \in Moments
    PROVE  /\ t \in Int /\ Tz[zone][t] \in Int /\ -PerDay < Tz[zone][t] /\ Tz[zone][t] < PerDay
           /\ Clock(t) = t + Tz[zone][t] /\ Clock(t) \in Int /\ DayIndex(t) \in Int
<1>1. PerDay \in Nat \ {0} /\ Forever \in Nat
  BY ReadingAssumption
<1>2. t \in Int
  BY <1>1 DEF Moments
<1>3. Tz[zone][t] \in Int /\ -PerDay < Tz[zone][t] /\ Tz[zone][t] < PerDay
  BY ClockAssumption
<1>4. Clock(t) = t + Tz[zone][t] /\ Clock(t) \in Int
  BY <1>2, <1>3 DEF Clock
<1>5. \A x \in Int : x \div PerDay \in Int
  BY <1>1
<1> QED
  BY <1>2, <1>3, <1>4, <1>5 DEF DayIndex

\* A clock is on a day that is not before its midnight.
LEMMA DayBegins ==
    ASSUME zone \in Zones, NEW t \in Moments, NEW n \in Int
    PROVE  /\ Midnight(n) \in Int
           /\ Midnight(n) <= Clock(t) <=> n <= DayIndex(t)
           /\ Clock(t) = Midnight(n) => DayIndex(t) = n /\ Clock(t) % PerDay = 0
<1> DEFINE x == Clock(t)
           q == x \div PerDay
<1>1. PerDay \in Nat \ {0}
  BY ReadingAssumption
<1>2. x \in Int
  BY ClockIs
<1>3. DayIndex(t) = 1 + q /\ Midnight(n) = (n - 1) * PerDay
  BY DEF DayIndex, Midnight
<1> HIDE DEF x
<1>4. q \in Int /\ q * PerDay <= x /\ x < (q + 1) * PerDay
  <2>1. \A y \in Int : y \div PerDay \in Int /\ (y \div PerDay) * PerDay <= y /\ y < ((y \div PerDay) + 1) * PerDay
    BY <1>1
  <2> QED
    BY <1>2, <2>1
<1> HIDE DEF q
<1>5. (n - 1) * PerDay \in Int /\ q * PerDay \in Int /\ (q + 1) * PerDay \in Int
  BY <1>1, <1>4
<1>6. ASSUME n - 1 <= q PROVE (n - 1) * PerDay <= q * PerDay
  BY <1>1, <1>4, <1>6
<1>7. ASSUME n - 1 >= q + 1 PROVE (q + 1) * PerDay <= (n - 1) * PerDay
  BY <1>1, <1>4, <1>7
<1>8. ASSUME n - 1 <= q - 1 PROVE n * PerDay <= q * PerDay /\ n * PerDay = (n - 1) * PerDay + PerDay
  BY <1>1, <1>4, <1>8
<1>9. (n - 1) * PerDay <= x <=> n <= 1 + q
  BY <1>2, <1>4, <1>5, <1>6, <1>7
<1>10. x = (n - 1) * PerDay => n = 1 + q
  <2> SUFFICES ASSUME x = (n - 1) * PerDay PROVE n = 1 + q
    OBVIOUS
  <2>1. n <= 1 + q
    BY <1>9, <1>5, <2>1
  <2>2. ~(n - 1 <= q - 1)
    BY <1>1, <1>4, <1>5, <1>8
  <2> QED
    BY <1>4, <2>1, <2>2
<1>11. x = (n - 1) * PerDay => x % PerDay = 0
  BY <1>1
<1> QED
  BY <1>3, <1>5, <1>9, <1>10, <1>11 DEF x

\* Around a midnight of the calendar the clock is changed once at the most.
LEMMA OneChange ==
    ASSUME zone \in Zones, NEW n \in 1..(LastDay + 1)
    PROVE  LET m == Midnight(n) IN
           /\ m \in Int /\ PerDay \in Nat \ {0} /\ (m - PerDay)..(m + PerDay) \subseteq Moments
           /\ \E c \in (m - PerDay)..(m + PerDay) :
                 /\ \A u \in (m - PerDay)..(c - 1) : Tz[zone][u] = Tz[zone][m - PerDay]
                 /\ \A u \in c..(m + PerDay) : Tz[zone][u] = Tz[zone][c]
<1> DEFINE m == Midnight(n)
           t == m - PerDay
           last == LastDay * PerDay
<1>1. PerDay \in Nat \ {0} /\ Forever \in Nat /\ LastDay \in Nat
  BY ReadingAssumption, CalendarTypes
<1>2. last \in Int /\ Forever >= last + 40 * PerDay
  <2>1. Forever >= (LastDay + 40) * PerDay
    BY ClockAssumption DEF LastDay
  <2> QED
    BY <1>1, <2>1
<1>3. m \in Int /\ 0 <= m /\ m <= last
  <2>1. n - 1 \in Int /\ 0 <= n - 1 /\ n - 1 <= LastDay
    BY <1>1
  <2>2. \A x, y, z \in Int : 0 <= x /\ x <= y /\ 0 <= z => x * z \in Int /\ 0 <= x * z /\ x * z <= y * z
    OBVIOUS
  <2>3. (n - 1) * PerDay \in Int /\ 0 <= (n - 1) * PerDay /\ (n - 1) * PerDay <= LastDay * PerDay
    BY <1>1, <2>1, <2>2
  <2> QED
    BY <2>3 DEF Midnight
<1> HIDE DEF m, last
<1>4. (m - PerDay)..(m + PerDay) \subseteq Moments
  BY <1>1, <1>2, <1>3 DEF Moments
<1>5. t \in Moments /\ t + 2 * PerDay \in Moments /\ t + 2 * PerDay = m + PerDay
  BY <1>1, <1>2, <1>3 DEF Moments
<1>6. \E c \in t..(t + 2 * PerDay) :
         /\ \A u \in t..(c - 1) : Tz[zone][u] = Tz[zone][t]
         /\ \A u \in c..(t + 2 * PerDay) : Tz[zone][u] = Tz[zone][c]
  BY <1>5, ZoneAssumption
<1> QED
  BY <1>1, <1>3, <1>4, <1>5, <1>6 DEF m

\* A midnight shown once is where time.Date finds it, and what comes from then on
\* is of its day or later.
LEMMA SharpStart ==
    ASSUME zone \in Zones, NEW n \in 1..(LastDay + 1), Sharp(n)
    PROVE  /\ Start(n) \in Moments /\ Clock(Start(n)) = Midnight(n)
           /\ \A t \in Moments : Start(n) <= t <=> n <= DayIndex(t)
<1> DEFINE m == Midnight(n)
           near == (m - PerDay)..(m + PerDay)
           O(t) == Tz[zone][t]
           a == O(m - PerDay)
<1>1. m \in Int /\ PerDay \in Nat \ {0} /\ near \subseteq Moments
  BY OneChange
<1>2. PICK c \in near : /\ \A u \in (m - PerDay)..(c - 1) : O(u) = a
                        /\ \A u \in c..(m + PerDay) : O(u) = O(c)
  BY OneChange
<1> DEFINE b == O(c)
<1>3. PICK s : {t \in near : Clock(t) = m} = {s}
  <2> DEFINE S == {t \in near : Clock(t) = m}
  <2>1. Cardinality(S) = 1
    BY DEF Sharp
  <2>2. IsFiniteSet(near)
    <3>1. m - PerDay \in Int /\ m + PerDay \in Int
      BY <1>1
    <3> QED
      BY <3>1, FS_Interval
  <2>3. S \in SUBSET near
    OBVIOUS
  <2> HIDE DEF S, near
  <2>4. IsFiniteSet(S)
    BY <2>2, <2>3, FS_Subset
  <2>5. \E s : S = {s}
    BY <2>1, <2>4, FS_Singleton
  <2> QED
    BY <2>5 DEF S
<1>4. \A t \in Moments : t \in Int /\ O(t) \in Int /\ -PerDay < O(t) /\ O(t) < PerDay /\ Clock(t) = t + O(t)
  BY ClockIs
<1>5. /\ a \in Int /\ -PerDay < a /\ a < PerDay
      /\ b \in Int /\ -PerDay < b /\ b < PerDay
  <2>1. m - PerDay \in near /\ c \in near
    BY <1>1
  <2> QED
    BY <1>1, <1>4, <2>1
<1> HIDE DEF m, O, a, b
<1>6. \A t \in near : /\ t < c => O(t) = a
                      /\ t >= c => O(t) = b
  <2>1. \A t \in near : t \in Int /\ m - PerDay <= t /\ t <= m + PerDay
    BY <1>1
  <2> QED
    BY <1>1, <1>2, <2>1 DEF b
<1>7. c \in Int
  BY <1>1, <1>2
<1>8. s \in near /\ Clock(s) = m /\ \A t \in near : Clock(t) = m => t = s
  BY <1>3
<1>9. \A t \in near : /\ t \in Int /\ m - PerDay <= t /\ t <= m + PerDay
                      /\ t < c => Clock(t) = t + a
                      /\ t >= c => Clock(t) = t + b
  BY <1>1, <1>4, <1>6
<1>10. m \in near /\ m - a \in near /\ m - b \in near
  BY <1>1, <1>5
<1>11. m - O(m) \in near /\ TimeDate(m) = m - O(m - O(m))
  <2>1. O(m) \in {a, b}
    BY <1>6, <1>7, <1>9, <1>10
  <2> QED
    BY <1>10, <2>1 DEF TimeDate, O
<1>12. TimeDate(m) = s
  BY <1>1, <1>5, <1>6, <1>7, <1>8, <1>9, <1>10, <1>11
<1>13. \A t \in near : s <= t <=> m <= Clock(t)
  <2> SUFFICES ASSUME NEW t \in near PROVE s <= t <=> m <= Clock(t)
    OBVIOUS
  <2>1. /\ s \in Int /\ (s < c => s = m - a) /\ (s >= c => s = m - b)
        /\ t \in Int /\ (t < c => Clock(t) = t + a) /\ (t >= c => Clock(t) = t + b)
    BY <1>1, <1>5, <1>7, <1>8, <1>9
  <2>2. CASE s < c
    <3>1. m - b < c \/ m - b = m - a
      BY <1>1, <1>5, <1>7, <1>8, <1>9, <1>10, <2>1, <2>2
    <3> QED
      BY <1>1, <1>5, <1>7, <2>1, <2>2, <3>1
  <2>3. CASE s >= c
    <3>1. m - a >= c \/ m - b = m - a
      BY <1>1, <1>5, <1>7, <1>8, <1>9, <1>10, <2>1, <2>3
    <3> QED
      BY <1>1, <1>5, <1>7, <2>1, <2>3, <3>1
  <2> QED
    BY <1>7, <2>1, <2>2, <2>3
<1>14. \A t \in Moments : t \notin near => (s <= t <=> m <= Clock(t))
  <2>1. \A t \in Moments : t \notin near => t < m - PerDay \/ t > m + PerDay
    BY <1>1, <1>4
  <2>2. \A t \in Moments : /\ t < m - PerDay => Clock(t) < m
                           /\ t > m + PerDay => Clock(t) > m
    BY <1>1, <1>4
  <2>3. m - PerDay <= s /\ s <= m + PerDay /\ s \in Int
    BY <1>8, <1>9
  <2>4. \A t \in Moments : Clock(t) \in Int /\ t \in Int
    BY <1>4
  <2> QED
    BY <1>1, <2>1, <2>2, <2>3, <2>4
<1>15. \A t \in Moments : s <= t <=> m <= Clock(t)
  BY <1>13, <1>14
<1>16. \A t \in Moments : m <= Clock(t) <=> n <= DayIndex(t)
  BY DayBegins DEF m
<1>17. Start(n) = s
  BY <1>12 DEF Start, m
<1> QED
  BY <1>1, <1>8, <1>15, <1>16, <1>17 DEF m

\* The days of a month and the one after the last.
LEMMA MonthEnds ==
    ASSUME NEW n \in 1..LastDay
    PROVE  LET D == DaysOf(YearOf(n), MonthOf(n))
               first == Min(D)
               next == first + Cardinality(D)
           IN /\ n \in D /\ first \in 1..LastDay /\ next \in 1..(LastDay + 1) /\ D = first..(next - 1)
              /\ YearOf(first) = YearOf(n) /\ MonthOf(first) = MonthOf(n) /\ DateOf(first) = 1
              /\ first + DateOf(n) - 1 = n /\ DateOf(n) \in 1..31
<1> DEFINE D == DaysOf(YearOf(n), MonthOf(n))
           first == n - DateOf(n) + 1
           days == Cardinality(D)
<1>1. /\ n \in D /\ Min(D) = first /\ first \in 1..LastDay
      /\ days \in Nat /\ D = first..(first + days - 1)
      /\ \A k \in D : DateOf(k) = k - first + 1
  BY MonthDays
<1>2. \A k \in D : k \in 1..LastDay /\ YearOf(k) = YearOf(n) /\ MonthOf(k) = MonthOf(n)
  <2>1. DOMAIN Calendar = 1..LastDay
    BY CalendarTypes
  <2> QED
    BY <2>1 DEF DaysOf, YearOf, MonthOf
<1>3. DateOf(n) \in 1..31 /\ LastDay \in Nat
  BY CalendarTypes
<1> HIDE DEF D, first, days
<1>4. n \in Int /\ first \in Int /\ first <= n /\ n <= first + days - 1
  BY <1>1
<1>5. first \in D /\ first + days - 1 \in D
  BY <1>1, <1>4
<1>6. first + days - 1 \in 1..LastDay
  BY <1>2, <1>5
<1>7. first + days \in 1..(LastDay + 1)
  BY <1>1, <1>3, <1>4, <1>6
<1>8. DateOf(first) = 1 /\ DateOf(n) = n - first + 1
  BY <1>1, <1>4, <1>5
<1>9. first + DateOf(n) - 1 = n
  BY <1>3, <1>4, <1>8
<1> QED
  BY <1>1, <1>2, <1>3, <1>5, <1>7, <1>8, <1>9 DEF D, days

\* What the archive of a month asks for is what was posted in it.
LEMMA MonthAsked ==
    ASSUME zone \in Zones, NEW n \in 1..LastDay, WholeMonth(YearOf(n), MonthOf(n)),
           NEW t \in Moments, DayIndex(t) \in 1..LastDay
    PROVE  LET range == MonthRange(YearOf(n), MonthOf(n), 0)
               start == TimeDate(Midnight(Min(DaysOf(YearOf(n), MonthOf(n)))))
           IN /\ t \in range.from..range.to
                 <=> YearOf(DayIndex(t)) = YearOf(n) /\ MonthOf(DayIndex(t)) = MonthOf(n)
              /\ t >= start /\ t < NextMonth(start)
                 <=> YearOf(DayIndex(t)) = YearOf(n) /\ MonthOf(DayIndex(t)) = MonthOf(n)
<1> DEFINE D == DaysOf(YearOf(n), MonthOf(n))
           first == Min(D)
           next == first + Cardinality(D)
           range == MonthRange(YearOf(n), MonthOf(n), 0)
           start == Start(first)
<1>1. /\ n \in D /\ first \in 1..LastDay /\ next \in 1..(LastDay + 1) /\ D = first..(next - 1)
      /\ YearOf(first) = YearOf(n) /\ MonthOf(first) = MonthOf(n) /\ DateOf(first) = 1
  BY MonthEnds
<1>2. DayIndex(t) \in D <=> YearOf(DayIndex(t)) = YearOf(n) /\ MonthOf(DayIndex(t)) = MonthOf(n)
  <2>1. DOMAIN Calendar = 1..LastDay
    BY CalendarTypes
  <2> QED
    BY <2>1 DEF DaysOf, YearOf, MonthOf
<1>3. range = [from |-> start, to |-> NextMonth(start) - 1]
  <2>1. D # {} /\ first \in Int
    BY <1>1
  <2>2. Max({0, 1}) = 1
    BY DEF Max
  <2>3. first + 1 - 1 = first
    BY <2>1
  <2> HIDE DEF D, first
  <2>4. MonthRange(YearOf(n), MonthOf(n), 0) =
          [from |-> TimeDate(Midnight(first + Max({0, 1}) - 1)),
           to |-> NextMonth(TimeDate(Midnight(first + Max({0, 1}) - 1))) - 1]
    BY <2>1 DEF MonthRange, D, first
  <2> QED
    BY <2>2, <2>3, <2>4 DEF Start
<1>4. Sharp(first) /\ Sharp(next)
  BY DEF WholeMonth
<1> HIDE DEF D, first, next, range
<1>5. first \in 1..(LastDay + 1) /\ LastDay \in Nat
  BY <1>1, CalendarTypes
<1>6. /\ start \in Moments /\ Clock(start) = Midnight(first)
      /\ start <= t <=> first <= DayIndex(t)
  BY <1>4, <1>5, SharpStart
<1>7. /\ Start(next) \in Moments
      /\ Start(next) <= t <=> next <= DayIndex(t)
  BY <1>1, <1>4, SharpStart
<1>8. NextMonth(start) = Start(next)
  <2>1. DayIndex(start) = first /\ Clock(start) % PerDay = 0
    BY <1>5, <1>6, DayBegins
  <2>2. In(start) = Calendar[first]
    BY <2>1 DEF In
  <2>3. In(start)[1] = YearOf(n) /\ In(start)[2] = MonthOf(n) /\ In(start)[3] = 1
    BY <1>1, <2>2 DEF YearOf, MonthOf, DateOf
  <2>4. NextMonth(start) = TimeDate(Midnight(next + 1 - 1) + 0)
    BY <2>1, <2>3 DEF NextMonth, next, first, D
  <2>5. next + 1 - 1 = next
    BY <1>1, <1>5
  <2>6. Midnight(next) \in Int
    BY <1>1, <1>5, OneChange
  <2>7. Midnight(next) + 0 = Midnight(next)
    BY <2>6
  <2> QED
    BY <2>4, <2>5, <2>7 DEF Start
<1>9. start \in Int /\ Start(next) \in Int /\ t \in Int /\ DayIndex(t) \in Int /\ first \in Int /\ next \in Int
  BY <1>1, <1>5, <1>6, <1>7, ClockIs
<1>10. DayIndex(t) \in D <=> first <= DayIndex(t) /\ ~(next <= DayIndex(t))
  BY <1>1, <1>9
<1>11. range.from = start /\ range.to = Start(next) - 1
  BY <1>3, <1>8
<1>12. t \in range.from..range.to <=> start <= t /\ ~(Start(next) <= t)
  BY <1>9, <1>11
<1>13. t >= start /\ t < NextMonth(start) <=> start <= t /\ ~(Start(next) <= t)
  BY <1>8, <1>9
<1> QED
  BY <1>2, <1>6, <1>7, <1>10, <1>12, <1>13 DEF D, first, range, Start

\* And of a day, what was posted on it.
LEMMA DayAsked ==
    ASSUME zone \in Zones, NEW n \in 1..LastDay, WholeDay(n),
           NEW t \in Moments, DayIndex(t) \in 1..LastDay
    PROVE  LET range == MonthRange(YearOf(n), MonthOf(n), DateOf(n)) IN
           t \in range.from..range.to <=> DayIndex(t) = n
<1> DEFINE D == DaysOf(YearOf(n), MonthOf(n))
           range == MonthRange(YearOf(n), MonthOf(n), DateOf(n))
           k == DateOf(n)
<1>1. n \in D /\ Min(D) + k - 1 = n /\ k \in 1..31
  BY MonthEnds
<1>2. Max({k, 1}) = k /\ k # 0
  BY <1>1 DEF Max
<1>3. range = [from |-> Start(n), to |-> NextDay(Start(n)) - 1]
  <2>1. D # {}
    BY <1>1
  <2> HIDE DEF D, k
  <2>2. range = [from |-> TimeDate(Midnight(Min(D) + Max({k, 1}) - 1)),
                 to |-> NextDay(TimeDate(Midnight(Min(D) + Max({k, 1}) - 1))) - 1]
    BY <1>2, <2>1 DEF MonthRange, D, k
  <2> QED
    BY <1>1, <1>2, <2>2 DEF Start
<1> HIDE DEF D, range, k
<1>4. n \in 1..(LastDay + 1) /\ n + 1 \in 1..(LastDay + 1) /\ LastDay \in Nat
  BY CalendarTypes
<1>5. /\ Start(n) \in Moments /\ Clock(Start(n)) = Midnight(n)
      /\ Start(n) <= t <=> n <= DayIndex(t)
  BY <1>4, SharpStart DEF WholeDay
<1>6. /\ Start(n + 1) \in Moments
      /\ Start(n + 1) <= t <=> n + 1 <= DayIndex(t)
  BY <1>4, SharpStart DEF WholeDay
<1>7. NextDay(Start(n)) = Start(n + 1)
  <2>1. PerDay \in Nat
    BY ReadingAssumption
  <2>2. Midnight(n) + PerDay = Midnight(n + 1)
    BY <2>1 DEF Midnight
  <2> QED
    BY <1>5, <2>2 DEF NextDay, Start
<1>8. Start(n) \in Int /\ Start(n + 1) \in Int /\ t \in Int /\ DayIndex(t) \in Int
  BY <1>5, <1>6, ClockIs
<1>9. range.from = Start(n) /\ range.to = Start(n + 1) - 1
  BY <1>3, <1>7
<1>10. t \in range.from..range.to <=> DayIndex(t) = n
  BY <1>5, <1>6, <1>8, <1>9
<1> QED
  BY <1>10 DEF range

-----------------------------------------------------------------------------
(* Addresses. *)

\* Numbers are read as they are written.
LEMMA Spelled ==
    /\ \A k \in Numbers : NumericSegment(ToString(k)) /\ NumberOf[ToString(k)] = k
    /\ \A k \in Numbers : ToString(k) \notin {"", "index.cfm", "print", "print.cfm", "postedby"}
    /\ \A n \in 1..LastDay : YearOf(n) \in Numbers /\ MonthOf(n) \in Numbers /\ DateOf(n) \in Numbers
<1>1. /\ \A m, n \in Numbers : ToString(m) = ToString(n) => m = n
      /\ \A n \in Numbers : ToString(n) \notin {"", "index.cfm", "print", "print.cfm", "postedby"}
  BY SegmentAssumption DEF Numbers
<1>2. ASSUME NEW k \in Numbers PROVE NumericSegment(ToString(k)) /\ NumberOf[ToString(k)] = k
  <2>1. ToString(k) \in {ToString(n) : n \in Numbers}
    OBVIOUS
  <2>2. NumberOf[ToString(k)] = CHOOSE n \in Numbers : ToString(n) = ToString(k)
    BY <2>1 DEF NumberOf
  <2>3. (CHOOSE n \in Numbers : ToString(n) = ToString(k)) = k
    BY <1>1
  <2> QED
    BY <2>1, <2>2, <2>3 DEF NumericSegment, NumberOf
<1>3. ASSUME NEW n \in 1..LastDay PROVE YearOf(n) \in Numbers /\ MonthOf(n) \in Numbers /\ DateOf(n) \in Numbers
  <2>1. Calendar[n] \in ToSet(Calendar)
    <3>1. DOMAIN Calendar = 1..LastDay
      BY CalendarTypes
    <3> QED
      BY <3>1 DEF ToSet
  <2>2. YearOf(n) \in Numbers
    BY <2>1 DEF Numbers, YearOf
  <2>3. MonthOf(n) \in 0..31 /\ DateOf(n) \in 0..31
    <3>1. MonthOf(n) \in 1..12 /\ DateOf(n) \in 1..31
      BY CalendarTypes
    <3> QED
      BY <3>1
  <2> QED
    BY <2>2, <2>3 DEF Numbers
<1> QED
  BY <1>1, <1>2, <1>3

-----------------------------------------------------------------------------
(* What a visitor's pages show. *)

Served == RowsOK /\ zone \in Zones
DayOf(i) == DayIndex(row[i].posted)

\* What is there was posted on a day of the calendar.
LEMMA Dated ==
    ASSUME Served, NEW i \in Entries, row[i].there
    PROVE  /\ zone \in Zones /\ row[i].posted \in Int
           /\ row[i].posted \in Moments /\ row[i].posted \in -Forever..Forever
           /\ DayOf(i) \in 1..LastDay
           /\ In(row[i].posted) = <<YearOf(DayOf(i)), MonthOf(DayOf(i)), DateOf(DayOf(i))>>
<1>1. row[i].posted \in PostTimes
  <2>1. row[i] # NoRow
    BY DEF NoRow
  <2>2. row[i] \in [posted : PostTimes, released : BOOLEAN, there : {TRUE}]
    BY <2>1 DEF Served, RowsOK, Rows
  <2> QED
    BY <2>2
<1>2. /\ zone \in Zones /\ row[i].posted \in Int
      /\ row[i].posted \in Moments /\ row[i].posted \in -Forever..Forever
  <2>1. zone \in Zones /\ row[i].posted \in Moments
    BY <1>1, ClockAssumption DEF Served
  <2>2. row[i].posted \in Int
    BY <1>1, ReadingAssumption
  <2> QED
    BY <2>1, <2>2 DEF Moments
<1>3. DayOf(i) \in 1..LastDay
  <2>1. 1 + ((row[i].posted + Tz[zone][row[i].posted]) \div PerDay) \in 1..Len(Calendar)
    BY <1>1, ClockAssumption DEF Served
  <2> QED
    BY <2>1 DEF DayOf, DayIndex, Clock, LastDay
<1>4. Calendar[DayOf(i)] = <<YearOf(DayOf(i)), MonthOf(DayOf(i)), DateOf(DayOf(i))>>
  BY <1>3, CalendarTypes
<1> QED
  BY <1>2, <1>3, <1>4 DEF In, DayOf

\* What a filter for visitors lets through.
LEMMA Filtered ==
    ASSUME Served, NEW i \in Entries, NEW f, f.liveOnly = TRUE, f.draftsOnly = FALSE, f.term = ""
    PROVE  i \in Matching(f) <=>
              /\ Live(i)
              /\ f.by # "" => AuthorOf[i] = f.by
              /\ f.cats # {} => CatsOf[i] \intersect f.cats # {}
              /\ row[i].posted \in f.dates.from..f.dates.to
<1> DEFINE dated == row[i].posted \in f.dates.from..f.dates.to
           filed == f.cats # {} => CatsOf[i] \intersect f.cats # {}
<1>1. i \in Matching(f) <=> Where(f, i, row[i], present)
  BY DEF Matching, MatchingIn
<1>2. Live(i) <=> LiveIn(row[i], present) /\ row[i].there
  BY DEF Live, LiveIn
<1> HIDE DEF dated, filed
<1>3. Where(f, i, row[i], present) <=>
        Live(i) /\ (f.by # "" => AuthorOf[i] = f.by) /\ filed /\ dated
  BY <1>2 DEF Where, dated, filed
<1> QED
  BY <1>1, <1>3 DEF dated, filed

\* What is live falls between the dates of the filter for everything.
LEMMA AllTime ==
    ASSUME Served, NEW i \in Entries, Live(i)
    PROVE  row[i].posted \in Everything.dates.from..Everything.dates.to
<1>1. Everything.dates.from = -Forever /\ Everything.dates.to = Forever
  BY DEF Everything
<1>2. row[i].there
  BY DEF Live, LiveIn
<1> QED
  BY <1>1, <1>2, Dated

\* The lists a visitor can ask for.
LEMMA WhatIsListed ==
    ASSUME Served, NEW i \in Entries
    PROVE  /\ i \in Matching(Everything) <=> Live(i)
           /\ \A r : i \in Matching([Everything EXCEPT !.dates = r])
                     <=> Live(i) /\ row[i].posted \in r.from..r.to
           /\ \A C : i \in Matching([Everything EXCEPT !.cats = C])
                     <=> Live(i) /\ (C # {} => CatsOf[i] \intersect C # {})
           /\ \A u : i \in Matching([Everything EXCEPT !.by = u])
                     <=> Live(i) /\ (u # "" => AuthorOf[i] = u)
<1> DEFINE all == Everything.dates
<1>1. Live(i) => row[i].posted \in all.from..all.to
  BY AllTime
<1>2. ASSUME NEW f, f.liveOnly = TRUE, f.draftsOnly = FALSE, f.term = ""
      PROVE  i \in Matching(f) <=>
                /\ Live(i)
                /\ f.by # "" => AuthorOf[i] = f.by
                /\ f.cats # {} => CatsOf[i] \intersect f.cats # {}
                /\ row[i].posted \in f.dates.from..f.dates.to
  BY <1>2, Filtered
<1> HIDE DEF all
<1>3. /\ Everything.liveOnly = TRUE /\ Everything.draftsOnly = FALSE /\ Everything.term = ""
      /\ Everything.by = "" /\ Everything.cats = {} /\ Everything.dates = all
  BY DEF Everything, all
<1>4. i \in Matching(Everything) <=> Live(i)
  BY <1>1, <1>2, <1>3
<1>5. ASSUME NEW r PROVE i \in Matching([Everything EXCEPT !.dates = r]) <=> Live(i) /\ row[i].posted \in r.from..r.to
  <2> DEFINE f == [Everything EXCEPT !.dates = r]
  <2>1. /\ f.liveOnly = TRUE /\ f.draftsOnly = FALSE /\ f.term = ""
        /\ f.by = "" /\ f.cats = {} /\ f.dates = r
    BY DEF Everything
  <2> HIDE DEF f
  <2>2. i \in Matching(f) <=> Live(i) /\ row[i].posted \in r.from..r.to
    BY <1>2, <2>1
  <2> QED
    BY <2>2 DEF f
<1>6. ASSUME NEW C PROVE i \in Matching([Everything EXCEPT !.cats = C]) <=> Live(i) /\ (C # {} => CatsOf[i] \intersect C # {})
  <2> DEFINE f == [Everything EXCEPT !.cats = C]
  <2>1. /\ f.liveOnly = TRUE /\ f.draftsOnly = FALSE /\ f.term = ""
        /\ f.by = "" /\ f.cats = C /\ f.dates = all
    BY DEF Everything, all
  <2> HIDE DEF f
  <2>2. i \in Matching(f) <=> Live(i) /\ (C # {} => CatsOf[i] \intersect C # {})
    BY <1>1, <1>2, <2>1
  <2> QED
    BY <2>2 DEF f
<1>7. ASSUME NEW u PROVE i \in Matching([Everything EXCEPT !.by = u]) <=> Live(i) /\ (u # "" => AuthorOf[i] = u)
  <2> DEFINE f == [Everything EXCEPT !.by = u]
  <2>1. /\ f.liveOnly = TRUE /\ f.draftsOnly = FALSE /\ f.term = ""
        /\ f.by = u /\ f.cats = {} /\ f.dates = all
    BY DEF Everything, all
  <2> HIDE DEF f
  <2>2. i \in Matching(f) <=> Live(i) /\ (u # "" => AuthorOf[i] = u)
    BY <1>1, <1>2, <2>1
  <2> QED
    BY <2>2 DEF f
<1> QED
  BY <1>4, <1>5, <1>6, <1>7

\* A page is a 404, an entry or a list.
LEMMA Pages ==
    /\ OnPage(NotFound) = {}
    /\ \A i : OnPage(Single(i)) = {i} /\ Single(i) # NotFound
    /\ \A f : OnPage(Listing(f)) = Matching(f)
<1>1. OnPage(NotFound) = {}
  BY DEF OnPage
<1>2. ASSUME NEW i PROVE OnPage(Single(i)) = {i} /\ Single(i) # NotFound
  <2>1. Single(i).is = "entry" /\ NotFound.is = "404" /\ Single(i).shows = {i}
    BY DEF Single, NotFound
  <2>2. Single(i) # NotFound
    BY <2>1
  <2> QED
    BY <2>1, <2>2 DEF OnPage
<1>3. ASSUME NEW f PROVE OnPage(Listing(f)) = Matching(f)
  <2>1. Listing(f).is = "list" /\ NotFound.is = "404" /\ Listing(f).shows = Matching(f)
    BY DEF Listing, NotFound
  <2>2. Listing(f) # NotFound
    BY <2>1
  <2> QED
    BY <2>1, <2>2 DEF OnPage
<1> QED
  BY <1>1, <1>2, <1>3

\* A visitor's view is that of what is live.
LEMMA VisitorView == [Everything EXCEPT !.liveOnly = ~FALSE] = Everything
<1> DEFINE dates == Everything.dates
           Filters == [liveOnly : BOOLEAN, draftsOnly : {FALSE}, by : {""}, cats : {{}}, term : {""},
                       dates : {dates}]
<1>1. Everything \in Filters /\ Everything.liveOnly = TRUE
  BY DEF Everything
<1> HIDE DEF dates
<1>2. ASSUME NEW f \in Filters, f.liveOnly = TRUE PROVE [f EXCEPT !.liveOnly = ~FALSE] = f
  BY <1>2
<1> QED
  BY <1>1, <1>2

\* What an address opens is what its page shows.
LEMMA Opened ==
    ASSUME NEW u, NEW to, Moved(u) = to
    PROVE  Opens(u, FALSE) =
              IF to.path = <<>> THEN HandleHome(Everything, to)
              ELSE IF to.path = <<"print">> THEN HandlePrint(Everything, to.ids)
              ELSE HandleSES(Everything, to.path)
BY VisitorView DEF Opens

\* Whatever a visitor asks for, it shows live entries only.
LEMMA OnlyLive ==
    ASSUME Served, NEW u
    PROVE  Visitor(u) \subseteq LiveEntries
<1> DEFINE Safe(page) == OnPage(page) \subseteq LiveEntries
<1>1. Safe(NotFound)
  BY Pages
<1>2. \A r : Safe(Listing([Everything EXCEPT !.dates = r]))
  <2> SUFFICES ASSUME NEW r, NEW i \in Matching([Everything EXCEPT !.dates = r]) PROVE i \in LiveEntries
    BY Pages
  <2>1. i \in Entries
    BY DEF Matching, MatchingIn
  <2> QED
    BY <2>1, WhatIsListed DEF LiveEntries
<1>3. \A C : Safe(Listing([Everything EXCEPT !.cats = C]))
  <2> SUFFICES ASSUME NEW C, NEW i \in Matching([Everything EXCEPT !.cats = C]) PROVE i \in LiveEntries
    BY Pages
  <2>1. i \in Entries
    BY DEF Matching, MatchingIn
  <2> QED
    BY <2>1, WhatIsListed DEF LiveEntries
<1>4. \A v : Safe(Listing([Everything EXCEPT !.by = v]))
  <2> SUFFICES ASSUME NEW v, NEW i \in Matching([Everything EXCEPT !.by = v]) PROVE i \in LiveEntries
    BY Pages
  <2>1. i \in Entries
    BY DEF Matching, MatchingIn
  <2> QED
    BY <2>1, WhatIsListed DEF LiveEntries
<1>5. Safe(Listing(Everything))
  <2> SUFFICES ASSUME NEW i \in Matching(Everything) PROVE i \in LiveEntries
    BY Pages
  <2>1. i \in Entries
    BY DEF Matching, MatchingIn
  <2> QED
    BY <2>1, WhatIsListed DEF LiveEntries
<1>6. \A i \in Entries : Safe(RenderEntry(Everything, i))
  <2> SUFFICES ASSUME NEW i \in Entries PROVE Safe(RenderEntry(Everything, i))
    OBVIOUS
  <2>1. Everything.liveOnly = TRUE
    BY DEF Everything
  <2>2. CASE Live(i)
    <3>1. RenderEntry(Everything, i) = Single(i)
      BY <2>2 DEF RenderEntry
    <3>2. OnPage(Single(i)) = {i} /\ i \in LiveEntries
      BY <2>2, Pages DEF LiveEntries
    <3> QED
      BY <3>1, <3>2
  <2>3. CASE ~Live(i)
    <3>1. RenderEntry(Everything, i) = NotFound
      BY <2>1, <2>3 DEF RenderEntry
    <3> QED
      BY <1>1, <3>1
  <2> QED
    BY <2>2, <2>3
<1> HIDE DEF Safe
<1>7. \A to : Safe(HandleHome(Everything, to))
  <2> SUFFICES ASSUME NEW to PROVE Safe(HandleHome(Everything, to))
    OBVIOUS
  <2> DEFINE there == {i \in to.ids : i \in Entries /\ row[i].there}
             known == to.ids \intersect DOMAIN CatAlias
  <2>1. there # {} => Safe(RenderEntry(Everything, CHOOSE i \in there : TRUE))
    BY <1>6
  <2>2. Safe(CategoryByIDs(Everything, to.ids))
    BY <1>1, <1>3 DEF CategoryByIDs
  <2> QED
    BY <1>1, <1>5, <2>1, <2>2 DEF HandleHome
<1>8. \A ids : Safe(HandlePrint(Everything, ids))
  <2> SUFFICES ASSUME NEW ids PROVE Safe(HandlePrint(Everything, ids))
    OBVIOUS
  <2> DEFINE there == {i \in ids : i \in Entries /\ row[i].there}
  <2>1. there # {} => Safe(RenderEntry(Everything, CHOOSE i \in there : TRUE))
    BY <1>6
  <2> QED
    BY <1>1, <2>1 DEF HandlePrint
<1>9. \A p : Safe(HandleSES(Everything, p))
  <2> SUFFICES ASSUME NEW p PROVE Safe(HandleSES(Everything, p))
    OBVIOUS
  <2>1. \A a : Safe(CategoryByAlias(Everything, a))
    BY <1>1, <1>3 DEF CategoryByAlias
  <2>2. \A a : Safe(PostedBy(Everything, a))
    BY <1>1, <1>4 DEF PostedBy
  <2>3. \A a, b, c : Safe(Archive(Everything, a, b, c))
    BY <1>1, <1>2 DEF Archive
  <2>4. \A a, b, c, d : Safe(EntryByPath(Everything, a, b, c, d))
    <3> SUFFICES ASSUME NEW a, NEW b, NEW c, NEW d PROVE Safe(EntryByPath(Everything, a, b, c, d))
      OBVIOUS
    <3> DEFINE named == {i \in Entries : row[i].there /\ AliasOf[i] = <<d>>}
    <3>1. named # {} => Safe(RenderEntry(Everything, CHOOSE i \in named : TRUE))
      BY <1>6
    <3> QED
      BY <1>1, <3>1 DEF EntryByPath
  <2>5. CASE Len(p) = 1
    <3>1. HandleSES(Everything, p) = CategoryByAlias(Everything, p[1])
      BY <2>5 DEF HandleSES
    <3> QED
      BY <2>1, <3>1
  <2>6. CASE Len(p) = 2
    <3>1. HandleSES(Everything, p) = IF p[1] = "postedby" THEN PostedBy(Everything, p[2])
                                     ELSE Archive(Everything, p[1], p[2], "")
      BY <2>6 DEF HandleSES
    <3> QED
      BY <2>2, <2>3, <3>1
  <2>7. CASE Len(p) = 3
    <3>1. HandleSES(Everything, p) = Archive(Everything, p[1], p[2], p[3])
      BY <2>7 DEF HandleSES
    <3> QED
      BY <2>3, <3>1
  <2>8. CASE Len(p) = 4
    <3>1. HandleSES(Everything, p) = EntryByPath(Everything, p[1], p[2], p[3], p[4])
      BY <2>8 DEF HandleSES
    <3> QED
      BY <2>4, <3>1
  <2>9. CASE Len(p) \notin {1, 2, 3, 4}
    <3>1. HandleSES(Everything, p) = NotFound
      BY <2>9 DEF HandleSES
    <3> QED
      BY <1>1, <3>1
  <2> QED
    BY <2>5, <2>6, <2>7, <2>8, <2>9
<1> DEFINE to == Moved(u)
<1>10. Safe(Opens(u, FALSE))
  <2>1. Opens(u, FALSE) = IF to.path = <<>> THEN HandleHome(Everything, to)
                          ELSE IF to.path = <<"print">> THEN HandlePrint(Everything, to.ids)
                          ELSE HandleSES(Everything, to.path)
    BY Opened
  <2> HIDE DEF to
  <2> QED
    BY <1>7, <1>8, <1>9, <2>1
<1> QED
  BY <1>10 DEF Safe, Visitor

-----------------------------------------------------------------------------
(* Where an address moves. *)

\* Paths of one to four segments.
LEMMA Segments ==
    ASSUME NEW S, NEW a \in S
    PROVE  /\ <<a>> \in Seq(S) /\ Len(<<a>>) = 1 /\ <<a>>[1] = a
           /\ \A b \in S : /\ <<a, b>> \in Seq(S) /\ Len(<<a, b>>) = 2
                           /\ <<a, b>>[1] = a /\ <<a, b>>[2] = b
           /\ \A b, c \in S : /\ <<a, b, c>> \in Seq(S) /\ Len(<<a, b, c>>) = 3
                              /\ <<a, b, c>>[1] = a /\ <<a, b, c>>[2] = b /\ <<a, b, c>>[3] = c
OBVIOUS

\* A path put before another.
LEMMA Prefixed ==
    ASSUME NEW S, NEW f \in Seq(S), NEW p \in Seq(S)
    PROVE  /\ f \o p \in Seq(S) /\ Len(f \o p) = Len(f) + Len(p)
           /\ \A i \in 1..Len(f) : (f \o p)[i] = f[i]
           /\ \A i \in 1..Len(p) : (f \o p)[Len(f) + i] = p[i]
<1>1. /\ f \o p \in Seq(S) /\ Len(f \o p) = Len(f) + Len(p)
      /\ \A i \in 1..(Len(f) + Len(p)) : (f \o p)[i] = IF i <= Len(f) THEN f[i] ELSE p[i - Len(f)]
  BY ConcatProperties
<1>2. Len(f) \in Nat /\ Len(p) \in Nat
  BY LenProperties
<1>3. ASSUME NEW i \in 1..Len(f) PROVE (f \o p)[i] = f[i]
  BY <1>1, <1>2
<1>4. ASSUME NEW i \in 1..Len(p) PROVE (f \o p)[Len(f) + i] = p[i]
  <2>1. Len(f) + i \in 1..(Len(f) + Len(p)) /\ ~(Len(f) + i <= Len(f)) /\ (Len(f) + i) - Len(f) = i
    BY <1>2
  <2> QED
    BY <1>1, <2>1
<1> QED
  BY <1>1, <1>3, <1>4

\* What is not an old address stays, and its old form moves to it.
LEMMA Stands ==
    ASSUME NEW S, NEW p \in Seq(S), NEW mode, NEW ids, p # <<"print.cfm">>, p # <<>> => p[1] # "index.cfm"
    PROVE  Moved(Url(p, mode, ids)) = Url(p, mode, ids)
<1>1. Url(p, mode, ids).path = p
  BY DEF Url
<1> QED
  BY <1>1 DEF Moved

\* The old form of an address moves to the address.
LEMMA MovesBack ==
    ASSUME NEW S, NEW p \in Seq(S), NEW mode, NEW ids, p # <<"print">>
    PROVE  Moved(LegacyURL(Url(p, mode, ids))) = Url(p, mode, ids)
<1> DEFINE T == S \union {"index.cfm"}
           u == Url(p, mode, ids)
           old == <<"index.cfm">> \o p
           Urls == [path : Seq(T), mode : {mode}, ids : {ids}]
<1>0. p \in Seq(T) /\ "index.cfm" \in T
  <2>1. S \subseteq T /\ "index.cfm" \in T
    OBVIOUS
  <2> HIDE DEF T
  <2> QED
    BY <2>1, SeqMonotonic
<1> HIDE DEF T
<1>1. u.path = p /\ u \in Urls
  BY <1>0 DEF Url
<1>2. old \in Seq(T) /\ old # <<>> /\ old[1] = "index.cfm" /\ Tail(old) = p
  <2> DEFINE first == <<"index.cfm">>
  <2>1. first \in Seq(T) /\ Len(first) = 1 /\ first[1] = "index.cfm"
    BY <1>0, Segments
  <2> HIDE DEF first
  <2>2. Len(p) \in Nat
    BY <1>0, LenProperties
  <2> DEFINE whole == first \o p
  <2>3. /\ whole \in Seq(T) /\ Len(whole) = Len(first) + Len(p)
        /\ \A i \in 1..Len(first) : whole[i] = first[i]
        /\ \A i \in 1..Len(p) : whole[Len(first) + i] = p[i]
    BY <1>0, <2>1, Prefixed
  <2> HIDE DEF whole
  <2>4. Len(whole) = 1 + Len(p) /\ whole[1] = "index.cfm"
    BY <2>1, <2>2, <2>3
  <2>5. \A i \in 1..Len(p) : whole[i + 1] = p[i]
    BY <2>1, <2>2, <2>3
  <2>6. whole # <<>>
    BY <2>2, <2>3, <2>4, EmptySeq
  <2>7. Tail(whole) \in Seq(T) /\ Len(Tail(whole)) = Len(p) /\ \A i \in 1..Len(p) : Tail(whole)[i] = p[i]
    BY <2>2, <2>3, <2>4, <2>5, <2>6, HeadTailProperties
  <2>8. Tail(whole) = p
    BY <1>0, <2>2, <2>7, SeqEqual
  <2> QED
    BY <2>3, <2>4, <2>6, <2>8 DEF whole, first
<1>3. old # <<"print.cfm">>
  <2>1. <<"print.cfm">>[1] = "print.cfm"
    OBVIOUS
  <2> QED
    BY <1>2, <2>1
<1>4. LegacyURL(u) = [u EXCEPT !.path = old]
  BY <1>1 DEF LegacyURL
<1> HIDE DEF u, old
<1>5. [u EXCEPT !.path = old].path = old /\ [[u EXCEPT !.path = old] EXCEPT !.path = p] = u
  BY <1>1, <1>2
<1>6. Moved([u EXCEPT !.path = old]) = [[u EXCEPT !.path = old] EXCEPT !.path = Tail(@)]
  BY <1>2, <1>3, <1>5 DEF Moved
<1> QED
  BY <1>2, <1>4, <1>5, <1>6 DEF u

-----------------------------------------------------------------------------
(* What an address opens. *)

\* A path is handled by its number of segments.
LEMMA Routed ==
    ASSUME NEW view, NEW p
    PROVE  /\ Len(p) = 1 => HandleSES(view, p) = CategoryByAlias(view, p[1])
           /\ Len(p) = 2 => HandleSES(view, p) = IF p[1] = "postedby" THEN PostedBy(view, p[2])
                                                 ELSE Archive(view, p[1], p[2], "")
           /\ Len(p) = 3 => HandleSES(view, p) = Archive(view, p[1], p[2], p[3])
           /\ Len(p) = 4 => HandleSES(view, p) = EntryByPath(view, p[1], p[2], p[3], p[4])
<1>1. CASE Len(p) = 1
  BY <1>1 DEF HandleSES
<1>2. CASE Len(p) = 2
  BY <1>2 DEF HandleSES
<1>3. CASE Len(p) = 3
  BY <1>3 DEF HandleSES
<1>4. CASE Len(p) = 4
  BY <1>4 DEF HandleSES
<1> QED
  BY <1>1, <1>2, <1>3, <1>4

\* A path of its own stays where it is, and goes by its segments.
LEMMA Direct ==
    ASSUME NEW S, NEW p \in Seq(S), NEW mode, NEW ids,
           p # <<>>, p[1] \notin {"index.cfm", "print", "print.cfm"}
    PROVE  /\ Opens(Url(p, mode, ids), FALSE) = HandleSES(Everything, p)
           /\ Opens(LegacyURL(Url(p, mode, ids)), FALSE) = HandleSES(Everything, p)
<1>1. \A w : p = <<w>> => p[1] = w
  OBVIOUS
<1>2. p # <<"print">> /\ p # <<"print.cfm">>
  BY <1>1
<1> DEFINE u == Url(p, mode, ids)
<1>3. u.path = p
  BY DEF Url
<1>4. Moved(u) = u /\ Moved(LegacyURL(u)) = u
  BY <1>2, Stands, MovesBack
<1> HIDE DEF u
<1> QED
  BY <1>2, <1>3, <1>4, Opened DEF u

\* A whole month's range holds what was posted in it, and a whole day's.
LEMMA InItsTime ==
    ASSUME Served, NEW n \in 1..LastDay, NEW i \in LiveEntries
    PROVE  LET month == MonthRange(YearOf(n), MonthOf(n), 0)
               day == MonthRange(YearOf(n), MonthOf(n), DateOf(n))
           IN /\ WholeMonth(YearOf(n), MonthOf(n)) =>
                    (row[i].posted \in month.from..month.to
                     <=> YearOf(DayOf(i)) = YearOf(n) /\ MonthOf(DayOf(i)) = MonthOf(n))
              /\ WholeDay(n) => (row[i].posted \in day.from..day.to <=> DayOf(i) = n)
<1>1. i \in Entries /\ row[i].there
  BY DEF LiveEntries, Live, LiveIn
<1>2. zone \in Zones /\ row[i].posted \in Moments /\ DayOf(i) \in 1..LastDay
  BY <1>1, Dated
<1>3. LET month == MonthRange(YearOf(n), MonthOf(n), 0) IN
      WholeMonth(YearOf(n), MonthOf(n)) =>
          (row[i].posted \in month.from..month.to
           <=> YearOf(DayOf(i)) = YearOf(n) /\ MonthOf(DayOf(i)) = MonthOf(n))
  BY <1>2, MonthAsked DEF DayOf
<1>4. LET day == MonthRange(YearOf(n), MonthOf(n), DateOf(n)) IN
      WholeDay(n) => (row[i].posted \in day.from..day.to <=> DayOf(i) = n)
  BY <1>2, DayAsked DEF DayOf
<1> QED
  BY <1>3, <1>4

\* What was posted within a range; the archive of a month and that of a day show
\* that, and of a whole month and a whole day what was posted then.
Within(r) == {i \in LiveEntries : row[i].posted \in r.from..r.to}
LEMMA ArchivesOpen ==
    ASSUME Served, NEW n \in 1..LastDay
    PROVE  /\ Visitor(MonthURL(YearOf(n), MonthOf(n))) = Within(MonthRange(YearOf(n), MonthOf(n), 0))
           /\ Visitor(DayURL(YearOf(n), MonthOf(n), DateOf(n))) =
                 Within(MonthRange(YearOf(n), MonthOf(n), DateOf(n)))
           /\ WholeMonth(YearOf(n), MonthOf(n)) => Visitor(MonthURL(YearOf(n), MonthOf(n))) =
                 {i \in LiveEntries : YearOf(DayOf(i)) = YearOf(n) /\ MonthOf(DayOf(i)) = MonthOf(n)}
           /\ WholeDay(n) => Visitor(DayURL(YearOf(n), MonthOf(n), DateOf(n))) =
                 {i \in LiveEntries : DayOf(i) = n}
<1> DEFINE y == ToString(YearOf(n))
           m == ToString(MonthOf(n))
           d == ToString(DateOf(n))
           S == {y, m, d}
           month == MonthRange(YearOf(n), MonthOf(n), 0)
           day == MonthRange(YearOf(n), MonthOf(n), DateOf(n))
<1>0. MonthOf(n) \in 1..12 /\ DateOf(n) \in 1..31
  BY CalendarTypes
<1>1. /\ NumericSegment(y) /\ NumericSegment(m) /\ NumericSegment(d)
      /\ NumberOf[y] = YearOf(n) /\ NumberOf[m] = MonthOf(n) /\ NumberOf[d] = DateOf(n)
      /\ d # "" /\ y # "postedby"
  <2>1. YearOf(n) \in Numbers /\ MonthOf(n) \in Numbers /\ DateOf(n) \in Numbers
    BY Spelled
  <2>2. y # "postedby" /\ d # ""
    BY <2>1, Spelled
  <2> QED
    BY <2>1, <2>2, Spelled
<1>2. Archive(Everything, y, m, "") = Listing([Everything EXCEPT !.dates = month])
  BY <1>0, <1>1 DEF Archive
<1>3. Archive(Everything, y, m, d) = Listing([Everything EXCEPT !.dates = day])
  BY <1>0, <1>1 DEF Archive
<1>4. /\ <<y, m>> \in Seq(S) /\ Len(<<y, m>>) = 2 /\ <<y, m>>[1] = y /\ <<y, m>>[2] = m
      /\ <<y, m, d>> \in Seq(S) /\ Len(<<y, m, d>>) = 3
      /\ <<y, m, d>>[1] = y /\ <<y, m, d>>[2] = m /\ <<y, m, d>>[3] = d
  BY Segments
<1> DEFINE p == <<y, m>>
           q == <<y, m, d>>
<1>6. MonthURL(YearOf(n), MonthOf(n)) = Url(p, "", {}) /\ DayURL(YearOf(n), MonthOf(n), DateOf(n)) = Url(q, "", {})
  BY DEF MonthURL, DayURL, At
<1> HIDE DEF y, m, d, S, month, day
<1>5. Len(p) = 2 /\ Len(q) = 3 /\ p \in Seq(S) /\ q \in Seq(S)
  BY <1>4
<1>9. p[1] = y /\ p[2] = m /\ q[1] = y /\ q[2] = m /\ q[3] = d
  BY <1>4
<1> HIDE DEF p, q
<1>7. HandleSES(Everything, p) = Listing([Everything EXCEPT !.dates = month])
  <2>1. HandleSES(Everything, p) = Archive(Everything, y, m, "")
    BY <1>1, <1>5, <1>9, Routed
  <2> QED
    BY <1>2, <2>1
<1>8. HandleSES(Everything, q) = Listing([Everything EXCEPT !.dates = day])
  <2>1. HandleSES(Everything, q) = Archive(Everything, y, m, d)
    BY <1>5, <1>9, Routed
  <2> QED
    BY <1>3, <2>1
<1>10. p # <<>> /\ q # <<>>
  BY <1>5
<1>11. p[1] \notin {"index.cfm", "print", "print.cfm"} /\ q[1] \notin {"index.cfm", "print", "print.cfm"}
  <2>1. y \notin {"index.cfm", "print", "print.cfm"}
    BY Spelled DEF y
  <2> QED
    BY <1>9, <2>1
<1>12. /\ Opens(Url(p, "", {}), FALSE) = HandleSES(Everything, p)
       /\ Opens(Url(q, "", {}), FALSE) = HandleSES(Everything, q)
  BY <1>5, <1>10, <1>11, Direct
<1>13. ASSUME NEW r PROVE Matching([Everything EXCEPT !.dates = r]) = {i \in LiveEntries : row[i].posted \in r.from..r.to}
  <2>1. \A i \in Matching([Everything EXCEPT !.dates = r]) : i \in Entries
    BY DEF Matching, MatchingIn
  <2> QED
    BY <2>1, WhatIsListed DEF LiveEntries
<1>14. \A i \in LiveEntries :
          /\ WholeMonth(YearOf(n), MonthOf(n)) =>
                (row[i].posted \in month.from..month.to
                 <=> YearOf(DayOf(i)) = YearOf(n) /\ MonthOf(DayOf(i)) = MonthOf(n))
          /\ WholeDay(n) => (row[i].posted \in day.from..day.to <=> DayOf(i) = n)
  BY InItsTime DEF month, day
<1>15. Visitor(Url(p, "", {})) = Within(month)
  BY <1>7, <1>12, <1>13, Pages DEF Visitor, Within
<1>16. Visitor(Url(q, "", {})) = Within(day)
  BY <1>8, <1>12, <1>13, Pages DEF Visitor, Within
<1>17. WholeMonth(YearOf(n), MonthOf(n)) =>
           Within(month) = {i \in LiveEntries : YearOf(DayOf(i)) = YearOf(n) /\ MonthOf(DayOf(i)) = MonthOf(n)}
  BY <1>14 DEF Within
<1>18. WholeDay(n) => Within(day) = {i \in LiveEntries : DayOf(i) = n}
  BY <1>14 DEF Within
<1> QED
  BY <1>6, <1>15, <1>16, <1>17, <1>18 DEF month, day

PrintPath == <<"print">>
OldPrintPath == <<"print.cfm">>

\* The print page's path stays, and the old one moves to it.
LEMMA PrintPaths ==
    /\ PrintPath \in Seq({"print"}) /\ PrintPath # <<>> /\ PrintPath # OldPrintPath
    /\ PrintPath[1] = "print" /\ OldPrintPath # <<>>
<1>1. PrintPath \in Seq({"print"}) /\ PrintPath[1] = "print" /\ Len(PrintPath) = 1
  <2>1. "print" \in {"print"}
    OBVIOUS
  <2> QED
    BY <2>1, Segments DEF PrintPath
<1>2. OldPrintPath[1] = "print.cfm" /\ Len(OldPrintPath) = 1
  BY DEF OldPrintPath
<1>3. Len(<<>>) = 0
  OBVIOUS
<1>4. PrintPath # <<>> /\ OldPrintPath # <<>>
  <2>1. Len(PrintPath) = 1 /\ Len(OldPrintPath) = 1
    BY <1>1, <1>2
  <2> QED
    BY <1>3, <2>1
<1>5. PrintPath # OldPrintPath
  <2>1. PrintPath[1] = "print" /\ OldPrintPath[1] = "print.cfm"
    BY <1>1, <1>2
  <2> QED
    BY <2>1
<1> QED
  BY <1>1, <1>4, <1>5

\* The id in a query opens its entry, and so does the page for the printer.
LEMMA IdsOpen ==
    ASSUME Served, NEW i \in Entries, row[i].there
    PROVE  /\ Live(i) => \A u \in {Url(<<>>, "entry", {i}), PrintURL(i)} :
                 Opens(u, FALSE) = Single(i) /\ Opens(LegacyURL(u), FALSE) = Single(i)
           /\ Opens(PrintURL(i), TRUE) = Single(i)
<1> DEFINE there == {e \in {i} : e \in Entries /\ row[e].there}
           byId == Url(<<>>, "entry", {i})
<1>1. there = {i} /\ there # {} /\ (CHOOSE e \in there : TRUE) = i
  OBVIOUS
<1>2. byId.path = <<>> /\ byId.mode = "entry" /\ byId.ids = {i} /\ byId.ids # {}
  BY DEF Url
<1>3. Live(i) => RenderEntry(Everything, i) = Single(i)
  BY DEF RenderEntry
<1>4. HandleHome(Everything, byId) = RenderEntry(Everything, i)
  BY <1>1, <1>2 DEF HandleHome
<1>5. \A view : HandlePrint(view, {i}) = RenderEntry(view, i)
  BY <1>1 DEF HandlePrint
<1>6. PrintURL(i) = Url(PrintPath, "", {i})
  BY DEF PrintURL, PrintPath
<1>7. Moved(byId) = byId /\ Moved(LegacyURL(byId)) = byId
  <2>1. <<>> \in Seq({}) /\ <<>> # <<"print.cfm">> /\ <<>> # <<"print">>
    OBVIOUS
  <2> QED
    BY <2>1, Stands, MovesBack
<1>8. PrintURL(i).path = PrintPath /\ PrintURL(i).ids = {i}
  <2>1. Url(PrintPath, "", {i}).path = PrintPath /\ Url(PrintPath, "", {i}).ids = {i}
    BY DEF Url
  <2> QED
    BY <1>6, <2>1
<1>9. Moved(PrintURL(i)) = PrintURL(i)
  <2>1. PrintPath # <<"print.cfm">> /\ PrintPath[1] # "index.cfm"
    BY PrintPaths DEF OldPrintPath
  <2> QED
    BY <1>6, <2>1, PrintPaths, Stands
<1>10. Moved(LegacyURL(PrintURL(i))) = PrintURL(i)
  <2> DEFINE old == LegacyURL(PrintURL(i))
  <2>1. old = [PrintURL(i) EXCEPT !.path = OldPrintPath]
    BY <1>8 DEF LegacyURL, PrintPath, OldPrintPath
  <2>2. old.path = OldPrintPath /\ old.ids = {i}
    <3>1. \A q : /\ [Url(PrintPath, "", {i}) EXCEPT !.path = q].path = q
                 /\ [Url(PrintPath, "", {i}) EXCEPT !.path = q].ids = {i}
      BY DEF Url
    <3> QED
      BY <1>6, <2>1, <3>1
  <2> HIDE DEF old
  <2>3. Moved(old) = RedirectQueryID(old)
    BY <2>2 DEF Moved, OldPrintPath
  <2>4. RedirectQueryID(old) = Url(PrintPath, "", {i})
    BY <2>2 DEF RedirectQueryID, PrintPath
  <2> QED
    BY <1>6, <2>3, <2>4 DEF old
<1>11. Opens(byId, FALSE) = RenderEntry(Everything, i) /\ Opens(LegacyURL(byId), FALSE) = RenderEntry(Everything, i)
  BY <1>2, <1>4, <1>7, Opened
<1>12. /\ Opens(PrintURL(i), FALSE) = RenderEntry(Everything, i)
       /\ Opens(LegacyURL(PrintURL(i)), FALSE) = RenderEntry(Everything, i)
  BY <1>5, <1>8, <1>9, <1>10, PrintPaths, Opened DEF PrintPath
<1>13. Opens(PrintURL(i), TRUE) = Single(i)
  <2> DEFINE view == [Everything EXCEPT !.liveOnly = ~TRUE]
  <2>1. view.liveOnly = FALSE
    BY DEF Everything
  <2>2. Opens(PrintURL(i), TRUE) = HandlePrint(view, {i})
    BY <1>8, <1>9, PrintPaths DEF Opens, PrintPath
  <2> HIDE DEF view
  <2>3. HandlePrint(view, {i}) = RenderEntry(view, i)
    BY <1>5
  <2>4. RenderEntry(view, i) = Single(i)
    BY <2>1 DEF RenderEntry
  <2> QED
    BY <2>2, <2>3, <2>4
<1> QED
  BY <1>3, <1>11, <1>12, <1>13

\* A path shorter than two is its one segment.
LEMMA OneSegment ==
    ASSUME NEW S, NEW s \in Seq(S), s # <<>>, Len(s) < 2
    PROVE  Len(s) = 1 /\ s[1] \in S /\ s = <<s[1]>>
<1>1. Len(s) = 1
  <2>1. Len(s) \in Nat \ {0}
    BY EmptySeq
  <2>2. \A x \in Nat \ {0} : x < 2 => x = 1
    OBVIOUS
  <2> QED
    BY <2>1, <2>2, Zenon
<1>2. s[1] \in S
  BY <1>1, ElementOfSeq
<1>3. ASSUME NEW w \in S PROVE <<w>> \in Seq(S) /\ Len(<<w>>) = 1 /\ <<w>>[1] = w
  BY Segments
<1>4. ASSUME NEW t \in Seq(S), Len(t) = 1, t[1] = s[1] PROVE t = s
  <2>1. \A k \in 1..Len(s) : s[k] = t[k]
    BY <1>1, <1>4
  <2> QED
    BY <1>1, <1>4, <2>1, SeqEqual
<1>5. <<s[1]>> = s
  BY <1>2, <1>3, <1>4
<1> QED
  BY <1>1, <1>2, <1>5

\* Three segments and one more make four.
LEMMA FourSegments ==
    ASSUME NEW S, NEW f \in Seq(S), NEW s \in Seq(S)
    PROVE  Len(f) = 3 /\ Len(s) = 1 =>
              /\ f \o s \in Seq(S) /\ Len(f \o s) = 4
              /\ (f \o s)[1] = f[1] /\ (f \o s)[2] = f[2] /\ (f \o s)[3] = f[3] /\ (f \o s)[4] = s[1]
<1>1. /\ f \o s \in Seq(S) /\ Len(f \o s) = Len(f) + Len(s)
      /\ \A k \in 1..Len(f) : (f \o s)[k] = f[k]
      /\ \A k \in 1..Len(s) : (f \o s)[Len(f) + k] = s[k]
  BY Prefixed
<1>2. ASSUME Len(f) = 3, Len(s) = 1
      PROVE  /\ Len(f \o s) = 4
             /\ (f \o s)[1] = f[1] /\ (f \o s)[2] = f[2] /\ (f \o s)[3] = f[3] /\ (f \o s)[4] = s[1]
  <2>1. Len(f \o s) = 4
    BY <1>1, <1>2
  <2>2. (f \o s)[1] = f[1] /\ (f \o s)[2] = f[2] /\ (f \o s)[3] = f[3]
    BY <1>1, <1>2
  <2>3. (f \o s)[3 + 1] = s[1]
    BY <1>1, <1>2
  <2>4. 3 + 1 = 4
    OBVIOUS
  <2>5. (f \o s)[4] = s[1]
    BY <2>3, <2>4, Zenon
  <2> QED
    BY <2>1, <2>2, <2>5
<1> QED
  BY <1>1, <1>2

\* A permalink opens its entry, where it names it alone.
LEMMA PermalinkOpens ==
    ASSUME Served, NEW i \in LiveEntries, Addressed(i)
    PROVE  Opens(EntryURL(i), FALSE) = Single(i) /\ Opens(LegacyURL(EntryURL(i)), FALSE) = Single(i)
<1>0. i \in Entries /\ row[i].there /\ Live(i)
  BY DEF LiveEntries, Live, LiveIn
<1>1. CASE AliasOf[i] = <<>>
  <2>1. EntryURL(i) = Url(<<>>, "entry", {i})
    BY <1>1 DEF EntryURL
  <2> QED
    BY <1>0, <2>1, IdsOpen
<1>2. CASE AliasOf[i] # <<>>
  <2> DEFINE alias == AliasOf[i]
             a == alias[1]
             n == DayOf(i)
             y == ToString(YearOf(n))
             m == ToString(MonthOf(n))
             d == ToString(DateOf(n))
             first == <<y, m, d>>
             p == first \o alias
             S == STRING \union {y, m, d}
  <2>1. n \in 1..LastDay /\ In(row[i].posted) = <<YearOf(n), MonthOf(n), DateOf(n)>>
    BY <1>0, Dated
  <2>2. alias \in Seq(S)
    <3>1. alias \in Seq(STRING) /\ STRING \subseteq S
      BY <1>0, SegmentAssumption
    <3> QED
      BY <3>1, SeqMonotonic
  <2>3. Len(alias) = 1 /\ a \in S /\ alias = <<a>>
    <3>1. Len(alias) < 2
      BY DEF Addressed
    <3> QED
      BY <1>2, <2>2, <3>1, OneSegment
  <2>4. /\ NumericSegment(y) /\ NumericSegment(m) /\ NumericSegment(d)
        /\ NumberOf[y] = YearOf(n) /\ NumberOf[m] = MonthOf(n) /\ NumberOf[d] = DateOf(n)
    BY <2>1, Spelled
  <2>5. y \notin {"index.cfm", "print", "print.cfm"}
    BY <2>1, Spelled
  <2>6. first[1] = y /\ first[2] = m /\ first[3] = d
    BY Segments
  <2>15. first \in Seq(S) /\ Len(first) = 3
    BY Segments
  <2>7. EntryURL(i) = Url(p, "", {})
    <3>1. EntryURL(i) = At(<<ToString(In(row[i].posted)[1]), ToString(In(row[i].posted)[2]), ToString(In(row[i].posted)[3])>> \o AliasOf[i])
      BY <1>2 DEF EntryURL
    <3> DEFINE t == In(row[i].posted)
    <3>2. t[1] = YearOf(n) /\ t[2] = MonthOf(n) /\ t[3] = DateOf(n)
      BY <2>1
    <3> HIDE DEF t
    <3>3. EntryURL(i) = At(<<ToString(t[1]), ToString(t[2]), ToString(t[3])>> \o AliasOf[i])
      BY <3>1 DEF t
    <3> QED
      BY <3>2, <3>3 DEF At
  <2> HIDE DEF y, m, d, S, first, n
  <2>8. EntryByPath(Everything, y, m, d, a) = Single(i)
    <3> DEFINE named == {j \in Entries : row[j].there /\ AliasOf[j] = <<a>>}
    <3>1. named = {i}
      BY <1>0, <1>2, <2>3 DEF Addressed
    <3> HIDE DEF a, alias
    <3>2. (CHOOSE j \in named : TRUE) = i /\ named # {}
      BY <3>1
    <3> HIDE DEF named
    <3>3. RenderEntry(Everything, i) = Single(i)
      BY <1>0 DEF RenderEntry
    <3>4. EntryByPath(Everything, y, m, d, a) =
            IF named = {} \/ ~(NumericSegment(y) /\ NumericSegment(m) /\ NumericSegment(d)) THEN NotFound
            ELSE IF In(row[CHOOSE j \in named : TRUE].posted) # <<NumberOf[y], NumberOf[m], NumberOf[d]>> THEN NotFound
            ELSE RenderEntry(Everything, CHOOSE j \in named : TRUE)
      BY DEF EntryByPath, named
    <3> QED
      BY <2>1, <2>4, <3>2, <3>3, <3>4
  <2>9. /\ p \in Seq(S) /\ Len(p) = 4
        /\ p[1] = first[1] /\ p[2] = first[2] /\ p[3] = first[3] /\ p[4] = a
    BY <2>2, <2>3, <2>15, FourSegments
  <2> HIDE DEF p, a, alias
  <2>10. p \in Seq(S) /\ p # <<>> /\ Len(p) = 4
    <3>1. Len(p) = 4 /\ p \in Seq(S)
      BY <2>9
    <3>2. p # <<>>
      BY <3>1
    <3> QED
      BY <3>1, <3>2
  <2>11. p[1] \notin {"index.cfm", "print", "print.cfm"}
    BY <2>5, <2>6, <2>9
  <2>13. HandleSES(Everything, p) = EntryByPath(Everything, y, m, d, a)
    <3>1. HandleSES(Everything, p) = EntryByPath(Everything, p[1], p[2], p[3], p[4])
      BY <2>10, Routed
    <3> QED
      BY <2>6, <2>9, <3>1
  <2>14. /\ Opens(Url(p, "", {}), FALSE) = HandleSES(Everything, p)
         /\ Opens(LegacyURL(Url(p, "", {})), FALSE) = HandleSES(Everything, p)
    BY <2>10, <2>11, Direct
  <2> QED
    BY <2>7, <2>8, <2>13, <2>14
<1> QED
  BY <1>1, <1>2

\* A permalink with an alias begins with its day.
LEMMA PermalinkPath ==
    ASSUME Served, NEW i \in LiveEntries, AliasOf[i] # <<>>
    PROVE  LET p == EntryURL(i).path IN
           Len(p) >= 2 /\ p[1] = ToString(YearOf(DayOf(i))) /\ p[2] = ToString(MonthOf(DayOf(i)))
<1> DEFINE n == DayOf(i)
           y == ToString(YearOf(n))
           m == ToString(MonthOf(n))
           d == ToString(DateOf(n))
           first == <<y, m, d>>
           t == In(row[i].posted)
           S == STRING \union {y, m, d}
<1>1. i \in Entries /\ row[i].there
  BY DEF LiveEntries, Live, LiveIn
<1>2. t[1] = YearOf(n) /\ t[2] = MonthOf(n) /\ t[3] = DateOf(n)
  <2>1. t = <<YearOf(n), MonthOf(n), DateOf(n)>>
    BY <1>1, Dated
  <2> QED
    BY <2>1
<1>3. AliasOf[i] \in Seq(S)
  <2>1. AliasOf[i] \in Seq(STRING) /\ STRING \subseteq S
    BY <1>1, SegmentAssumption
  <2> QED
    BY <2>1, SeqMonotonic
<1>4. first[1] = y /\ first[2] = m
  OBVIOUS
<1>5. first \in Seq(S) /\ Len(first) = 3
  BY Segments
<1>6. EntryURL(i).path = first \o AliasOf[i]
  <2> HIDE DEF t
  <2>1. EntryURL(i) = At(<<ToString(t[1]), ToString(t[2]), ToString(t[3])>> \o AliasOf[i])
    BY DEF EntryURL, t
  <2>2. EntryURL(i) = At(first \o AliasOf[i])
    BY <1>2, <2>1
  <2>3. \A w : At(w).path = w
    BY DEF At, Url
  <2> QED
    BY <2>2, <2>3
<1> HIDE DEF first, y, m, d, S
<1>7. \A s \in Seq(S) : /\ Len(first \o s) >= 2
                        /\ (first \o s)[1] = first[1] /\ (first \o s)[2] = first[2]
  <2> SUFFICES ASSUME NEW s \in Seq(S)
               PROVE  Len(first \o s) >= 2 /\ (first \o s)[1] = first[1] /\ (first \o s)[2] = first[2]
    OBVIOUS
  <2>1. /\ Len(first \o s) = Len(first) + Len(s)
        /\ \A k \in 1..Len(first) : (first \o s)[k] = first[k]
    BY <1>5, Prefixed
  <2>2. Len(s) \in Nat
    BY LenProperties
  <2> QED
    BY <1>5, <2>1, <2>2
<1>8. /\ Len(first \o AliasOf[i]) >= 2
      /\ (first \o AliasOf[i])[1] = first[1] /\ (first \o AliasOf[i])[2] = first[2]
  BY <1>3, <1>7
<1> QED
  BY <1>4, <1>6, <1>8 DEF y, m

\* A category's page shows what is filed under it.
LEMMA CategoryOpens ==
    ASSUME Served, NEW c \in DOMAIN CatAlias, Reached(c)
    PROVE  Visitor(CategoryURL(c)) = {i \in LiveEntries : c \in CatsOf[i]}
<1> DEFINE a == CatAlias[c]
           list == Listing([Everything EXCEPT !.cats = {c}])
<1>1. OnPage(list) = {i \in LiveEntries : c \in CatsOf[i]}
  <2>1. \A i \in Matching([Everything EXCEPT !.cats = {c}]) : i \in Entries
    BY DEF Matching, MatchingIn
  <2>2. \A i \in Entries : CatsOf[i] \intersect {c} # {} <=> c \in CatsOf[i]
    OBVIOUS
  <2>3. \A i \in Entries : i \in Matching([Everything EXCEPT !.cats = {c}]) <=> Live(i) /\ CatsOf[i] \intersect {c} # {}
    BY WhatIsListed
  <2>4. OnPage(list) = Matching([Everything EXCEPT !.cats = {c}])
    BY Pages
  <2> QED
    BY <2>1, <2>2, <2>3, <2>4 DEF LiveEntries
<1> HIDE DEF list
<1>2. CASE a = ""
  <2> DEFINE u == Url(<<>>, "cat", {c})
  <2>1. CategoryURL(c) = u
    BY <1>2 DEF CategoryURL
  <2>2. u.path = <<>> /\ u.mode = "cat" /\ u.ids = {c}
    BY DEF Url
  <2>3. Moved(u) = u
    <3>1. <<>> \in Seq({}) /\ <<>> # <<"print.cfm">>
      OBVIOUS
    <3> QED
      BY <3>1, Stands
  <2>4. HandleHome(Everything, u) = CategoryByIDs(Everything, {c})
    BY <2>2 DEF HandleHome
  <2>5. CategoryByIDs(Everything, {c}) = list
    <3>1. {c} \intersect DOMAIN CatAlias = {c}
      OBVIOUS
    <3> QED
      BY <3>1 DEF CategoryByIDs, list
  <2> HIDE DEF u
  <2> QED
    BY <1>1, <2>1, <2>2, <2>3, <2>4, <2>5, Opened DEF Visitor
<1>3. CASE a # ""
  <2> DEFINE p == <<a>>
  <2>1. CategoryURL(c) = Url(p, "", {})
    BY <1>3 DEF CategoryURL, At
  <2>2. a \notin ReservedSegments /\ a \notin {"index.cfm", "print", "print.cfm"}
    <3>1. a \notin ReservedSegments
      BY DEF Reached
    <3>2. a \notin {"index.cfm", "print.cfm"}
      BY SegmentAssumption
    <3>3. "print" \in ReservedSegments
      BY DEF ReservedSegments
    <3> QED
      BY <3>1, <3>2, <3>3
  <2>3. p \in Seq({a}) /\ Len(p) = 1 /\ p[1] = a
    BY Segments
  <2> HIDE DEF p
  <2>4. CategoryByAlias(Everything, a) = list
    <3> DEFINE named == {b \in DOMAIN CatAlias : CatAlias[b] = a}
    <3>1. named = {c}
      BY <1>3, SegmentAssumption
    <3>2. (CHOOSE b \in named : TRUE) = c /\ named # {}
      BY <3>1
    <3> HIDE DEF named, a
    <3>3. CategoryByAlias(Everything, a) =
            IF a \in ReservedSegments \/ named = {} THEN NotFound
            ELSE Listing([Everything EXCEPT !.cats = {CHOOSE b \in named : TRUE}])
      BY DEF CategoryByAlias, named
    <3> QED
      BY <2>2, <3>2, <3>3 DEF list
  <2>5. HandleSES(Everything, p) = list
    BY <2>3, <2>4, Routed
  <2>6. p # <<>>
    <3>1. Len(p) = 1
      BY <2>3
    <3> QED
      BY <3>1
  <2>7. p[1] \notin {"index.cfm", "print", "print.cfm"}
    BY <2>2, <2>3
  <2>8. Opens(Url(p, "", {}), FALSE) = HandleSES(Everything, p)
    BY <2>3, <2>6, <2>7, Direct
  <2> QED
    BY <1>1, <2>1, <2>5, <2>8 DEF Visitor
<1> QED
  BY <1>2, <1>3

\* The page of an author shows what they wrote.
LEMMA AuthorOpens ==
    ASSUME Served, NEW i \in LiveEntries
    PROVE  i \in Visitor(UserURL(AuthorOf[i]))
<1> DEFINE u == AuthorOf[i]
           p == <<"postedby", u>>
           list == Listing([Everything EXCEPT !.by = u])
<1>0. i \in Entries /\ Live(i)
  BY DEF LiveEntries
<1>1. i \in OnPage(list)
  <2>1. i \in Matching([Everything EXCEPT !.by = u]) <=> Live(i) /\ (u # "" => AuthorOf[i] = u)
    BY <1>0, WhatIsListed
  <2>2. i \in Matching([Everything EXCEPT !.by = u])
    BY <1>0, <2>1
  <2> QED
    BY <2>2, Pages
<1>2. PostedBy(Everything, u) = list
  BY <1>0 DEF PostedBy
<1>3. UserURL(u) = Url(p, "", {})
  BY DEF UserURL, At
<1> HIDE DEF list
<1>4. p \in Seq({"postedby", u}) /\ Len(p) = 2 /\ p[1] = "postedby" /\ p[2] = u
  <2>1. "postedby" \in {"postedby", u} /\ u \in {"postedby", u}
    OBVIOUS
  <2> QED
    BY <2>1, Segments
<1> HIDE DEF p, u
<1>5. HandleSES(Everything, p) = list
  BY <1>2, <1>4, Routed
<1>6. p # <<>>
  <2>1. Len(p) = 2
    BY <1>4
  <2> QED
    BY <2>1
<1>7. p[1] \notin {"index.cfm", "print", "print.cfm"}
  BY <1>4
<1>8. Opens(Url(p, "", {}), FALSE) = HandleSES(Everything, p)
  BY <1>4, <1>6, <1>7, Direct
<1> QED
  BY <1>1, <1>3, <1>5, <1>8 DEF Visitor, u

-----------------------------------------------------------------------------
(* The feeds and the sidebar's lists. *)

\* The first so many of a set, in order.
LEMMA FirstOf ==
    ASSUME RowsOK, NEW S \in SUBSET Entries, NEW limit \in Nat
    PROVE  LET list == Limited(Ordered(S), 0, limit) IN
           /\ ToSet(list) \subseteq S /\ \A n \in DOMAIN list : list[n] \in S
           /\ Len(list) = Min({Cardinality(S), limit})
<1> DEFINE all == Ordered(S)
           list == Limited(Ordered(S), 0, limit)
<1>1. PICK size \in Nat : size = Cardinality(S)
  <2>1. IsFiniteSet(S)
    BY ReadingAssumption, FS_Subset
  <2> QED
    BY <2>1, FS_CardinalityType
<1>2. all \in Seq(S) /\ Len(all) = size /\ \A k \in 1..size : all[k] \in S
  <2>1. \A k \in 1..size : all[k] \in S
    BY <1>1, Filled
  <2>2. all = [k \in 1..size |-> all[k]]
    BY <1>1 DEF Ordered
  <2> HIDE DEF all
  <2>3. all \in [1..size -> S]
    BY <2>1, <2>2
  <2>4. all \in Seq(S)
    BY <1>1, <2>3
  <2> QED
    BY <1>1, <2>1, <2>3, <2>4, LenProperties
<1>3. PICK last \in Nat : last = Min({size, limit}) /\ last <= size
  <2>1. \E x \in {size, limit} : \A y \in {size, limit} : x =< y
    BY <1>1
  <2>2. Min({size, limit}) \in {size, limit} /\ \A y \in {size, limit} : Min({size, limit}) =< y
    BY <2>1 DEF Min
  <2> QED
    BY <1>1, <2>2
<1>4. list = SubSeq(all, 1, last)
  <2>1. 0 + 1 = 1 /\ 0 + limit = limit
    OBVIOUS
  <2> HIDE DEF all
  <2> QED
    BY <1>2, <1>3, <2>1 DEF Limited, all
<1>5. Len(SubSeq(all, 1, last)) = last /\ SubSeq(all, 1, last) \in Seq(S)
  <2>1. \A k \in 1..last : all[k] \in S
    BY <1>2, <1>3
  <2> HIDE DEF all
  <2>2. /\ SubSeq(all, 1, last) \in Seq(S)
        /\ Len(SubSeq(all, 1, last)) = IF 1 <= last THEN last - 1 + 1 ELSE 0
    BY <2>1, SubSeqProperties
  <2> QED
    BY <2>2
<1> HIDE DEF list, all
<1>6. ToSet(list) \subseteq S /\ \A n \in DOMAIN list : list[n] \in S
  BY <1>4, <1>5 DEF ToSet
<1> QED
  BY <1>1, <1>3, <1>4, <1>5, <1>6 DEF list

\* A feed of one category, one month, one day, or all.
LEMMA Requests ==
    \A D, C : LET f == [Everything EXCEPT !.dates = D, !.cats = C] IN
        /\ f.liveOnly = TRUE /\ f.draftsOnly = FALSE /\ f.term = "" /\ f.by = ""
        /\ f.dates = D /\ f.cats = C
BY DEF Everything

\* How the query of a feed is read: one month or day, one set of categories, or all.
LEMMA Parsed ==
    ASSUME NEW q
    PROVE  LET dated == /\ q.mode2 \in {"day", "month"}
                        /\ NumericSegment(q.year) /\ NumericSegment(q.month) /\ NumberOf[q.month] \in 1..12
                        /\ q.mode2 = "day" => NumericSegment(q.day) /\ NumberOf[q.day] \in 1..31
               day == IF q.mode2 = "month" THEN 0 ELSE NumberOf[q.day]
               f == ParseRequest(q)
           IN /\ f.liveOnly = TRUE /\ f.draftsOnly = FALSE /\ f.term = "" /\ f.by = ""
              /\ f.dates = IF dated THEN MonthRange(NumberOf[q.year], NumberOf[q.month], day)
                           ELSE Everything.dates
              /\ f.cats = IF q.mode2 = "cat" THEN q.cats ELSE {}
<1> DEFINE dated == /\ q.mode2 \in {"day", "month"}
                    /\ NumericSegment(q.year) /\ NumericSegment(q.month) /\ NumberOf[q.month] \in 1..12
                    /\ q.mode2 = "day" => NumericSegment(q.day) /\ NumberOf[q.day] \in 1..31
           day == IF q.mode2 = "month" THEN 0 ELSE NumberOf[q.day]
           D == IF dated THEN MonthRange(NumberOf[q.year], NumberOf[q.month], day) ELSE Everything.dates
           C == IF q.mode2 = "cat" THEN q.cats ELSE Everything.cats
<1>1. ParseRequest(q) = [Everything EXCEPT !.dates = D, !.cats = C]
  BY DEF ParseRequest
<1>2. Everything.cats = {}
  BY DEF Everything
<1>3. C = IF q.mode2 = "cat" THEN q.cats ELSE {}
  BY <1>2
<1> HIDE DEF D, C
<1>4. LET f == [Everything EXCEPT !.dates = D, !.cats = C] IN
        /\ f.liveOnly = TRUE /\ f.draftsOnly = FALSE /\ f.term = "" /\ f.by = ""
        /\ f.dates = D /\ f.cats = C
  BY Requests
<1>5. LET f == ParseRequest(q) IN
        /\ f.liveOnly = TRUE /\ f.draftsOnly = FALSE /\ f.term = "" /\ f.by = ""
        /\ f.dates = D /\ f.cats = C
  BY <1>1, <1>4
<1> QED
  BY <1>3, <1>5 DEF D

\* Each feed asks for the live entries of its category, or within its month or day.
LEMMA FeedsAre ==
    ASSUME Served
    PROVE  /\ Matching(ParseRequest(Query("", "", "", "", {}, {}))) = LiveEntries
           /\ \A c : Matching(ParseRequest(CategoryFeed(c))) = {i \in LiveEntries : c \in CatsOf[i]}
           /\ \A n \in 1..LastDay :
                 /\ Matching(ParseRequest(MonthFeed(YearOf(n), MonthOf(n)))) =
                       Within(MonthRange(YearOf(n), MonthOf(n), 0))
                 /\ Matching(ParseRequest(DayFeed(YearOf(n), MonthOf(n), DateOf(n)))) =
                       Within(MonthRange(YearOf(n), MonthOf(n), DateOf(n)))
<1>1. \A f : Matching(f) \subseteq Entries
  BY DEF Matching, MatchingIn
<1>2. ASSUME NEW f, f.liveOnly = TRUE, f.draftsOnly = FALSE, f.term = "", f.by = ""
      PROVE  /\ f.cats = {} => Matching(f) = {i \in LiveEntries : row[i].posted \in f.dates.from..f.dates.to}
             /\ f.dates = Everything.dates =>
                  Matching(f) = {i \in LiveEntries : f.cats # {} => CatsOf[i] \intersect f.cats # {}}
  <2>1. \A i \in Entries : i \in Matching(f) <=>
            /\ Live(i)
            /\ f.cats # {} => CatsOf[i] \intersect f.cats # {}
            /\ row[i].posted \in f.dates.from..f.dates.to
    BY <1>2, Filtered
  <2>2. f.dates = Everything.dates => \A i \in Entries : Live(i) => row[i].posted \in f.dates.from..f.dates.to
    BY AllTime
  <2>3. f.cats = {} => Matching(f) = {i \in LiveEntries : row[i].posted \in f.dates.from..f.dates.to}
    <3> DEFINE dated(i) == row[i].posted \in f.dates.from..f.dates.to
    <3>1. \A i \in Entries : i \in Matching(f) <=>
            Live(i) /\ (f.cats # {} => CatsOf[i] \intersect f.cats # {}) /\ dated(i)
      BY <2>1
    <3> HIDE DEF dated
    <3>2. f.cats = {} => Matching(f) = {i \in LiveEntries : dated(i)}
      BY <1>1, <3>1 DEF LiveEntries
    <3> QED
      BY <3>2 DEF dated
  <2>4. f.dates = Everything.dates =>
            Matching(f) = {i \in LiveEntries : f.cats # {} => CatsOf[i] \intersect f.cats # {}}
    <3> DEFINE dated(i) == row[i].posted \in f.dates.from..f.dates.to
               filed(i) == f.cats # {} => CatsOf[i] \intersect f.cats # {}
    <3>1. /\ \A i \in Entries : i \in Matching(f) <=> Live(i) /\ filed(i) /\ dated(i)
          /\ f.dates = Everything.dates => \A i \in Entries : Live(i) => dated(i)
      BY <2>1, <2>2
    <3> HIDE DEF dated, filed
    <3>2. f.dates = Everything.dates => Matching(f) = {i \in LiveEntries : filed(i)}
      BY <1>1, <3>1 DEF LiveEntries
    <3> QED
      BY <3>2 DEF filed
  <2> QED
    BY <2>3, <2>4
<1>3. Matching(ParseRequest(Query("", "", "", "", {}, {}))) = LiveEntries
  <2> DEFINE q == Query("", "", "", "", {}, {})
             f == ParseRequest(q)
  <2>1. q.mode2 = ""
    BY DEF Query
  <2> HIDE DEF q
  <2>2. /\ f.liveOnly = TRUE /\ f.draftsOnly = FALSE /\ f.term = "" /\ f.by = ""
        /\ f.dates = Everything.dates /\ f.cats = {}
    BY <2>1, Parsed
  <2> HIDE DEF f
  <2>3. Matching(f) = {i \in LiveEntries : f.cats # {} => CatsOf[i] \intersect f.cats # {}}
    BY <1>2, <2>2
  <2> QED
    BY <2>2, <2>3 DEF f, q
<1>4. ASSUME NEW c PROVE Matching(ParseRequest(CategoryFeed(c))) = {i \in LiveEntries : c \in CatsOf[i]}
  <2> DEFINE q == CategoryFeed(c)
             f == ParseRequest(q)
  <2>1. q.mode2 = "cat" /\ q.cats = {c}
    BY DEF CategoryFeed, Query
  <2> HIDE DEF q
  <2>2. /\ f.liveOnly = TRUE /\ f.draftsOnly = FALSE /\ f.term = "" /\ f.by = ""
        /\ f.dates = Everything.dates /\ f.cats = {c}
    BY <2>1, Parsed
  <2> HIDE DEF f
  <2>3. Matching(f) = {i \in LiveEntries : f.cats # {} => CatsOf[i] \intersect f.cats # {}}
    BY <1>2, <2>2
  <2> QED
    BY <2>2, <2>3 DEF f, q
<1>5. ASSUME NEW n \in 1..LastDay
      PROVE  /\ Matching(ParseRequest(MonthFeed(YearOf(n), MonthOf(n)))) =
                   Within(MonthRange(YearOf(n), MonthOf(n), 0))
             /\ Matching(ParseRequest(DayFeed(YearOf(n), MonthOf(n), DateOf(n)))) =
                   Within(MonthRange(YearOf(n), MonthOf(n), DateOf(n)))
  <2> DEFINE y == ToString(YearOf(n))
             m == ToString(MonthOf(n))
             d == ToString(DateOf(n))
             month == MonthRange(YearOf(n), MonthOf(n), 0)
             day == MonthRange(YearOf(n), MonthOf(n), DateOf(n))
             q == MonthFeed(YearOf(n), MonthOf(n))
             r == DayFeed(YearOf(n), MonthOf(n), DateOf(n))
             f == ParseRequest(q)
             g == ParseRequest(r)
  <2>1. /\ NumericSegment(y) /\ NumericSegment(m) /\ NumericSegment(d)
        /\ NumberOf[y] = YearOf(n) /\ NumberOf[m] = MonthOf(n) /\ NumberOf[d] = DateOf(n)
    BY Spelled
  <2>2. MonthOf(n) \in 1..12 /\ DateOf(n) \in 1..31
    BY CalendarTypes
  <2>3. q.mode2 = "month" /\ q.year = y /\ q.month = m
    BY DEF MonthFeed, Query
  <2>4. r.mode2 = "day" /\ r.year = y /\ r.month = m /\ r.day = d
    BY DEF DayFeed, Query
  <2> HIDE DEF q, r, y, m, d
  <2>5. /\ f.liveOnly = TRUE /\ f.draftsOnly = FALSE /\ f.term = "" /\ f.by = ""
        /\ f.dates = month /\ f.cats = {}
    <3>1. /\ f.liveOnly = TRUE /\ f.draftsOnly = FALSE /\ f.term = "" /\ f.by = ""
          /\ f.cats = IF q.mode2 = "cat" THEN q.cats ELSE {}
      BY Parsed
    <3>2. f.dates = IF /\ q.mode2 \in {"day", "month"}
                       /\ NumericSegment(q.year) /\ NumericSegment(q.month) /\ NumberOf[q.month] \in 1..12
                       /\ q.mode2 = "day" => NumericSegment(q.day) /\ NumberOf[q.day] \in 1..31
                    THEN MonthRange(NumberOf[q.year], NumberOf[q.month], IF q.mode2 = "month" THEN 0 ELSE NumberOf[q.day])
                    ELSE Everything.dates
      BY Parsed
    <3> HIDE DEF f
    <3>3. f.dates = month
      BY <2>1, <2>2, <2>3, <3>2
    <3>4. f.cats = {}
      BY <2>3, <3>1
    <3> QED
      BY <3>1, <3>3, <3>4
  <2>6. /\ g.liveOnly = TRUE /\ g.draftsOnly = FALSE /\ g.term = "" /\ g.by = ""
        /\ g.dates = day /\ g.cats = {}
    <3>1. /\ g.liveOnly = TRUE /\ g.draftsOnly = FALSE /\ g.term = "" /\ g.by = ""
          /\ g.cats = IF r.mode2 = "cat" THEN r.cats ELSE {}
      BY Parsed
    <3>2. g.dates = IF /\ r.mode2 \in {"day", "month"}
                       /\ NumericSegment(r.year) /\ NumericSegment(r.month) /\ NumberOf[r.month] \in 1..12
                       /\ r.mode2 = "day" => NumericSegment(r.day) /\ NumberOf[r.day] \in 1..31
                    THEN MonthRange(NumberOf[r.year], NumberOf[r.month], IF r.mode2 = "month" THEN 0 ELSE NumberOf[r.day])
                    ELSE Everything.dates
      BY Parsed
    <3> HIDE DEF g
    <3>3. g.dates = day
      BY <2>1, <2>2, <2>4, <3>2
    <3>4. g.cats = {}
      BY <2>4, <3>1
    <3> QED
      BY <3>1, <3>3, <3>4
  <2> HIDE DEF f, g, month, day
  <2>7. /\ Matching(f) = {i \in LiveEntries : row[i].posted \in month.from..month.to}
        /\ Matching(g) = {i \in LiveEntries : row[i].posted \in day.from..day.to}
    <3>1. Matching(f) = {i \in LiveEntries : row[i].posted \in f.dates.from..f.dates.to}
      BY <1>2, <2>5
    <3>2. Matching(g) = {i \in LiveEntries : row[i].posted \in g.dates.from..g.dates.to}
      BY <1>2, <2>6
    <3> QED
      BY <2>5, <2>6, <3>1, <3>2
  <2> QED
    BY <2>7 DEF Within, f, g, q, r, month, day, y, m, d
<1> QED
  BY <1>3, <1>4, <1>5

-----------------------------------------------------------------------------
(* Every address leads where it says. *)

\* The cell of a day in the calendar, and what it links.
LEMMA CellOf ==
    ASSUME Served, NEW n \in 1..LastDay, WholeMonth(YearOf(n), MonthOf(n))
    PROVE  LET cell == BuildCalendar(<<YearOf(n), MonthOf(n)>>)[DateOf(n)] IN
           /\ (\E i \in LiveEntries : DayOf(i) = n) =>
                 cell.links = {DayURL(YearOf(n), MonthOf(n), DateOf(n))}
           /\ ~(\E i \in LiveEntries : DayOf(i) = n) => cell.links = {}
<1> DEFINE y == YearOf(n)
           m == MonthOf(n)
           d == DateOf(n)
           D == DaysOf(y, m)
           with == DaysWithEntries(y, m)
           cell == BuildCalendar(<<y, m>>)[d]
<1>0. zone \in Zones /\ n \in D
  BY MonthDays DEF Served
<1>1. d \in with <=> \E i \in LiveEntries : DayOf(i) = n
  <2> DEFINE start == TimeDate(Midnight(Min(D)))
             end == NextMonth(start)
             InMonth(i) == row[i].posted >= start /\ row[i].posted < end
  <2>1. with = {LivePosted[i][3] : i \in {j \in LiveEntries : InMonth(j) /\ Month(row[j].posted) = <<y, m>>}}
    BY DEF DaysWithEntries
  <2>2. ASSUME NEW i \in LiveEntries
        PROVE  /\ DayOf(i) \in 1..LastDay
               /\ LivePosted[i][3] = DateOf(DayOf(i))
               /\ Month(row[i].posted) = <<YearOf(DayOf(i)), MonthOf(DayOf(i))>>
               /\ InMonth(i) <=> YearOf(DayOf(i)) = y /\ MonthOf(DayOf(i)) = m
    <3>1. i \in Entries /\ row[i].there
      BY DEF LiveEntries, Live, LiveIn
    <3>2. /\ row[i].posted \in Moments /\ DayOf(i) \in 1..LastDay
          /\ In(row[i].posted) = <<YearOf(DayOf(i)), MonthOf(DayOf(i)), DateOf(DayOf(i))>>
      BY <3>1, Dated
    <3>3. LivePosted[i] = In(row[i].posted)
      BY DEF LivePosted
    <3>4. /\ In(row[i].posted)[1] = YearOf(DayOf(i)) /\ In(row[i].posted)[2] = MonthOf(DayOf(i))
          /\ In(row[i].posted)[3] = DateOf(DayOf(i))
      BY <3>2
    <3>5. InMonth(i) <=> YearOf(DayOf(i)) = y /\ MonthOf(DayOf(i)) = m
      BY <1>0, <3>2, MonthAsked DEF DayOf
    <3> HIDE DEF InMonth
    <3> QED
      BY <3>2, <3>3, <3>4, <3>5 DEF Month
  <2> HIDE DEF InMonth, with, D
  <2>3. ASSUME NEW i \in LiveEntries, DayOf(i) = n PROVE d \in with
    <3>1. LivePosted[i][3] = d /\ InMonth(i) /\ Month(row[i].posted) = <<y, m>>
      BY <2>2, <2>3
    <3> QED
      BY <2>1, <3>1
  <2>4. ASSUME d \in with PROVE \E i \in LiveEntries : DayOf(i) = n
    <3>1. PICK i \in LiveEntries : LivePosted[i][3] = d /\ InMonth(i)
      BY <2>1, <2>4
    <3>2. DayOf(i) \in 1..LastDay /\ YearOf(DayOf(i)) = y /\ MonthOf(DayOf(i)) = m /\ DateOf(DayOf(i)) = d
      BY <2>2, <3>1
    <3>3. DayOf(i) = n
      BY <3>2, CalendarFacts
    <3> QED
      BY <3>3
  <2> QED
    BY <2>3, <2>4
<1>2. cell.links = IF d \in with THEN {DayURL(y, m, d)} ELSE {}
  <2> DEFINE ym == <<y, m>>
             dates == {Calendar[k][3] : k \in DaysOf(ym[1], ym[2])}
  <2>1. ym[1] = y /\ ym[2] = m
    OBVIOUS
  <2>2. d \in dates
    <3>1. n \in DaysOf(ym[1], ym[2]) /\ Calendar[n][3] = d
      BY <1>0, <2>1 DEF DateOf
    <3> QED
      BY <3>1
  <2> HIDE DEF dates, ym
  <2>3. BuildCalendar(ym)[d] =
          [today |-> In(present) = <<ym[1], ym[2], d>>,
           links |-> IF d \in DaysWithEntries(ym[1], ym[2]) THEN {DayURL(ym[1], ym[2], d)} ELSE {}]
    BY <2>2 DEF BuildCalendar, dates
  <2>4. BuildCalendar(ym)[d].links = IF d \in DaysWithEntries(ym[1], ym[2]) THEN {DayURL(ym[1], ym[2], d)} ELSE {}
    BY <2>3
  <2> QED
    BY <2>1, <2>4 DEF ym
<1> QED
  BY <1>1, <1>2

\* The month an entry is counted in.
LEMMA MonthIs ==
    ASSUME Served, NEW i \in LiveEntries
    PROVE  /\ DayOf(i) \in 1..LastDay
           /\ Month(row[i].posted) = <<YearOf(DayOf(i)), MonthOf(DayOf(i))>>
<1>1. i \in Entries /\ row[i].there
  BY DEF LiveEntries, Live, LiveIn
<1>2. /\ DayOf(i) \in 1..LastDay
      /\ In(row[i].posted) = <<YearOf(DayOf(i)), MonthOf(DayOf(i)), DateOf(DayOf(i))>>
  BY <1>1, Dated
<1>3. In(row[i].posted)[1] = YearOf(DayOf(i)) /\ In(row[i].posted)[2] = MonthOf(DayOf(i))
  BY <1>2
<1> QED
  BY <1>2, <1>3 DEF Month

\* No two categories have one address.
LEMMA CategoriesApart ==
    ASSUME NEW b \in DOMAIN CatAlias, NEW c \in DOMAIN CatAlias, CategoryURL(b) = CategoryURL(c)
    PROVE  b = c
<1>1. /\ \A ids : Url(<<>>, "cat", ids).mode = "cat" /\ Url(<<>>, "cat", ids).ids = ids
      /\ \A p : At(p).mode = "" /\ At(p).path = p
  BY DEF Url, At
<1>2. CASE CatAlias[b] = "" /\ CatAlias[c] = ""
  <2>1. CategoryURL(b).ids = {b} /\ CategoryURL(c).ids = {c}
    <3>1. CategoryURL(b) = Url(<<>>, "cat", {b}) /\ CategoryURL(c) = Url(<<>>, "cat", {c})
      BY <1>2 DEF CategoryURL
    <3> QED
      BY <1>1, <3>1
  <2> QED
    BY <2>1
<1>3. CASE CatAlias[b] # "" /\ CatAlias[c] # ""
  <2> DEFINE p == <<CatAlias[b]>>
             q == <<CatAlias[c]>>
  <2>1. CategoryURL(b).path = p /\ CategoryURL(c).path = q
    BY <1>1, <1>3 DEF CategoryURL
  <2>2. p[1] = CatAlias[b] /\ q[1] = CatAlias[c]
    OBVIOUS
  <2> HIDE DEF p, q
  <2>3. CatAlias[b] = CatAlias[c]
    BY <2>1, <2>2
  <2> QED
    BY <1>3, <2>3, SegmentAssumption
<1>4. CASE ~(CatAlias[b] = "" <=> CatAlias[c] = "")
  <2>1. \A e \in {b, c} : CategoryURL(e).mode = IF CatAlias[e] = "" THEN "cat" ELSE ""
    BY <1>1 DEF CategoryURL
  <2> QED
    BY <1>4, <2>1
<1> QED
  BY <1>2, <1>3, <1>4

\* The facts of LinksOpen, one by one.
LEMMA ReachedOK ==
    ASSUME Served, NEW i \in LiveEntries
    PROVE  EntryReached(i)
<1> DEFINE n == DayOf(i)
           t == In(row[i].posted)
<1>0. /\ i \in Entries /\ row[i].there /\ Live(i)
      /\ n \in 1..LastDay /\ t[1] = YearOf(n) /\ t[2] = MonthOf(n) /\ t[3] = DateOf(n)
  <2>1. i \in Entries /\ row[i].there /\ Live(i)
    BY DEF LiveEntries, Live, LiveIn
  <2>2. n \in 1..LastDay /\ t = <<YearOf(n), MonthOf(n), DateOf(n)>>
    BY <2>1, Dated
  <2> QED
    BY <2>1, <2>2
<1>1. Addressed(i) => \A u \in {EntryURL(i), LegacyURL(EntryURL(i))} : Opens(u, FALSE) = Single(i)
  BY PermalinkOpens
<1>2. \A u \in {PrintURL(i), LegacyURL(PrintURL(i))} : Visitor(u) = {i}
  BY <1>0, IdsOpen, Pages DEF Visitor
<1>3. t[1] >= Cutoff => Month(row[i].posted) \in MonthlyArchives
  BY DEF MonthlyArchives, LivePosted
<1>4. /\ WholeMonth(t[1], t[2]) => i \in Visitor(MonthURL(t[1], t[2]))
      /\ WholeDay(DayIndex(row[i].posted)) => i \in Visitor(DayURL(t[1], t[2], t[3]))
  <2>1. /\ WholeMonth(YearOf(n), MonthOf(n)) => i \in Visitor(MonthURL(YearOf(n), MonthOf(n)))
        /\ WholeDay(n) => i \in Visitor(DayURL(YearOf(n), MonthOf(n), DateOf(n)))
    BY <1>0, ArchivesOpen
  <2> QED
    BY <1>0, <2>1 DEF DayOf
<1>5. i \in Visitor(UserURL(AuthorOf[i])) \intersect EntriesForSitemap
  BY <1>0, AuthorOpens, WhatIsListed DEF EntriesForSitemap
<1>6. \A c \in CatsOf[i] : Reached(c) => i \in Visitor(CategoryURL(c))
  <2>1. CatsOf[i] \subseteq DOMAIN CatAlias
    BY <1>0, SegmentAssumption
  <2> QED
    BY <2>1, CategoryOpens
<1>7. ToSet(FeedEntries(EntryFeed(i))) = {i}
  <2> DEFINE q == EntryFeed(i)
             S == {i}
  <2>1. q.mode2 = "entry" /\ q.ids = {i}
    BY DEF EntryFeed, Query
  <2> HIDE DEF q
  <2>2. FeedEntries(q) = Ordered({j \in q.ids : Live(j)})
    BY <2>1 DEF FeedEntries
  <2>3. {j \in q.ids : Live(j)} = S
    BY <1>0, <2>1
  <2>4. Cardinality(S) = 1
    BY FS_Singleton
  <2> HIDE DEF S
  <2>5. RowsOK /\ S \in SUBSET Entries /\ i \in S
    BY <1>0 DEF S, Served
  <2>6. Ordered(S)[1] = i
    <3>1. Ordered(S)[1] \in S
      BY <2>4, <2>5, Filled
    <3> QED
      BY <3>1 DEF S
  <2>7. DOMAIN Ordered(S) = 1..1
    BY <2>4 DEF Ordered
  <2>8. ToSet(Ordered(S)) = {Ordered(S)[k] : k \in 1..1}
    BY <2>7 DEF ToSet
  <2>9. ToSet(Ordered(S)) = {i}
    BY <2>6, <2>8
  <2> QED
    BY <2>2, <2>3, <2>9 DEF q
<1>8. \A j \in RelatedEntries(i) : i \in RelatedEntries(j)
  BY DEF RelatedEntries
<1>9. AliasOf[i] # <<>> /\ WholeMonth(t[1], t[2]) =>
          CalendarPod(EntryURL(i).path)[t[3]].links = {DayURL(t[1], t[2], t[3])}
  <2> SUFFICES ASSUME AliasOf[i] # <<>>, WholeMonth(t[1], t[2])
               PROVE  CalendarPod(EntryURL(i).path)[t[3]].links = {DayURL(t[1], t[2], t[3])}
    OBVIOUS
  <2> DEFINE p == EntryURL(i).path
  <2>1. Len(p) >= 2 /\ p[1] = ToString(YearOf(n)) /\ p[2] = ToString(MonthOf(n))
    BY <1>0, PermalinkPath
  <2>2. /\ NumericSegment(p[1]) /\ NumberOf[p[1]] = YearOf(n)
        /\ NumericSegment(p[2]) /\ NumberOf[p[2]] = MonthOf(n)
    BY <1>0, <2>1, Spelled
  <2>3. YearOf(n) \in 1000..9999 /\ MonthOf(n) \in 1..12
    <3>1. n \in 1..LastDay
      BY <1>0
    <3> HIDE DEF n
    <3> QED
      BY <3>1, CalendarTypes
  <2> HIDE DEF p, n
  <2>4. CalendarMonth(p) = <<YearOf(n), MonthOf(n)>>
    <3>1. ParseYearMonth(p)
      BY <2>2, <2>3 DEF ParseYearMonth
    <3>2. Len(p) >= 2
      BY <2>1
    <3>3. CalendarMonth(p) = <<NumberOf[p[1]], NumberOf[p[2]]>>
      BY <3>1, <3>2 DEF CalendarMonth
    <3> QED
      BY <2>2, <3>3
  <2>5. BuildCalendar(<<YearOf(n), MonthOf(n)>>)[DateOf(n)].links = {DayURL(YearOf(n), MonthOf(n), DateOf(n))}
    <3>1. n \in 1..LastDay /\ (\E j \in LiveEntries : DayOf(j) = n) /\ WholeMonth(YearOf(n), MonthOf(n))
      BY <1>0 DEF n
    <3> QED
      BY <3>1, CellOf
  <2> QED
    BY <1>0, <2>4, <2>5 DEF CalendarPod, p, n
<1> QED
  BY <1>1, <1>2, <1>3, <1>4, <1>5, <1>6, <1>7, <1>8, <1>9 DEF EntryReached

LEMMA LinksOpenOK ==
    ASSUME Served
    PROVE  LinksOpen
<1>0. RowsOK /\ LiveEntries \in SUBSET Entries /\ MaxItems \in Nat /\ MaxRecent \in Nat
  BY ReadingAssumption DEF Served, LiveEntries
<1>1. ASSUME NEW ym \in MonthlyArchives, WholeMonth(ym[1], ym[2]),
             NEW month \in MonthlyArchivesPod, month.url = MonthURL(ym[1], ym[2])
      PROVE  Cardinality(Visitor(month.url)) = month.count
  <2>0. PICK k \in LiveEntries : ym = Month(row[k].posted)
    BY DEF MonthlyArchives
  <2>1. PICK i \in LiveEntries : month = [url |-> MonthURL(Month(row[i].posted)[1], Month(row[i].posted)[2]),
                                          count |-> MonthCount(Month(row[i].posted))]
    BY DEF MonthlyArchivesPod, MonthlyArchives
  <2> DEFINE n == DayOf(i)
  <2>2. \A j \in LiveEntries : /\ DayOf(j) \in 1..LastDay
                               /\ Month(row[j].posted) = <<YearOf(DayOf(j)), MonthOf(DayOf(j))>>
    BY MonthIs
  <2> HIDE DEF n
  <2>3. n \in 1..LastDay /\ Month(row[i].posted) = <<YearOf(n), MonthOf(n)>>
    BY <2>2 DEF n
  <2> DEFINE then == {j \in LiveEntries : YearOf(DayOf(j)) = YearOf(n) /\ MonthOf(DayOf(j)) = MonthOf(n)}
  <2>4. {j \in LiveEntries : Month(row[j].posted) = <<YearOf(n), MonthOf(n)>>} = then
    BY <2>2
  <2>8. WholeMonth(YearOf(n), MonthOf(n))
    <3> DEFINE o == Month(row[i].posted)
    <3>1. o[1] = YearOf(n) /\ o[2] = MonthOf(n)
      BY <2>3
    <3>2. /\ ym[1] \in Numbers /\ ym[2] \in Numbers /\ YearOf(n) \in Numbers /\ MonthOf(n) \in Numbers
      <4>1. DayOf(k) \in 1..LastDay /\ ym = <<YearOf(DayOf(k)), MonthOf(DayOf(k))>>
        BY <2>0, <2>2
      <4>2. ym[1] = YearOf(DayOf(k)) /\ ym[2] = MonthOf(DayOf(k))
        BY <4>1
      <4> QED
        BY <2>3, <4>1, <4>2, Spelled
    <3> HIDE DEF o
    <3>3. MonthURL(ym[1], ym[2]) = MonthURL(YearOf(n), MonthOf(n))
      BY <1>1, <2>1, <3>1 DEF o
    <3>4. <<ToString(ym[1]), ToString(ym[2])>> = <<ToString(YearOf(n)), ToString(MonthOf(n))>>
      BY <3>3 DEF MonthURL, At, Url
    <3>5. ToString(ym[1]) = ToString(YearOf(n)) /\ ToString(ym[2]) = ToString(MonthOf(n))
      BY <3>4
    <3>6. ym[1] = YearOf(n) /\ ym[2] = MonthOf(n)
      BY <3>2, <3>5, Spelled
    <3> QED
      BY <1>1, <3>6
  <2>5. Visitor(MonthURL(YearOf(n), MonthOf(n))) = then
    BY <2>3, <2>8, ArchivesOpen
  <2> HIDE DEF then
  <2>6. MonthCount(<<YearOf(n), MonthOf(n)>>) = Cardinality(then)
    BY <2>4 DEF MonthCount
  <2>7. month.url = MonthURL(YearOf(n), MonthOf(n)) /\ month.count = MonthCount(<<YearOf(n), MonthOf(n)>>)
    <3> DEFINE o == Month(row[i].posted)
    <3>1. o = <<YearOf(n), MonthOf(n)>> /\ o[1] = YearOf(n) /\ o[2] = MonthOf(n)
      BY <2>3
    <3> HIDE DEF o
    <3>2. month.url = MonthURL(o[1], o[2]) /\ month.count = MonthCount(o)
      BY <2>1 DEF o
    <3> QED
      BY <3>1, <3>2
  <2> QED
    BY <2>5, <2>6, <2>7
<1>2. ASSUME NEW c \in DOMAIN CatAlias, Reached(c), NEW pod \in ArchivesPod, pod.url = CategoryURL(c)
      PROVE  /\ Cardinality(Visitor(pod.url)) = pod.count
             /\ ToSet(FeedEntries(pod.feed)) \subseteq Visitor(pod.url)
             /\ Len(FeedEntries(pod.feed)) = Min({pod.count, MaxItems})
  <2> DEFINE filed == {i \in LiveEntries : c \in CatsOf[i]}
  <2>1. PICK b \in DOMAIN CatAlias :
          pod = [url |-> CategoryURL(b), feed |-> CategoryFeed(b),
                 count |-> Cardinality({i \in LiveEntries : b \in CatsOf[i]})]
    BY DEF ArchivesPod
  <2>2. b = c
    <3>1. CategoryURL(b) = CategoryURL(c)
      BY <1>2, <2>1
    <3> QED
      BY <3>1, CategoriesApart
  <2>3. pod.feed = CategoryFeed(c) /\ pod.count = Cardinality(filed)
    BY <2>1, <2>2
  <2>4. Visitor(CategoryURL(c)) = filed
    BY <1>2, CategoryOpens
  <2>5. /\ FeedEntries(CategoryFeed(c)) = Limited(Ordered(filed), 0, MaxItems)
    <3> DEFINE q == CategoryFeed(c)
    <3>1. q.mode2 = "cat"
      BY DEF CategoryFeed, Query
    <3>2. Matching(ParseRequest(q)) = filed
      BY FeedsAre
    <3> HIDE DEF q, filed
    <3> QED
      BY <3>1, <3>2 DEF FeedEntries, ListEntries, q
  <2>6. filed \in SUBSET Entries
    BY <1>0
  <2> HIDE DEF filed
  <2>7. /\ ToSet(Limited(Ordered(filed), 0, MaxItems)) \subseteq filed
        /\ Len(Limited(Ordered(filed), 0, MaxItems)) = Min({Cardinality(filed), MaxItems})
    BY <1>0, <2>6, FirstOf
  <2> QED
    BY <1>2, <2>3, <2>4, <2>5, <2>7
<1>3. ASSUME NEW n \in DOMAIN Calendar
      PROVE  LET d == Calendar[n]
                 cell == BuildCalendar(<<d[1], d[2]>>)[d[3]]
             IN
             /\ WholeDay(n) /\ WholeMonth(d[1], d[2]) =>
                   (Visitor(DayURL(d[1], d[2], d[3])) # {} <=> cell.links # {})
             /\ ToSet(FeedEntries(DayFeed(d[1], d[2], d[3]))) \subseteq Visitor(DayURL(d[1], d[2], d[3]))
             /\ ToSet(FeedEntries(MonthFeed(d[1], d[2]))) \subseteq Visitor(MonthURL(d[1], d[2]))
  <2> DEFINE d == Calendar[n]
  <2>1. n \in 1..LastDay
    BY CalendarTypes
  <2>2. d[1] = YearOf(n) /\ d[2] = MonthOf(n) /\ d[3] = DateOf(n)
    BY DEF YearOf, MonthOf, DateOf
  <2> HIDE DEF d
  <2> DEFINE y == YearOf(n)
             m == MonthOf(n)
             k == DateOf(n)
             cell == BuildCalendar(<<y, m>>)[k]
             on == Within(MonthRange(y, m, k))
             then == Within(MonthRange(y, m, 0))
  <2>3. Visitor(MonthURL(y, m)) = then /\ Visitor(DayURL(y, m, k)) = on
    BY <2>1, ArchivesOpen
  <2>4. WholeDay(n) /\ WholeMonth(y, m) => (on # {} <=> cell.links # {})
    <3> SUFFICES ASSUME WholeDay(n), WholeMonth(y, m) PROVE on # {} <=> cell.links # {}
      OBVIOUS
    <3>1. /\ (\E i \in LiveEntries : DayOf(i) = n) => cell.links = {DayURL(y, m, k)}
          /\ ~(\E i \in LiveEntries : DayOf(i) = n) => cell.links = {}
      BY <2>1, CellOf
    <3>2. on = {i \in LiveEntries : DayOf(i) = n}
      BY <2>1, <2>3, ArchivesOpen
    <3> HIDE DEF cell, on
    <3> QED
      BY <3>1, <3>2
  <2>5. /\ Matching(ParseRequest(MonthFeed(y, m))) = then
        /\ Matching(ParseRequest(DayFeed(y, m, k))) = on
    BY <2>1, FeedsAre
  <2>6. MonthFeed(y, m).mode2 = "month" /\ DayFeed(y, m, k).mode2 = "day"
    BY DEF MonthFeed, DayFeed, Query
  <2>7. on \in SUBSET Entries /\ then \in SUBSET Entries
    BY <1>0 DEF Within
  <2> HIDE DEF on, then, cell, y, m, k
  <2>8. /\ FeedEntries(MonthFeed(y, m)) = Limited(Ordered(then), 0, MaxItems)
        /\ FeedEntries(DayFeed(y, m, k)) = Limited(Ordered(on), 0, MaxItems)
    <3>1. \A q : q.mode2 # "entry" => FeedEntries(q) = Limited(Ordered(Matching(ParseRequest(q))), 0, MaxItems)
      BY DEF FeedEntries, ListEntries
    <3> QED
      BY <2>5, <2>6, <3>1
  <2>9. /\ ToSet(Limited(Ordered(then), 0, MaxItems)) \subseteq then
        /\ ToSet(Limited(Ordered(on), 0, MaxItems)) \subseteq on
    BY <1>0, <2>7, FirstOf
  <2>10. /\ WholeDay(n) /\ WholeMonth(y, m) => (Visitor(DayURL(y, m, k)) # {} <=> cell.links # {})
         /\ ToSet(FeedEntries(DayFeed(y, m, k))) \subseteq Visitor(DayURL(y, m, k))
         /\ ToSet(FeedEntries(MonthFeed(y, m))) \subseteq Visitor(MonthURL(y, m))
    BY <2>3, <2>4, <2>8, <2>9
  <2>11. d[1] = y /\ d[2] = m /\ d[3] = k
    BY <2>2 DEF y, m, k
  <2>12. BuildCalendar(<<d[1], d[2]>>)[d[3]] = cell
    BY <2>11 DEF cell
  <2> QED
    BY <2>10, <2>11, <2>12 DEF d
<1>4. LET feed == FeedEntries(Query("", "", "", "", {}, {})) IN
      \A n \in DOMAIN feed : Addressed(feed[n]) => Visitor(Channel(feed).links[n]) = {feed[n]}
  <2> DEFINE q == Query("", "", "", "", {}, {})
             feed == FeedEntries(q)
  <2>1. q.mode2 = "" /\ Matching(ParseRequest(q)) = LiveEntries
    BY FeedsAre DEF Query
  <2> HIDE DEF q
  <2>2. feed = Limited(Ordered(LiveEntries), 0, MaxItems)
    BY <2>1 DEF FeedEntries, ListEntries
  <2>3. \A n \in DOMAIN feed : feed[n] \in LiveEntries
    BY <1>0, <2>2, FirstOf
  <2> HIDE DEF feed
  <2>4. \A n \in DOMAIN feed : Channel(feed).links[n] = EntryURL(feed[n])
    BY DEF Channel
  <2>5. \A n \in DOMAIN feed : Addressed(feed[n]) => Visitor(EntryURL(feed[n])) = {feed[n]}
    BY <2>3, PermalinkOpens, Pages DEF Visitor
  <2> QED
    BY <2>4, <2>5 DEF feed, q
<1>5. ToSet(RecentPod) \subseteq LiveEntries
  <2>1. Matching(Everything) = LiveEntries
    <3>1. Matching(Everything) \subseteq Entries
      BY DEF Matching, MatchingIn
    <3> QED
      BY <3>1, WhatIsListed DEF LiveEntries
  <2> QED
    BY <1>0, <2>1, FirstOf DEF RecentPod, ListEntries
<1>6. \A i \in Entries : row[i].there => OnPage(Opens(PrintURL(i), TRUE)) = {i}
  BY IdsOpen, Pages
<1> QED
  BY <1>1, <1>2, <1>3, <1>4, <1>5, <1>6, ReachedOK, OnlyLive DEF LinksOpen
-----------------------------------------------------------------------------
\* Served holds at the start,
LEMMA InitServed == ReaInit => Served
BY DEF ReaInit, ReaStart, Served, RowsOK, Rows

\* and every step keeps it.
LEMMA NextServed == ASSUME Served, [ReaNext]_reaVars PROVE Served'
<1>1. ASSUME NEW i \in Entries, NEW r \in Rows, WriteEntry(i, r) PROVE Served'
  BY <1>1 DEF WriteEntry, Served, RowsOK
<1>2. CASE MoveZone
  BY <1>2 DEF MoveZone, Served, RowsOK
<1>3. CASE UNCHANGED <<row, zone>>
  BY <1>3 DEF Served, RowsOK
<1>4. ASSUME NEW l \in Browsed, OpenList(l) PROVE UNCHANGED <<row, zone>>
  BY <1>4 DEF OpenList
<1>5. ReadRows \/ FollowNext \/ FollowPrev \/ CloseList \/ TimeGoesOn => UNCHANGED <<row, zone>>
  BY DEF ReadRows, FollowNext, FollowPrev, CloseList, TimeGoesOn
<1>6. UNCHANGED reaVars => UNCHANGED <<row, zone>>
  BY DEF reaVars
<1> QED
  BY <1>1, <1>2, <1>3, <1>4, <1>5, <1>6 DEF ReaNext

\* Every address the blog hands out leads where it says, whatever entries,
\* aliases, categories, days and time zones there are: permalinks, archives,
\* categories, authors, print pages, feeds and the calendar, by the new paths
\* and the old; and none shows a draft (permalink.go against routes_entry.go and
\* legacy, archives.go against monthRange, feeds against the pages).
THEOREM AddressesOpen == ReaSpec => []LinksOpen
<1>1. Served => LinksOpen
  BY LinksOpenOK
<1> QED
  BY <1>1, InitServed, NextServed, PTL DEF ReaSpec
=============================================================================
