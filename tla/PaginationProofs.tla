-------------------------- MODULE PaginationProofs --------------------------
(***************************************************************************)
(* Theorems about Pagination.  What a client sees of a listing that changes *)
(* under it rests on one fact about storage: the rows of any set come in    *)
(* the declared order, and the tie-breaker leaves no two of them equal.     *)
(***************************************************************************)
EXTENDS Pagination, CollectionsProofs, SequenceTheorems

\* The tie-breaker makes the declared sort a strict order of all rows.
LEMMA BeforeIsOrder ==
    /\ \A r \in Rows : ~Before(r, r)
    /\ \A r, s \in Rows : Before(r, s) => ~Before(s, r)
    /\ \A r, s \in Rows : r = s \/ Before(r, s) \/ Before(s, r)
    /\ \A r, s, t \in Rows : Before(r, s) /\ Before(s, t) => Before(r, t)
<1>1. \A r \in Rows : r.key \in Nat /\ r.id \in Nat
    BY PaginationAssumption
<1>2. \A r, s \in Rows : r.id = s.id => r = s
    BY PaginationAssumption
<1>3. \A r \in Rows : ~Before(r, r)
    BY <1>1 DEF Before
<1>4. \A r, s \in Rows : Before(r, s) => ~Before(s, r)
    BY <1>1 DEF Before
<1>5. \A r, s \in Rows : r = s \/ Before(r, s) \/ Before(s, r)
    BY <1>1, <1>2 DEF Before
<1>6. \A r, s, t \in Rows : Before(r, s) /\ Before(s, t) => Before(r, t)
    BY <1>1 DEF Before
<1> QED BY <1>3, <1>4, <1>5, <1>6

Sooner(rows, r) == {s \in rows : Before(s, r)}
Rank(rows, r)   == Cardinality(Sooner(rows, r))

LEMMA Ranks ==
    ASSUME NEW rows \in SUBSET Rows
    PROVE  /\ IsFiniteSet(rows) /\ Cardinality(rows) \in Nat
           /\ \A r \in rows : Rank(rows, r) \in 0..(Cardinality(rows) - 1)
           /\ \A r, s \in rows : Before(r, s) => Rank(rows, r) < Rank(rows, s)
<1>1. IsFiniteSet(rows) /\ Cardinality(rows) \in Nat
    BY PaginationAssumption, FS_Subset, FS_CardinalityType
<1>2. \A r \in rows : Sooner(rows, r) \in SUBSET rows /\ r \notin Sooner(rows, r)
    BY BeforeIsOrder DEF Sooner
<1>3. \A r \in rows : IsFiniteSet(Sooner(rows, r)) /\ Rank(rows, r) \in Nat
    BY <1>1, <1>2, FS_Subset, FS_CardinalityType DEF Rank
<1>4. ASSUME NEW S \in SUBSET rows, NEW T \in SUBSET S, S # T
      PROVE  Cardinality(T) < Cardinality(S)
  <2>1. IsFiniteSet(S) /\ Cardinality(S) \in Nat /\ IsFiniteSet(T) /\ Cardinality(T) \in Nat
      BY <1>1, FS_Subset, FS_CardinalityType
  <2>2. Cardinality(T) <= Cardinality(S) /\ (Cardinality(S) = Cardinality(T) => S = T)
      BY <2>1, FS_Subset
  <2> QED BY <2>1, <2>2, <1>4
<1>5. \A r \in rows : Rank(rows, r) < Cardinality(rows)
    BY <1>2, <1>4 DEF Rank
<1>6. ASSUME NEW r \in rows, NEW s \in rows, Before(r, s)
      PROVE  Rank(rows, r) < Rank(rows, s)
  <2>1. Sooner(rows, r) \in SUBSET Sooner(rows, s)
      BY <1>6, BeforeIsOrder DEF Sooner
  <2>2. r \in Sooner(rows, s) /\ r \notin Sooner(rows, r)
      BY <1>6, <1>2 DEF Sooner
  <2>3. Sooner(rows, s) # Sooner(rows, r)
      BY <2>2
  <2> QED BY <2>1, <2>3, <1>2, <1>4 DEF Rank
<1>7. \A r \in rows : Rank(rows, r) \in 0..(Cardinality(rows) - 1)
    BY <1>1, <1>3, <1>5
<1> QED BY <1>1, <1>6, <1>7

\* Every rank is somebody's.
LEMMA RanksTaken ==
    ASSUME NEW rows \in SUBSET Rows, NEW i \in 1..Cardinality(rows)
    PROVE  \E r \in rows : Rank(rows, r) = i - 1
<1> DEFINE n == Cardinality(rows)
           f == [r \in rows |-> Rank(rows, r)]
<1>1. n \in Nat /\ IsFiniteSet(rows) /\ f \in [rows -> 0..(n - 1)]
    BY Ranks
<1>2. \A r, s \in rows : f[r] = f[s] => r = s
  <2>1. \A r, s \in rows : Rank(rows, r) \in Nat /\ (Before(r, s) => Rank(rows, r) < Rank(rows, s))
      BY Ranks
  <2> QED BY <2>1, BeforeIsOrder
<1>3. f \in Injection(rows, 0..(n - 1))
  <2> HIDE DEF n, f
  <2> QED BY <1>1, <1>2 DEF Injection, IsInjective
<1>4. IsFiniteSet(0..(n - 1)) /\ Cardinality(0..(n - 1)) = n
  <2>1. 0 \in Int /\ n - 1 \in Int
      BY <1>1
  <2>2. IsFiniteSet(0..(n - 1)) /\ Cardinality(0..(n - 1)) = IF 0 > n - 1 THEN 0 ELSE (n - 1) - 0 + 1
      BY <2>1, FS_Interval
  <2> QED BY <2>2, <1>1
<1>5. f \in Surjection(rows, 0..(n - 1))
    BY <1>3, <1>4, FS_Injection
<1>6. i - 1 \in 0..(n - 1)
    BY <1>1
<1>7. \E r \in rows : f[r] = i - 1
    BY <1>5, <1>6 DEF Surjection
<1> QED BY <1>7

\* What a list in order of a set of rows is.
InOrderOf(list, rows) ==
    /\ list \in Seq(rows) /\ Len(list) = Cardinality(rows)
    /\ \A i, j \in 1..Len(list) : i < j => Before(list[i], list[j])
    /\ \A r \in rows : \E i \in 1..Len(list) : list[i] = r

LEMMA InOrderIs ==
    ASSUME NEW rows \in SUBSET Rows
    PROVE  InOrderOf(InOrder(rows), rows)
<1> DEFINE n == Cardinality(rows)
           list == InOrder(rows)
<1>1. n \in Nat /\ \A r \in rows : Rank(rows, r) \in 0..(n - 1)
    BY Ranks
<1>2. list = [i \in 1..n |-> CHOOSE r \in rows : Rank(rows, r) = i - 1]
    BY DEF InOrder, Rank, Sooner
<1>3. \A i \in 1..n : list[i] \in rows /\ Rank(rows, list[i]) = i - 1
    BY <1>2, RanksTaken
<1>4. list \in [1..n -> rows]
    BY <1>2, <1>3
<1> HIDE DEF list
<1>5. list \in Seq(rows) /\ Len(list) = n
  <2>1. n \in Nat /\ list \in [1..n -> rows]
      BY <1>1, <1>4
  <2> HIDE DEF n
  <2> QED BY <2>1
<1>6. ASSUME NEW i \in 1..n, NEW j \in 1..n, i < j
      PROVE  Before(list[i], list[j])
  <2>1. list[i] \in rows /\ list[j] \in rows /\ Rank(rows, list[i]) = i - 1
        /\ Rank(rows, list[j]) = j - 1
      BY <1>3
  <2>2. list[i] # list[j] /\ ~Before(list[j], list[i])
    <3>1. Before(list[j], list[i]) => j - 1 < i - 1
        BY <2>1, Ranks
    <3> QED BY <2>1, <3>1, <1>1, <1>6
  <2>3. list[i] \in Rows /\ list[j] \in Rows
      BY <2>1
  <2> QED BY <2>3, <2>2, BeforeIsOrder
<1>7. ASSUME NEW r \in rows
      PROVE  \E i \in 1..n : list[i] = r
  <2> DEFINE i == Rank(rows, r) + 1
  <2>1. i \in 1..n
      BY <1>1, <1>7
  <2>2. list[i] \in rows /\ Rank(rows, list[i]) = Rank(rows, r)
      BY <1>1, <1>3, <2>1
  <2>3. ~Before(list[i], r) /\ ~Before(r, list[i])
      BY <2>2, <1>1, Ranks
  <2>4. list[i] = r
    <3>1. list[i] \in Rows /\ r \in Rows
        BY <2>2
    <3> QED BY <2>3, <3>1, BeforeIsOrder
  <2> QED BY <2>1, <2>4
<1> QED BY <1>5, <1>6, <1>7 DEF InOrderOf, list

-----------------------------------------------------------------------------
\* One page.

Ordered(list) == \A i, j \in 1..Len(list) : i < j => Before(list[i], list[j])

IsCursor(c) ==
    c = NoCursor \/ \E r \in Rows, d \in Directions : c = <<[position |-> r, direction |-> d]>>

LEMMA Slice ==
    ASSUME NEW S, NEW list \in Seq(S), NEW from \in Nat \ {0}, NEW to \in Nat,
           to <= Len(list), from <= to + 1
    PROVE  LET items == SubSeq(list, from, to) IN
           /\ items \in Seq(S) /\ Len(items) = to - from + 1
           /\ \A i \in 1..(to - from + 1) : items[i] = list[from + i - 1]
<1>1. \A i \in from..to : list[i] \in S
    OBVIOUS
<1>2. from \in Int /\ to \in Int /\ to - from + 1 = IF from <= to THEN to - from + 1 ELSE 0
    OBVIOUS
<1> QED BY <1>1, <1>2, SubSeqProperties

\* The rows that are read adjoin the position: none of those beyond it is
\* left out between.
LEMMA FetchedIs ==
    ASSUME table \in SUBSET Rows, NEW cursor, IsCursor(cursor)
    PROVE  LET items == Fetched(cursor)
               rows  == Beyond(cursor) IN
           /\ rows \in SUBSET table /\ items \in Seq(rows) /\ Ordered(items)
           /\ items = <<>> <=> rows = {}
           /\ \A r \in rows : IF Backward(cursor)
                 THEN /\ r = items[Len(items)] \/ Before(r, items[Len(items)])
                      /\ Before(r, items[1]) \/ Contains(items, r)
                 ELSE /\ r = items[1] \/ Before(items[1], r)
                      /\ Before(items[Len(items)], r) \/ Contains(items, r)
<1> DEFINE rows  == Beyond(cursor)
           list  == InOrder(rows)
           items == Fetched(cursor)
           N == Len(list)
<1>1. rows \in SUBSET table /\ rows \in SUBSET Rows
    BY DEF Beyond
<1>2. InOrderOf(list, rows)
    BY <1>1, InOrderIs
<1> HIDE DEF rows, list
<1>3. /\ list \in Seq(rows) /\ N \in Nat /\ Ordered(list)
      /\ \A r \in rows : \E i \in 1..N : list[i] = r
      /\ \A i \in 1..N : list[i] \in rows
    BY <1>2 DEF InOrderOf, Ordered
<1>4. Size \in Nat \ {0}
    BY PaginationAssumption
<1>5. \A r \in rows : r \in Rows
    BY <1>1
<1> DEFINE from == IF N <= Size \/ ~Backward(cursor) THEN 1 ELSE N - Size + 1
           to   == IF N <= Size \/ Backward(cursor) THEN N ELSE Size
<1>6. items = SubSeq(list, from, to)
  <2>1. list = SubSeq(list, 1, Len(list))
      BY <1>3
  <2>2. CASE N <= Size
      BY <2>1, <2>2 DEF Fetched, rows, list
  <2>3. CASE ~(N <= Size)
      BY <2>3 DEF Fetched, rows, list
  <2> QED BY <2>2, <2>3
<1> HIDE DEF items
<1>7. /\ from \in 1..(N + 1) /\ to \in 0..N /\ from <= to + 1
      /\ N # 0 => from <= to
      /\ Backward(cursor) => to = N
      /\ ~Backward(cursor) => from = 1
    BY <1>3, <1>4, SMTT(30)
<1>8. N \in Nat
    BY <1>3
<1> HIDE DEF from, to, N
<1> DEFINE M == Len(items)
<1>9. /\ items \in Seq(rows) /\ M = to - from + 1
      /\ \A i \in 1..(to - from + 1) : items[i] = list[from + i - 1]
  <2>1. list \in Seq(rows) /\ from \in Nat \ {0} /\ to \in Nat /\ to <= Len(list) /\ from <= to + 1
      BY <1>3, <1>7, <1>8 DEF N
  <2> QED BY <2>1, <1>6, Slice
<1>10. items = <<>> <=> M = 0
    BY <1>9
<1> HIDE DEF M
<1>11. ASSUME NEW i \in 1..M, NEW j \in 1..M, i < j
       PROVE  Before(items[i], items[j])
  <2>1. from + i - 1 \in 1..N /\ from + j - 1 \in 1..N /\ from + i - 1 < from + j - 1
      BY <1>11, <1>7, <1>8, <1>9
  <2>2. items[i] = list[from + i - 1] /\ items[j] = list[from + j - 1]
      BY <1>9
  <2> QED BY <2>1, <2>2, <1>3 DEF Ordered, N
<1>12. items = <<>> <=> rows = {}
  <2>1. M = 0 <=> N = 0
      BY <1>7, <1>8, <1>9
  <2>2. N # 0 => 1 \in 1..N
      BY <1>8
  <2>3. N = 0 => 1..N = {}
      OBVIOUS
  <2> QED BY <2>1, <2>2, <2>3, <1>3, <1>10
<1>13. ASSUME NEW r \in rows
       PROVE  IF Backward(cursor)
                 THEN /\ r = items[M] \/ Before(r, items[M])
                      /\ Before(r, items[1]) \/ Contains(items, r)
                 ELSE /\ r = items[1] \/ Before(items[1], r)
                      /\ Before(items[M], r) \/ Contains(items, r)
  <2>1. PICK k \in 1..N : list[k] = r
      BY <1>3, <1>13
  <2>2. N # 0 /\ from <= to /\ M \in Nat \ {0} /\ from \in 1..N /\ to \in 1..N
      BY <2>1, <1>7, <1>8, <1>9
  <2>3. items[1] = list[from] /\ items[M] = list[to]
    <3>1. 1 \in 1..(to - from + 1) /\ M \in 1..(to - from + 1)
          /\ from + 1 - 1 = from /\ from + M - 1 = to
        BY <2>2, <1>8, <1>9
    <3> QED BY <3>1, <1>9
  <2>4. /\ k < from => Before(r, items[1])
        /\ k > from => Before(items[1], r)
        /\ k > to => Before(items[M], r)
        /\ k < to => Before(r, items[M])
    <3>1. \A i, j \in 1..N : i < j => Before(list[i], list[j])
        BY <1>3 DEF Ordered, N
    <3> QED BY <3>1, <2>1, <2>2, <2>3
  <2>5. k \in from..to => Contains(items, r)
    <3> SUFFICES ASSUME k \in from..to PROVE Contains(items, r)
        OBVIOUS
    <3> DEFINE i == k - from + 1
    <3>1. i \in 1..M /\ i \in 1..(to - from + 1) /\ from + i - 1 = k
        BY <2>2, <1>8, <1>9
    <3> HIDE DEF i
    <3>2. items[i] = r
        BY <3>1, <1>9, <2>1
    <3> QED BY <3>1, <3>2 DEF Contains, M
  <2>6. CASE Backward(cursor)
    <3>1. to = N
        BY <1>7, <2>6
    <3>2. (k = to \/ k < to) /\ (k < from \/ k \in from..to)
        BY <3>1, <2>1, <2>2, <1>8
    <3> QED BY <3>2, <2>1, <2>3, <2>4, <2>5, <2>6
  <2>7. CASE ~Backward(cursor)
    <3>1. from = 1
        BY <1>7, <2>7
    <3>2. (k = from \/ k > from) /\ (k > to \/ k \in from..to)
        BY <3>1, <2>1, <2>2, <1>8
    <3> QED BY <3>2, <2>1, <2>3, <2>4, <2>5, <2>7
  <2> QED BY <2>6, <2>7
<1>14. Ordered(items)
    BY <1>11 DEF Ordered, M
<1> QED BY <1>1, <1>9, <1>14, <1>12, <1>13 DEF items, rows, M

PageOK(p) ==
    /\ p.ok \in BOOLEAN /\ p.items \in Seq(Rows) /\ Ordered(p.items)
    /\ p.next # NoCursor => /\ p.items # <<>>
                            /\ p.next = <<[position |-> Last(p.items), direction |-> "forward"]>>
    /\ p.previous # NoCursor => /\ p.items # <<>>
                                /\ p.previous = <<[position |-> Head(p.items),
                                                  direction |-> "backward"]>>

\* A page without a cursor onwards has nothing behind it; an answer that failed
\* is no page.
LEMMA AnswerIs ==
    ASSUME table \in SUBSET Rows, NEW cursor, IsCursor(cursor), NEW failing \in SUBSET Directions
    PROVE  LET answer == Answer(cursor, failing) IN
           /\ PageOK(answer)
           /\ IF answer.ok THEN answer.items = Fetched(cursor) ELSE answer = NoPage
           /\ answer.items # <<>> /\ answer.next = NoCursor =>
                 IF Backward(cursor) THEN table = Beyond(cursor)
                 ELSE \A r \in Beyond(cursor) : Contains(answer.items, r)
<1> DEFINE items  == Fetched(cursor)
           beyond == \E r \in Beyond(cursor) : ~Contains(items, r)
           behind == table # Beyond(cursor)
           hasPrevious == IF Backward(cursor) THEN beyond ELSE behind
           hasNext     == IF Backward(cursor) THEN behind ELSE beyond
           wanted == Wanted(items, hasPrevious, hasNext)
           answer == Answer(cursor, failing)
<1>1. items \in Seq(Rows) /\ Ordered(items)
  <2>1. items \in Seq(Beyond(cursor)) /\ Beyond(cursor) \in SUBSET Rows /\ Ordered(items)
      BY FetchedIs
  <2> HIDE DEF items
  <2> QED BY <2>1
<1>2. answer = BuildPage(items, hasPrevious, hasNext, failing)
    BY DEF Answer
<1>3. /\ "forward" \in wanted <=> items # <<>> /\ hasNext
      /\ "backward" \in wanted <=> items # <<>> /\ hasPrevious
    BY DEF Wanted, Directions
<1> HIDE DEF items, hasPrevious, hasNext, wanted, answer
<1>4. CASE Abort(wanted, failing)
  <2>1. answer = NoPage
      BY <1>2, <1>4 DEF BuildPage, wanted
  <2>2. NoPage.items = <<>> /\ NoPage.next = NoCursor /\ NoPage.previous = NoCursor /\ NoPage.ok = FALSE
      BY DEF NoPage
  <2>3. <<>> \in Seq(Rows) /\ Ordered(<<>>)
      BY DEF Ordered
  <2> QED BY <2>1, <2>2, <2>3 DEF PageOK, answer
<1>5. CASE ~Abort(wanted, failing)
  <2>1. /\ answer.ok = TRUE /\ answer.items = items
        /\ answer.previous = IF "backward" \notin wanted THEN NoCursor
                             ELSE Encode(PreviousItem(items), "backward", failing)
        /\ answer.next = IF "forward" \notin wanted THEN NoCursor
                         ELSE Encode(NextItem(items), Onwards, failing)
      BY <1>2, <1>5 DEF BuildPage, wanted
  <2>2. \A d \in wanted : d \notin failing
      BY <1>5 DEF Abort
  <2>3. "forward" \in wanted =>
           answer.next = <<[position |-> Last(items), direction |-> "forward"]>>
      BY <2>1, <2>2 DEF Encode, NextItem, Onwards
  <2>4. "backward" \in wanted =>
           answer.previous = <<[position |-> Head(items), direction |-> "backward"]>>
      BY <2>1, <2>2 DEF Encode, PreviousItem
  <2>5. PageOK(answer)
      BY <1>1, <1>3, <2>1, <2>3, <2>4 DEF PageOK
  <2>6. ASSUME items # <<>>, answer.next = NoCursor
        PROVE  ~hasNext
    <3>1. <<[position |-> Last(items), direction |-> "forward"]>> # NoCursor
        BY DEF NoCursor
    <3> QED BY <2>3, <2>6, <3>1, <1>3
  <2> QED BY <2>1, <2>5, <2>6 DEF hasNext, items, answer
<1> QED BY <1>4, <1>5

-----------------------------------------------------------------------------
\* The walk.

\* Every row that was there all along and lies before the boundary was seen.
Covered == seen # <<>> => \A r \in stable : Before(Last(seen), r) \/ Contains(seen, r)

\* The page is the last that the walk has come to.
AtPage == page.items # <<>> => /\ seen # <<>> /\ Last(seen) = Last(page.items)
                               /\ Contains(seen, Head(page.items))

WalkInv ==
    /\ table \in SUBSET Rows /\ stable \in SUBSET table
    /\ PageOK(page) /\ seen \in Seq(Rows) /\ Ordered(seen)
    /\ AtPage /\ Covered /\ EndMeansComplete

LEMMA WalkInvInit == PaginationInit => WalkInv
<1> SUFFICES ASSUME PaginationInit PROVE WalkInv
    OBVIOUS
<1>1. /\ page.ok = FALSE /\ page.items = <<>> /\ page.next = NoCursor
      /\ page.previous = NoCursor
    BY DEF PaginationInit, NoPage
<1>2. <<>> \in Seq(Rows) /\ Ordered(<<>>)
    BY DEF Ordered
<1>3. seen = <<>> /\ stable = {} /\ table \in SUBSET Rows
    BY DEF PaginationInit
<1> QED BY <1>1, <1>2, <1>3 DEF WalkInv, PageOK, AtPage, Covered, EndMeansComplete

\* Rows come and go beside a page that stays.
LEMMA StayingKeeps ==
    ASSUME WalkInv, page' = page, seen' = seen,
           table' \in SUBSET Rows, stable' \in SUBSET table', stable' \in SUBSET stable
    PROVE  WalkInv'
BY DEF WalkInv, PageOK, Ordered, AtPage, Covered, EndMeansComplete

\* A list in order and one that lies behind it.
LEMMA JoinOrdered ==
    ASSUME NEW a \in Seq(Rows), NEW b \in Seq(Rows), Ordered(a), Ordered(b),
           \A i \in 1..Len(a), j \in 1..Len(b) : Before(a[i], b[j])
    PROVE  /\ a \o b \in Seq(Rows) /\ Ordered(a \o b)
           /\ \A r : Contains(a, r) \/ Contains(b, r) => Contains(a \o b, r)
           /\ b # <<>> => a \o b # <<>> /\ Last(a \o b) = Last(b)
<1> DEFINE m == Len(a)
           n == Len(b)
           c == a \o b
<1>1. /\ m \in Nat /\ n \in Nat /\ c \in Seq(Rows) /\ Len(c) = m + n
      /\ \A i \in 1..m : c[i] = a[i]
      /\ \A i \in (m + 1)..(m + n) : c[i] = b[i - m]
      /\ b # <<>> => n # 0 /\ c # <<>>
    OBVIOUS
<1> HIDE DEF m, n, c
<1>2. ASSUME NEW i \in 1..(m + n), NEW j \in 1..(m + n), i < j
      PROVE  Before(c[i], c[j])
  <2>1. CASE j <= m
    <3>1. i \in 1..m /\ j \in 1..m
        BY <1>1, <1>2, <2>1
    <3> QED BY <3>1, <1>1, <1>2 DEF Ordered, m
  <2>2. CASE i <= m /\ ~(j <= m)
    <3>1. i \in 1..m /\ j \in (m + 1)..(m + n) /\ j - m \in 1..n
        BY <1>1, <1>2, <2>2
    <3> QED BY <3>1, <1>1 DEF m, n
  <2>3. CASE ~(i <= m)
    <3>1. i \in (m + 1)..(m + n) /\ j \in (m + 1)..(m + n)
          /\ i - m \in 1..n /\ j - m \in 1..n /\ i - m < j - m
        BY <1>1, <1>2, <2>3
    <3> QED BY <3>1, <1>1 DEF Ordered, n
  <2> QED BY <2>1, <2>2, <2>3
<1>3. ASSUME NEW r, Contains(a, r) \/ Contains(b, r)
      PROVE  Contains(c, r)
  <2>1. CASE Contains(a, r)
    <3>1. PICK i \in 1..m : a[i] = r
        BY <2>1 DEF Contains, m
    <3>2. i \in 1..(m + n) /\ c[i] = r
        BY <3>1, <1>1
    <3> QED BY <3>2, <1>1 DEF Contains
  <2>2. CASE Contains(b, r)
    <3>1. PICK j \in 1..n : b[j] = r
        BY <2>2 DEF Contains, n
    <3>2. m + j \in 1..(m + n) /\ m + j \in (m + 1)..(m + n) /\ (m + j) - m = j
        BY <3>1, <1>1
    <3>3. c[m + j] = r
        BY <3>1, <3>2, <1>1
    <3> QED BY <3>2, <3>3, <1>1 DEF Contains
  <2> QED BY <1>3, <2>1, <2>2
<1>4. ASSUME b # <<>>
      PROVE  Last(c) = Last(b)
  <2>1. m + n \in (m + 1)..(m + n) /\ (m + n) - m = n
      BY <1>1, <1>4
  <2>2. c[m + n] = b[n]
      BY <1>1, <2>1
  <2> QED BY <2>2, <1>1 DEF Last, n
<1>5. Ordered(c)
    BY <1>1, <1>2 DEF Ordered
<1> QED BY <1>1, <1>3, <1>4, <1>5 DEF c

\* The ends of a list in order are its least and its greatest.
LEMMA Ends ==
    ASSUME NEW a \in Seq(Rows), Ordered(a), a # <<>>
    PROVE  /\ Head(a) = a[1] /\ Last(a) = a[Len(a)] /\ Head(a) \in Rows /\ Last(a) \in Rows
           /\ Contains(a, Head(a)) /\ Contains(a, Last(a))
           /\ \A i \in 1..Len(a) : /\ a[i] \in Rows
                                   /\ a[i] = Head(a) \/ Before(Head(a), a[i])
                                   /\ a[i] = Last(a) \/ Before(a[i], Last(a))
<1> DEFINE n == Len(a)
<1>1. n \in Nat \ {0} /\ Head(a) = a[1] /\ \A i \in 1..n : a[i] \in Rows
    OBVIOUS
<1> HIDE DEF n
<1>2. 1 \in 1..n /\ n \in 1..n
    BY <1>1
<1>3. \A i \in 1..n : (i = 1 \/ 1 < i) /\ (i = n \/ i < n)
    BY <1>1
<1>4. \A i, j \in 1..n : i < j => Before(a[i], a[j])
    BY DEF Ordered, n
<1>5. \A i \in 1..n : (a[i] = a[1] \/ Before(a[1], a[i])) /\ (a[i] = a[n] \/ Before(a[i], a[n]))
    BY <1>2, <1>3, <1>4
<1> QED BY <1>1, <1>2, <1>5 DEF Last, Contains, n

LEMMA OpenKeeps ==
    ASSUME WalkInv, NEW failing \in SUBSET Directions, Open(failing)
    PROVE  WalkInv'
<1> DEFINE answer == Answer(NoCursor, failing)
           items  == answer.items
<1>1. /\ answer.ok /\ page' = answer /\ seen' = items /\ stable' = table /\ table' = table
      /\ table \in SUBSET Rows
    BY DEF Open, WalkInv
<1>2. IsCursor(NoCursor) /\ ~Backward(NoCursor) /\ Beyond(NoCursor) = table
    BY DEF IsCursor, Backward, Beyond
<1>3. /\ PageOK(answer) /\ items = Fetched(NoCursor)
      /\ items # <<>> /\ answer.next = NoCursor => \A r \in table : Contains(items, r)
    BY <1>1, <1>2, AnswerIs
<1>4. \A r \in table : Before(items[Len(items)], r) \/ Contains(items, r)
    BY <1>1, <1>2, <1>3, FetchedIs
<1> HIDE DEF answer
<1>5. items \in Seq(Rows) /\ Ordered(items)
    BY <1>3 DEF PageOK
<1>6. items # <<>> => Contains(items, Head(items))
    BY <1>5, Ends
<1>7. AtPage'
    BY <1>1, <1>6 DEF AtPage
<1>8. Covered'
    BY <1>1, <1>4 DEF Covered, Last
<1>9. EndMeansComplete'
    BY <1>1, <1>3 DEF EndMeansComplete
<1>10. PageOK(page)'
    BY <1>1, <1>3 DEF PageOK, Ordered
<1>11. Ordered(seen)'
    BY <1>1, <1>5 DEF Ordered
<1> QED BY <1>1, <1>5, <1>7, <1>8, <1>9, <1>10, <1>11 DEF WalkInv

\* A cursor of the page, and what it was read for.
LEMMA CursorIs ==
    ASSUME WalkInv
    PROVE  /\ page.next # NoCursor =>
                 /\ page.items # <<>> /\ page.items \in Seq(Rows) /\ Ordered(page.items)
                 /\ IsCursor(page.next) /\ ~Backward(page.next)
                 /\ Beyond(page.next) = {r \in table : Before(Last(page.items), r)}
           /\ page.previous # NoCursor =>
                 /\ page.items # <<>> /\ page.items \in Seq(Rows) /\ Ordered(page.items)
                 /\ IsCursor(page.previous) /\ Backward(page.previous)
                 /\ Beyond(page.previous) = {r \in table : Before(r, Head(page.items))}
<1>1. PageOK(page)
    BY DEF WalkInv
<1>2. page.items # <<>> => Last(page.items) \in Rows /\ Head(page.items) \in Rows
    BY <1>1, Ends DEF PageOK
<1>3. ASSUME page.next # NoCursor
      PROVE  /\ page.items # <<>> /\ page.items \in Seq(Rows) /\ Ordered(page.items)
             /\ IsCursor(page.next) /\ ~Backward(page.next)
             /\ Beyond(page.next) = {r \in table : Before(Last(page.items), r)}
  <2> DEFINE c == [position |-> Last(page.items), direction |-> "forward"]
  <2>1. page.items # <<>> /\ page.next = <<c>> /\ page.items \in Seq(Rows) /\ Ordered(page.items)
      BY <1>1, <1>3 DEF PageOK
  <2>2. page.next[1] = c /\ c.direction = "forward" /\ c.position = Last(page.items)
      BY <2>1
  <2>3. IsCursor(page.next)
      BY <2>1, <1>2 DEF IsCursor, Directions
  <2> HIDE DEF c
  <2> QED BY <1>3, <2>1, <2>2, <2>3 DEF Backward, Beyond
<1>4. ASSUME page.previous # NoCursor
      PROVE  /\ page.items # <<>> /\ page.items \in Seq(Rows) /\ Ordered(page.items)
             /\ IsCursor(page.previous) /\ Backward(page.previous)
             /\ Beyond(page.previous) = {r \in table : Before(r, Head(page.items))}
  <2> DEFINE c == [position |-> Head(page.items), direction |-> "backward"]
  <2>1. page.items # <<>> /\ page.previous = <<c>> /\ page.items \in Seq(Rows) /\ Ordered(page.items)
      BY <1>1, <1>4 DEF PageOK
  <2>2. page.previous[1] = c /\ c.direction = "backward" /\ c.position = Head(page.items)
      BY <2>1
  <2>3. IsCursor(page.previous)
      BY <2>1, <1>2 DEF IsCursor, Directions
  <2> HIDE DEF c
  <2> QED BY <1>4, <2>1, <2>2, <2>3 DEF Backward, Beyond
<1> QED BY <1>3, <1>4

\* The page onwards: it adjoins the one before, and leaves nothing out.
LEMMA NextPage ==
    ASSUME WalkInv, NEW failing \in SUBSET Directions, FollowNext(failing), page' # page,
           page'.items # <<>>
    PROVE  LET items == page'.items IN
           /\ PageOK(page') /\ seen' = seen \o items /\ table' = table /\ stable' = stable
           /\ \A i \in 1..Len(items) : items[i] \in table /\ Before(Last(page.items), items[i])
           /\ \A r \in table : Before(Last(page.items), r) =>
                 /\ r = Head(items) \/ Before(Head(items), r)
                 /\ Before(Last(items), r) \/ Contains(items, r)
                 /\ page'.next = NoCursor => Contains(items, r)
<1> DEFINE answer == Answer(page.next, failing)
           items  == page'.items
           rows   == Beyond(page.next)
<1>1. /\ page.next # NoCursor /\ answer.ok /\ page' = answer /\ table' = table
      /\ stable' = stable /\ seen' = seen \o items /\ table \in SUBSET Rows
    BY DEF FollowNext, Follow, WalkInv
<1>2. /\ IsCursor(page.next) /\ ~Backward(page.next)
      /\ rows = {r \in table : Before(Last(page.items), r)}
    BY <1>1, CursorIs
<1>3. /\ PageOK(answer) /\ items = Fetched(page.next)
      /\ answer.next = NoCursor => \A r \in rows : Contains(items, r)
    BY <1>1, <1>2, AnswerIs
<1>4. /\ items \in Seq(rows)
      /\ \A r \in rows : /\ r = items[1] \/ Before(items[1], r)
                         /\ Before(items[Len(items)], r) \/ Contains(items, r)
    BY <1>1, <1>2, <1>3, FetchedIs
<1>5. PageOK(page')
    BY <1>1, <1>3
<1>6. items \in Seq(Rows) /\ Head(items) = items[1]
    BY <1>5, Ends DEF PageOK
<1> HIDE DEF answer, items, rows
<1>7. \A i \in 1..Len(items) : items[i] \in rows
    BY <1>4
<1> QED BY <1>1, <1>2, <1>3, <1>4, <1>5, <1>6, <1>7 DEF Last, items

LEMMA FollowNextKeeps ==
    ASSUME WalkInv, NEW failing \in SUBSET Directions, FollowNext(failing)
    PROVE  WalkInv'
<1> DEFINE items == page'.items
<1>0. WalkInv
    OBVIOUS
<1>1. table' = table /\ stable' = stable /\ table \in SUBSET Rows /\ stable \in SUBSET table
    BY DEF FollowNext, Follow, WalkInv
<1>2. CASE page' = page
  <2>1. seen' = seen
      BY <1>2 DEF FollowNext
  <2> QED BY <1>1, <1>2, <2>1, StayingKeeps
<1>3. CASE page' # page /\ items = <<>>
  <2>1. page' = Answer(page.next, failing) /\ page.next # NoCursor /\ seen' = seen \o items
      BY <1>3 DEF FollowNext, Follow
  <2>2. PageOK(page')
      BY <2>1, <1>1, CursorIs, AnswerIs
  <2>3. seen' = seen
      BY <2>1, <1>3 DEF WalkInv
  <2>4. PageOK(page)'
      BY <2>2 DEF PageOK, Ordered
  <2> QED BY <1>1, <1>3, <2>3, <2>4 DEF WalkInv, Ordered, AtPage, Covered, EndMeansComplete
<1>4. CASE page' # page /\ items # <<>>
  <2>1. /\ PageOK(page') /\ seen' = seen \o items
        /\ \A i \in 1..Len(items) : items[i] \in table /\ Before(Last(page.items), items[i])
        /\ \A r \in table : Before(Last(page.items), r) =>
              /\ Before(Last(items), r) \/ Contains(items, r)
              /\ page'.next = NoCursor => Contains(items, r)
      BY <1>4, NextPage
  <2>2. page.items # <<>> /\ page.items \in Seq(Rows) /\ seen # <<>>
        /\ Last(seen) = Last(page.items) /\ seen \in Seq(Rows) /\ Ordered(seen)
      BY <1>4, CursorIs DEF FollowNext, Follow, WalkInv, AtPage
  <2>3. items \in Seq(Rows) /\ Ordered(items)
      BY <2>1 DEF PageOK
  <2> DEFINE walk == seen \o items
  <2> HIDE DEF items
  <2>4. \A i \in 1..Len(seen), j \in 1..Len(items) : Before(seen[i], items[j])
    <3>1. \A i \in 1..Len(seen) : seen[i] \in Rows /\ (seen[i] = Last(seen) \/ Before(seen[i], Last(seen)))
          /\ Last(seen) \in Rows
        BY <2>2, Ends
    <3>2. \A j \in 1..Len(items) : items[j] \in Rows /\ Before(Last(seen), items[j])
        BY <2>1, <2>2, <1>1
    <3> QED BY <3>1, <3>2, BeforeIsOrder
  <2>5. /\ walk \in Seq(Rows) /\ Ordered(walk)
        /\ \A r : Contains(seen, r) \/ Contains(items, r) => Contains(walk, r)
        /\ walk # <<>> /\ Last(walk) = Last(items)
    <3>1. items # <<>>
        BY <1>4 DEF items
    <3> QED BY <2>2, <2>3, <2>4, <3>1, JoinOrdered
  <2>6. Contains(items, Head(items))
    <3>1. items # <<>>
        BY <1>4 DEF items
    <3> QED BY <2>3, <3>1, Ends
  <2> HIDE DEF walk
  <2>7. seen' = walk
      BY <2>1 DEF walk
  <2>8. AtPage'
      BY <2>5, <2>6, <2>7 DEF AtPage, items
  <2>9. ASSUME NEW r \in stable
        PROVE  /\ Before(Last(walk), r) \/ Contains(walk, r)
               /\ page'.next = NoCursor => Contains(walk, r)
    <3>1. Before(Last(page.items), r) \/ Contains(seen, r)
        BY <2>2, <2>9 DEF WalkInv, Covered
    <3> QED BY <3>1, <2>1, <2>5, <1>1
  <2>10. Covered'
      BY <2>7, <2>9, <1>1 DEF Covered
  <2>11. EndMeansComplete'
      BY <2>7, <2>9, <1>1 DEF EndMeansComplete
  <2>12. PageOK(page)'
      BY <2>1 DEF PageOK, Ordered
  <2>13. Ordered(seen)'
      BY <2>5, <2>7 DEF Ordered
  <2> QED BY <1>1, <2>5, <2>7, <2>8, <2>10, <2>11, <2>12, <2>13 DEF WalkInv
<1> QED BY <1>2, <1>3, <1>4

\* The page back: it adjoins the one before from the other side.
LEMMA PreviousPage ==
    ASSUME WalkInv, NEW failing \in SUBSET Directions, FollowPrevious(failing), page' # page,
           page'.items # <<>>
    PROVE  LET items == page'.items IN
           /\ PageOK(page') /\ table' = table /\ stable' = stable
           /\ page.items # <<>> /\ page.items \in Seq(Rows) /\ Ordered(page.items)
           /\ seen' = Only(seen, LAMBDA r : Before(r, Head(items))) \o items
           /\ \A i \in 1..Len(items) : items[i] \in table /\ Before(items[i], Head(page.items))
           /\ \A r \in table : Before(r, Head(page.items)) =>
                 /\ r = Last(items) \/ Before(r, Last(items))
                 /\ Before(r, Head(items)) \/ Contains(items, r)
           /\ page'.next = NoCursor => \A r \in table : Before(r, Head(page.items))
<1> DEFINE answer == Answer(page.previous, failing)
           items  == page'.items
           rows   == Beyond(page.previous)
<1>1. /\ page.previous # NoCursor /\ answer.ok /\ page' = answer /\ table' = table
      /\ stable' = stable /\ table \in SUBSET Rows
      /\ seen' = Only(seen, LAMBDA r : Before(r, Head(items))) \o items
    BY DEF FollowPrevious, Follow, WalkInv
<1>2. /\ IsCursor(page.previous) /\ Backward(page.previous)
      /\ page.items # <<>> /\ page.items \in Seq(Rows) /\ Ordered(page.items)
      /\ rows = {r \in table : Before(r, Head(page.items))}
    BY <1>1, CursorIs
<1>3. /\ PageOK(answer) /\ items = Fetched(page.previous)
      /\ answer.next = NoCursor => table = rows
    BY <1>1, <1>2, AnswerIs
<1>4. /\ items \in Seq(rows)
      /\ \A r \in rows : /\ r = items[Len(items)] \/ Before(r, items[Len(items)])
                         /\ Before(r, items[1]) \/ Contains(items, r)
    BY <1>1, <1>2, <1>3, FetchedIs
<1>5. PageOK(page')
    BY <1>1, <1>3
<1>6. items \in Seq(Rows) /\ Head(items) = items[1]
    BY <1>5, Ends DEF PageOK
<1> HIDE DEF answer, items, rows
<1>7. \A i \in 1..Len(items) : items[i] \in rows
    BY <1>4
<1> QED BY <1>1, <1>2, <1>3, <1>4, <1>5, <1>6, <1>7 DEF Last, items

\* The rows of the walk that lie before a row, in their order.
LEMMA KeptIs ==
    ASSUME NEW list \in Seq(Rows), Ordered(list), NEW h \in Rows
    PROVE  LET kept == Only(list, LAMBDA r : Before(r, h)) IN
           /\ kept \in Seq(Rows) /\ Ordered(kept)
           /\ \A i \in 1..Len(kept) : Before(kept[i], h)
           /\ \A r : Contains(list, r) /\ Before(r, h) => Contains(kept, r)
<1> DEFINE S == {list[i] : i \in {j \in DOMAIN list : Before(list[j], h)}}
           kept == Picked(list, S)
           n == Len(list)
<1>1. Only(list, LAMBDA r : Before(r, h)) = kept
    BY DEF Only
<1>2. PickedUpto(kept, list, S, Rows, n)
    BY PickedIs
<1>3. Follows(kept, list, n)
    BY PickedInOrder
<1> DEFINE m == Len(kept)
<1>4. DOMAIN list = 1..n /\ n \in Nat
    OBVIOUS
<1>5. \A x \in S : Before(x, h)
    OBVIOUS
<1>6. \A i \in 1..n : Before(list[i], h) => list[i] \in S
    BY <1>4
<1> HIDE DEF kept, S
<1>7. kept \in Seq(Rows) /\ DOMAIN kept = 1..m /\ m \in Nat
    BY <1>2 DEF PickedUpto
<1>8. \A i \in 1..m : Before(kept[i], h)
    BY <1>2, <1>5, <1>7 DEF PickedUpto
<1>9. ASSUME NEW r, Contains(list, r), Before(r, h)
      PROVE  Contains(kept, r)
  <2>1. PICK i \in 1..n : list[i] = r
      BY <1>9 DEF Contains
  <2>2. \E j \in 1..m : kept[j] = r
      BY <1>2, <1>6, <1>7, <1>9, <2>1 DEF PickedUpto
  <2> QED BY <2>2 DEF Contains
<1>10. Ordered(kept)
  <2>1. PICK at \in [1..m -> 1..n] : /\ \A i, j \in 1..m : i < j => at[i] < at[j]
                                     /\ \A i \in 1..m : kept[i] = list[at[i]]
      BY <1>3, <1>7 DEF Follows
  <2>2. \A i, j \in 1..n : i < j => Before(list[i], list[j])
      BY DEF Ordered
  <2>3. \A i, j \in 1..m : i < j => Before(kept[i], kept[j])
    <3> HIDE DEF m, n
    <3> QED BY <2>1, <2>2
  <2> QED BY <2>3 DEF Ordered
<1> QED BY <1>1, <1>7, <1>8, <1>9, <1>10

LEMMA FollowPreviousKeeps ==
    ASSUME WalkInv, NEW failing \in SUBSET Directions, FollowPrevious(failing)
    PROVE  WalkInv'
<1> DEFINE items == page'.items
<1>0. WalkInv
    OBVIOUS
<1>1. table' = table /\ stable' = stable /\ table \in SUBSET Rows /\ stable \in SUBSET table
    BY DEF FollowPrevious, Follow, WalkInv
<1>2. CASE page' = page
  <2>1. seen' = seen
      BY <1>2 DEF FollowPrevious
  <2> QED BY <1>1, <1>2, <2>1, StayingKeeps
<1>3. CASE page' # page /\ items = <<>>
  <2>1. page' = Answer(page.previous, failing) /\ page.previous # NoCursor /\ seen' = seen
      BY <1>3 DEF FollowPrevious, Follow
  <2>2. PageOK(page')
      BY <2>1, <1>1, CursorIs, AnswerIs
  <2>4. PageOK(page)'
      BY <2>2 DEF PageOK, Ordered
  <2> QED BY <1>1, <1>3, <2>1, <2>4 DEF WalkInv, Ordered, AtPage, Covered, EndMeansComplete
<1>4. CASE page' # page /\ items # <<>>
  <2> DEFINE h    == Head(items)
             kept == Only(seen, LAMBDA r : Before(r, h))
             walk == kept \o items
             p    == Head(page.items)
  <2>1. /\ PageOK(page') /\ seen' = walk
        /\ \A i \in 1..Len(items) : items[i] \in table /\ Before(items[i], p)
        /\ \A r \in table : Before(r, p) =>
              /\ r = Last(items) \/ Before(r, Last(items))
              /\ Before(r, h) \/ Contains(items, r)
        /\ page'.next = NoCursor => \A r \in table : Before(r, p)
        /\ page.items # <<>> /\ page.items \in Seq(Rows) /\ Ordered(page.items)
      BY <1>4, PreviousPage
  <2>2. /\ seen # <<>> /\ seen \in Seq(Rows) /\ Ordered(seen) /\ Contains(seen, p)
        /\ \A r \in stable : Before(Last(seen), r) \/ Contains(seen, r)
      BY <2>1 DEF WalkInv, AtPage, Covered
  <2>3. items \in Seq(Rows) /\ Ordered(items) /\ items # <<>>
      BY <1>4, <2>1 DEF PageOK
  <2> HIDE DEF items, p
  <2>4. /\ h \in Rows /\ Last(items) \in Rows /\ Contains(items, h)
        /\ \A i \in 1..Len(items) : items[i] = h \/ Before(h, items[i])
        /\ \A i \in 1..Len(items) : items[i] \in Rows
    <3> HIDE DEF kept, walk
    <3>1. /\ Head(items) \in Rows /\ Last(items) \in Rows /\ Contains(items, Head(items))
          /\ \A i \in 1..Len(items) : /\ items[i] \in Rows
                                      /\ items[i] = Head(items) \/ Before(Head(items), items[i])
        BY <2>3, Ends
    <3> QED BY <3>1
  <2>5. Before(Last(items), p)
    <3>1. Len(items) \in 1..Len(items)
        BY <2>3
    <3> QED BY <3>1, <2>1 DEF Last
  <2>6. p \in Rows /\ Last(seen) \in Rows /\ (p = Last(seen) \/ Before(p, Last(seen)))
    <3>1. PICK i \in 1..Len(seen) : seen[i] = p
        BY <2>2 DEF Contains
    <3> QED BY <2>2, <3>1, Ends
  <2> HIDE DEF h
  <2>7. /\ kept \in Seq(Rows) /\ Ordered(kept)
        /\ \A i \in 1..Len(kept) : Before(kept[i], h)
        /\ \A r : Contains(seen, r) /\ Before(r, h) => Contains(kept, r)
      BY <2>2, <2>4, KeptIs
  <2> HIDE DEF kept
  <2>8. \A i \in 1..Len(kept), j \in 1..Len(items) : Before(kept[i], items[j])
    <3>1. \A i \in 1..Len(kept) : kept[i] \in Rows /\ Before(kept[i], h)
        BY <2>7
    <3> QED BY <3>1, <2>4, BeforeIsOrder
  <2>9. /\ walk \in Seq(Rows) /\ Ordered(walk)
        /\ \A r : Contains(kept, r) \/ Contains(items, r) => Contains(walk, r)
        /\ walk # <<>> /\ Last(walk) = Last(items)
      BY <2>3, <2>7, <2>8, JoinOrdered
  <2> HIDE DEF walk
  <2>10. ASSUME NEW r \in stable, ~Before(Last(items), r)
         PROVE  Contains(walk, r)
    <3>1. r \in Rows /\ r \in table
        BY <1>1, <2>10
    <3>2. Before(r, p)
        BY <3>1, <2>4, <2>5, <2>6, <2>10, BeforeIsOrder
    <3>3. ~Before(Last(seen), r)
        BY <3>1, <3>2, <2>6, BeforeIsOrder
    <3>4. Contains(seen, r) /\ (Before(r, h) \/ Contains(items, r))
        BY <3>1, <3>2, <3>3, <2>1, <2>2
    <3> QED BY <3>4, <2>7, <2>9
  <2>11. ASSUME page'.next = NoCursor, NEW r \in stable
         PROVE  ~Before(Last(items), r)
    <3>1. r \in Rows /\ r \in table
        BY <1>1, <2>11
    <3>2. r = Last(items) \/ Before(r, Last(items))
        BY <3>1, <2>1, <2>11
    <3> QED BY <3>1, <3>2, <2>4, BeforeIsOrder
  <2>12. AtPage'
      BY <2>1, <2>4, <2>9 DEF AtPage, items, h
  <2>13. Covered'
      BY <2>1, <2>9, <2>10, <1>1 DEF Covered
  <2>14. EndMeansComplete'
      BY <2>1, <2>10, <2>11, <1>1 DEF EndMeansComplete
  <2>15. PageOK(page)'
      BY <2>1 DEF PageOK, Ordered
  <2>16. Ordered(seen)'
      BY <2>1, <2>9 DEF Ordered
  <2> QED BY <1>1, <2>1, <2>9, <2>12, <2>13, <2>14, <2>15, <2>16 DEF WalkInv
<1> QED BY <1>2, <1>3, <1>4

LEMMA WalkInvStep == WalkInv /\ [PaginationNext]_pvars => WalkInv'
<1> SUFFICES ASSUME WalkInv, [PaginationNext]_pvars PROVE WalkInv'
    OBVIOUS
<1>1. table \in SUBSET Rows /\ stable \in SUBSET table
    BY DEF WalkInv
<1>2. ASSUME NEW failing \in SUBSET Directions,
             Open(failing) \/ FollowNext(failing) \/ FollowPrevious(failing)
      PROVE  WalkInv'
    BY <1>2, OpenKeeps, FollowNextKeeps, FollowPreviousKeeps
<1>3. CASE Resolve
    BY <1>1, <1>3, StayingKeeps DEF Resolve
<1>4. ASSUME NEW r \in Rows, Insert(r) \/ Delete(r)
      PROVE  WalkInv'
  <2>1. /\ page' = page /\ seen' = seen /\ table' \in SUBSET Rows
        /\ stable' \in SUBSET table' /\ stable' \in SUBSET stable
      BY <1>1, <1>4 DEF Insert, Delete
  <2> QED BY <2>1, StayingKeeps
<1>5. CASE UNCHANGED pvars
    BY <1>1, <1>5, StayingKeeps DEF pvars
<1> QED BY <1>2, <1>3, <1>4, <1>5 DEF PaginationNext

\* A client's walk over a listing that changes under it keeps WalkInv.
THEOREM WalkInvariant == PaginationSpec => []WalkInv
<1> QED BY WalkInvInit, WalkInvStep, PTL DEF PaginationSpec

\* However a client turns back and forth and whatever is inserted or deleted
\* meanwhile, no row comes twice or out of order, and none that was there all
\* along is passed over (page.go:44-55).
THEOREM NothingSkippedNothingTwice == PaginationSpec => []NoneSkippedNoneTwice
<1>1. WalkInv => NoneSkippedNoneTwice
  <2> SUFFICES ASSUME WalkInv PROVE NoneSkippedNoneTwice
      OBVIOUS
  <2>1. seen \in Seq(Rows) /\ Ordered(seen) /\ Covered
      BY DEF WalkInv
  <2>2. Ascending(seen)
    <3> SUFFICES ASSUME NEW i \in 2..Len(seen) PROVE Before(seen[i - 1], seen[i])
        BY DEF Ascending
    <3>1. i \in 1..Len(seen) /\ i - 1 \in 1..Len(seen) /\ i - 1 < i
        BY <2>1
    <3> QED BY <3>1, <2>1 DEF Ordered
  <2> QED BY <2>1, <2>2 DEF NoneSkippedNoneTwice, Covered
<1> QED BY <1>1, WalkInvariant, PTL

\* A page with items and no cursor onwards is the end of everything that was
\* there all along; a failed encoder never looks like it (page.go:46-54).
THEOREM EndIsTheEnd == PaginationSpec => []EndMeansComplete
<1>1. WalkInv => EndMeansComplete
    BY DEF WalkInv
<1> QED BY <1>1, WalkInvariant, PTL

\* No row lies between a page and the one it was reached from, and none is in
\* both, in either direction (page.go:44-55).
THEOREM PagesTouch == PaginationSpec => PagesAdjoin
<1> DEFINE Adjoin == \A failing \in SUBSET Directions : page' # page /\ page'.items # <<>> =>
        /\ FollowNext(failing) =>
             /\ Before(Last(page.items), Head(page'.items))
             /\ ~\E r \in table : /\ Before(Last(page.items), r)
                                  /\ Before(r, Head(page'.items))
        /\ FollowPrevious(failing) =>
             /\ Before(Last(page'.items), Head(page.items))
             /\ ~\E r \in table : /\ Before(Last(page'.items), r)
                                  /\ Before(r, Head(page.items))
<1>1. WalkInv => Adjoin
  <2> SUFFICES ASSUME WalkInv, NEW failing \in SUBSET Directions, page' # page, page'.items # <<>>
               PROVE  /\ FollowNext(failing) =>
                            /\ Before(Last(page.items), Head(page'.items))
                            /\ ~\E r \in table : /\ Before(Last(page.items), r)
                                                 /\ Before(r, Head(page'.items))
                      /\ FollowPrevious(failing) =>
                            /\ Before(Last(page'.items), Head(page.items))
                            /\ ~\E r \in table : /\ Before(Last(page'.items), r)
                                                 /\ Before(r, Head(page.items))
      OBVIOUS
  <2> DEFINE items == page'.items
  <2>1. table \in SUBSET Rows
      BY DEF WalkInv
  <2>2. ASSUME FollowNext(failing)
        PROVE  /\ Before(Last(page.items), Head(items))
               /\ ~\E r \in table : Before(Last(page.items), r) /\ Before(r, Head(items))
    <3>1. /\ PageOK(page')
          /\ \A i \in 1..Len(items) : items[i] \in table /\ Before(Last(page.items), items[i])
          /\ \A r \in table : Before(Last(page.items), r) =>
                 r = Head(items) \/ Before(Head(items), r)
        BY <2>2, NextPage
    <3>2. Head(items) = items[1] /\ 1 \in 1..Len(items) /\ Head(items) \in Rows
        BY <3>1, Ends DEF PageOK
    <3> QED BY <2>1, <3>1, <3>2, BeforeIsOrder
  <2>3. ASSUME FollowPrevious(failing)
        PROVE  /\ Before(Last(items), Head(page.items))
               /\ ~\E r \in table : Before(Last(items), r) /\ Before(r, Head(page.items))
    <3>1. /\ PageOK(page')
          /\ \A i \in 1..Len(items) : items[i] \in table /\ Before(items[i], Head(page.items))
          /\ \A r \in table : Before(r, Head(page.items)) =>
                 r = Last(items) \/ Before(r, Last(items))
        BY <2>3, PreviousPage
    <3>2. Last(items) = items[Len(items)] /\ Len(items) \in 1..Len(items) /\ Last(items) \in Rows
        BY <3>1, Ends DEF PageOK
    <3> QED BY <2>1, <3>1, <3>2, BeforeIsOrder
  <2> QED BY <2>2, <2>3
<1>2. WalkInv => [Adjoin]_pvars
    BY <1>1
<1> QED BY <1>2, WalkInvariant, PTL DEF PagesAdjoin
=============================================================================
