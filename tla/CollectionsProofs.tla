------------------------- MODULE CollectionsProofs -------------------------
(***************************************************************************)
(* What the recursive helpers of the model compute.  Each of them is a     *)
(* recursive function; that it exists, and what it returns, is shown by    *)
(* taking the least natural number for which the claim fails.              *)
(***************************************************************************)
EXTENDS Collections, Integers, FiniteSetTheorems, WellFoundedInduction, TLAPS

\* A set of natural numbers that is not empty has a least element.
LEMMA LeastNatural ==
    ASSUME NEW T \in SUBSET Nat, T # {}
    PROVE  \E m \in T : \A k \in T : m <= k
<1>1. IsWellFoundedOn(OpToRel(<, Nat), Nat)
    BY NatLessThanWellFounded
<1>2. PICK m \in T : \A k \in T : ~(<<k, m>> \in OpToRel(<, Nat))
    BY <1>1, WFMin
<1>3. \A k \in T : ~(k < m)
    BY <1>2 DEF OpToRel
<1> QED BY <1>3

\* What holds at m, and at k + 1 when it holds at k, holds from m to n.
LEMMA Climb ==
    ASSUME NEW m \in Nat, NEW n \in Nat, NEW G,
           m <= n => m \in G,
           \A k \in m..(n - 1) : k \in G => k + 1 \in G
    PROVE  m..n \subseteq G
<1> DEFINE Missed == {k \in m..n : k \notin G}
<1>1. SUFFICES ASSUME Missed # {} PROVE FALSE
    OBVIOUS
<1>2. Missed \in SUBSET Nat
    OBVIOUS
<1> HIDE DEF Missed
<1>3. PICK k \in Missed : \A i \in Missed : k <= i
    BY <1>1, <1>2, LeastNatural
<1>4. k \in m..n /\ k \notin G /\ (\A i \in m..n : i \notin G => k <= i)
    BY <1>3 DEF Missed
<1>5. k # m /\ k - 1 \in m..(n - 1) /\ (k - 1) + 1 = k
    BY <1>4
<1>6. k - 1 \in G
    BY <1>4, <1>5
<1> QED BY <1>4, <1>5, <1>6

-----------------------------------------------------------------------------
\* The first few of two lists are lost only if there is no room, and are none
\* only if both lists are empty.
LEMMA FirstFew ==
    ASSUME NEW A, NEW old \in Seq(A), NEW new \in Seq(A), NEW limit \in Nat \ {0},
           NEW kept,
           kept = SubSeq(old \o new, 1,
                         IF Len(old \o new) < limit THEN Len(old \o new) ELSE limit)
    PROVE  /\ kept \in Seq(A) /\ Len(kept) <= limit
           /\ kept = <<>> <=> old = <<>> /\ new = <<>>
<1> DEFINE all == old \o new
           n == IF Len(all) < limit THEN Len(all) ELSE limit
<1>1. /\ all \in Seq(A) /\ Len(all) \in Nat
      /\ all = <<>> <=> old = <<>> /\ new = <<>>
    OBVIOUS
<1>2. n \in Nat /\ n <= Len(all) /\ n <= limit /\ (n = 0 <=> Len(all) = 0)
    BY <1>1
<1>3. kept = SubSeq(all, 1, n)
    OBVIOUS
<1> HIDE DEF all, n
<1>4. /\ SubSeq(all, 1, n) \in Seq(A) /\ Len(SubSeq(all, 1, n)) = n
    BY <1>1, <1>2
<1>5. SubSeq(all, 1, n) = <<>> <=> n = 0
    BY <1>2, <1>4
<1>6. all = <<>> <=> Len(all) = 0
    BY <1>1
<1> QED BY <1>1, <1>2, <1>3, <1>4, <1>5, <1>6

\* The first of a list, and the rest.
LEMMA HeadAndTail ==
    ASSUME NEW S, NEW s \in Seq(S), s # <<>>
    PROVE  /\ Head(s) \in S /\ Tail(s) \in Seq(S)
           /\ \A i \in DOMAIN s : s[i] = Head(s) \/ \E j \in DOMAIN Tail(s) : Tail(s)[j] = s[i]
           /\ \A j \in DOMAIN Tail(s) : \E i \in DOMAIN s : s[i] = Tail(s)[j]
           /\ Len(s) = 1 => Tail(s) = <<>>
           /\ 1 \in DOMAIN s /\ s[1] = Head(s)
<1>1. /\ Len(s) \in Nat \ {0} /\ Head(s) = s[1] /\ Head(s) \in S
      /\ Tail(s) \in Seq(S) /\ Len(Tail(s)) = Len(s) - 1
      /\ \A j \in 1..(Len(s) - 1) : Tail(s)[j] = s[j + 1]
    OBVIOUS
<1>2. \A i \in DOMAIN s : i = 1 \/ (i - 1 \in DOMAIN Tail(s) /\ Tail(s)[i - 1] = s[i])
    BY <1>1
<1>3. \A j \in DOMAIN Tail(s) : j + 1 \in DOMAIN s /\ s[j + 1] = Tail(s)[j]
    BY <1>1
<1>4. \A i \in DOMAIN s : s[i] = Head(s) \/ \E j \in DOMAIN Tail(s) : Tail(s)[j] = s[i]
    BY <1>1, <1>2
<1>5. \A j \in DOMAIN Tail(s) : \E i \in DOMAIN s : s[i] = Tail(s)[j]
    BY <1>3
<1>6. 1 \in DOMAIN s /\ (Len(s) = 1 => Tail(s) = <<>>)
    BY <1>1
<1> QED BY <1>1, <1>4, <1>5, <1>6

\* The first few of the first few.
LEMMA PrefixOfPrefix ==
    ASSUME NEW S, NEW s \in Seq(S), NEW m \in 0..Len(s), NEW n \in 0..m
    PROVE  SubSeq(SubSeq(s, 1, m), 1, n) = SubSeq(s, 1, n)
<1> DEFINE a == SubSeq(s, 1, m)
           l == SubSeq(a, 1, n)
           r == SubSeq(s, 1, n)
<1>1. a \in Seq(S) /\ Len(a) = m /\ \A k \in 1..m : a[k] = s[k]
    OBVIOUS
<1> HIDE DEF a
<1>2. l \in Seq(S) /\ Len(l) = n /\ \A k \in 1..n : l[k] = a[k]
    BY <1>1
<1>3. r \in Seq(S) /\ Len(r) = n /\ \A k \in 1..n : r[k] = s[k]
    OBVIOUS
<1>4. \A k \in 1..n : k \in 1..m
    OBVIOUS
<1> HIDE DEF l, r
<1>5. l = r
    BY <1>1, <1>2, <1>3, <1>4
<1> QED BY <1>5 DEF l, r, a

-----------------------------------------------------------------------------
\* FlattenSeq joins one list after the other.
LEMMA FlattenSteps ==
    ASSUME NEW S, NEW ss \in Seq(Seq(S)), ss # <<>>
    PROVE  \E F : /\ FlattenSeq(ss) = F[Len(ss)]
                 /\ \A i \in 1..Len(ss) : F[i] = IF i = 1 THEN ss[i] ELSE F[i - 1] \o ss[i]
<1> DEFINE Joins(f, n) == f = [i \in 1..n |-> IF i = 1 THEN ss[i] ELSE f[i - 1] \o ss[i]]
           N == Len(ss)
           F == CHOOSE f : Joins(f, N)
<1>0. N \in Nat /\ \A i \in 1..N : ss[i] \in Seq(S)
    OBVIOUS
<1>n. N # 0
    OBVIOUS
<1>1. FlattenSeq(ss) = F[N]
    BY <1>n DEF FlattenSeq
<1>2. \E f : Joins(f, N)
  <2> DEFINE Typed(n) == \E f \in [1..n -> Seq(S)] : Joins(f, n)
             G == {n \in 1..N : Typed(n)}
  <2>1. 1 \in G
    <3>1. [i \in 1..1 |-> ss[i]] \in [1..1 -> Seq(S)]
        BY <1>0, <1>n
    <3>2. Joins([i \in 1..1 |-> ss[i]], 1)
        OBVIOUS
    <3>3. Typed(1)
        BY <3>1, <3>2
    <3> HIDE DEF Typed
    <3> QED BY <3>3, <1>0, <1>n
  <2>2. ASSUME NEW k \in 1..(N - 1), k \in G
        PROVE  k + 1 \in G
    <3>1. PICK f \in [1..k -> Seq(S)] : Joins(f, k)
        BY <2>2
    <3> DEFINE g == [i \in 1..(k + 1) |-> IF i = k + 1 THEN f[k] \o ss[i] ELSE f[i]]
    <3>2. \A i \in 1..k : f[i] = IF i = 1 THEN ss[i] ELSE f[i - 1] \o ss[i]
        BY <3>1
    <3>3. f[k] \in Seq(S) /\ ss[k + 1] \in Seq(S)
        BY <1>0
    <3>4. g \in [1..(k + 1) -> Seq(S)]
      <4>1. \A i \in 1..(k + 1) : g[i] \in Seq(S)
          BY <3>3
      <4> QED BY <4>1
    <3>5. \A i \in 1..(k + 1) : g[i] = IF i = 1 THEN ss[i] ELSE g[i - 1] \o ss[i]
      <4> SUFFICES ASSUME NEW i \in 1..(k + 1)
                   PROVE  g[i] = IF i = 1 THEN ss[i] ELSE g[i - 1] \o ss[i]
          OBVIOUS
      <4>1. CASE i = k + 1
        <5>1. i # 1 /\ i - 1 = k /\ k \in 1..(k + 1) /\ k # k + 1
            BY <4>1, <1>0
        <5>2. g[i] = f[k] \o ss[i] /\ g[k] = f[k]
            BY <5>1, <4>1
        <5> QED BY <5>1, <5>2
      <4>2. CASE i # k + 1
        <5>1. i \in 1..k /\ (i # 1 => i - 1 \in 1..k)
            BY <4>2, <1>0
        <5>2. g[i] = f[i] /\ (i # 1 => g[i - 1] = f[i - 1])
            BY <5>1, <4>2, <1>0
        <5> QED BY <5>1, <5>2, <3>2
      <4> QED BY <4>1, <4>2
    <3>6. Joins(g, k + 1)
        BY <3>5
    <3>7. Typed(k + 1)
        BY <3>4, <3>6
    <3>8. k + 1 \in 1..N
        BY <1>0
    <3> HIDE DEF Typed
    <3> QED BY <3>7, <3>8
  <2>3. 1..N \subseteq G
    <3> HIDE DEF G
    <3> QED BY <2>1, <2>2, <1>0, Climb
  <2>4. N \in 1..N
      BY <1>0, <1>n
  <2>5. Typed(N)
    <3> HIDE DEF Typed
    <3> QED BY <2>3, <2>4
  <2> QED BY <2>5
<1>3. Joins(F, N)
  <2> HIDE DEF Joins
  <2> QED BY <1>2
<1> HIDE DEF F
<1>4. \A i \in 1..N : F[i] = IF i = 1 THEN ss[i] ELSE F[i - 1] \o ss[i]
    BY <1>3
<1> QED BY <1>1, <1>4

\* FlattenSeq joins lists over a set into one list over it.
LEMMA FlattenTyped ==
    ASSUME NEW S, NEW ss \in Seq(Seq(S))
    PROVE  FlattenSeq(ss) \in Seq(S)
<1> DEFINE N == Len(ss)
<1>0. N \in Nat /\ \A i \in 1..N : ss[i] \in Seq(S)
    OBVIOUS
<1>1. CASE N = 0
    BY <1>1 DEF FlattenSeq
<1>2. CASE N # 0
  <2>1. ss # <<>>
      BY <1>2
  <2>2. PICK F : /\ FlattenSeq(ss) = F[N]
                 /\ \A i \in 1..N : F[i] = IF i = 1 THEN ss[i] ELSE F[i - 1] \o ss[i]
      BY <2>1, FlattenSteps
  <2>4. \A i \in 1..N : F[i] = IF i = 1 THEN ss[i] ELSE F[i - 1] \o ss[i]
      BY <2>2
  <2> DEFINE H == {n \in 1..N : F[n] \in Seq(S)}
  <2>5. 1 \in H
      BY <2>4, <1>0, <1>2
  <2>6. ASSUME NEW k \in 1..(N - 1), k \in H
        PROVE  k + 1 \in H
    <3>1. k + 1 \in 1..N /\ k + 1 # 1 /\ (k + 1) - 1 = k
        BY <1>0
    <3>2. F[k + 1] = F[k] \o ss[k + 1]
        BY <2>4, <3>1
    <3>3. F[k] \in Seq(S) /\ ss[k + 1] \in Seq(S)
        BY <2>6, <3>1, <1>0
    <3>4. F[k + 1] \in Seq(S)
        BY <3>2, <3>3
    <3> QED BY <3>1, <3>4
  <2>7. 1..N \subseteq H
    <3> HIDE DEF H
    <3> QED BY <2>5, <2>6, <1>0, Climb
  <2> QED BY <2>7, <2>2, <1>0, <1>2
<1> QED BY <1>1, <1>2

\* The joined list is empty if every list is.
LEMMA FlattenEmpty ==
    ASSUME NEW S, NEW ss \in Seq(Seq(S))
    PROVE  FlattenSeq(ss) = <<>> <=> \A i \in 1..Len(ss) : ss[i] = <<>>
<1> DEFINE N == Len(ss)
<1>0. N \in Nat /\ \A i \in 1..N : ss[i] \in Seq(S)
    OBVIOUS
<1>1. CASE N = 0
    BY <1>1 DEF FlattenSeq
<1>2. CASE N # 0
  <2>1. ss # <<>>
      BY <1>2
  <2>2. PICK F : /\ FlattenSeq(ss) = F[N]
                 /\ \A i \in 1..N : F[i] = IF i = 1 THEN ss[i] ELSE F[i - 1] \o ss[i]
      BY <2>1, FlattenSteps
  <2> DEFINE None(k) == \A i \in 1..k : ss[i] = <<>>
             H == {n \in 1..N : F[n] \in Seq(S) /\ (F[n] = <<>> <=> None(n))}
  <2>3. 1 \in H
    <3>1. F[1] = ss[1] /\ 1 \in 1..N
        BY <2>2, <1>0, <1>2
    <3> QED BY <3>1, <1>0
  <2>4. ASSUME NEW k \in 1..(N - 1), k \in H
        PROVE  k + 1 \in H
    <3>1. k + 1 \in 1..N /\ k + 1 # 1 /\ (k + 1) - 1 = k
        BY <1>0
    <3>2. F[k + 1] = F[k] \o ss[k + 1]
        BY <2>2, <3>1
    <3>3. F[k] \in Seq(S) /\ ss[k + 1] \in Seq(S) /\ (F[k] = <<>> <=> None(k))
        BY <2>4, <3>1, <1>0
    <3>4. /\ F[k + 1] \in Seq(S)
          /\ F[k + 1] = <<>> <=> F[k] = <<>> /\ ss[k + 1] = <<>>
      <4> HIDE DEF None
      <4> QED BY <3>2, <3>3
    <3>5. None(k + 1) <=> None(k) /\ ss[k + 1] = <<>>
        BY <3>1
    <3> HIDE DEF None
    <3> QED BY <3>1, <3>3, <3>4, <3>5, SMTT(30)
  <2>5. 1..N \subseteq H
    <3> HIDE DEF H
    <3> QED BY <2>3, <2>4, <1>0, Climb
  <2>6. N \in H
      BY <2>5, <1>0, <1>2
  <2> QED BY <2>2, <2>6
<1> QED BY <1>1, <1>2

-----------------------------------------------------------------------------
\* What holds of a subset of W when it holds of all smaller ones holds of all.
LEMMA ClimbSets ==
    ASSUME NEW W, IsFiniteSet(W), NEW G,
           \A S \in SUBSET W :
              (\A T \in SUBSET W : Cardinality(T) < Cardinality(S) => T \in G) => S \in G
    PROVE  SUBSET W \subseteq G
<1> DEFINE Sizes == {Cardinality(S) : S \in {T \in SUBSET W : T \notin G}}
<1>1. SUFFICES ASSUME NEW S \in SUBSET W, S \notin G PROVE FALSE
    OBVIOUS
<1>2. \A T \in SUBSET W : Cardinality(T) \in Nat
    BY FS_Subset, FS_CardinalityType
<1>3. Sizes \in SUBSET Nat /\ Sizes # {}
    BY <1>1, <1>2
<1>4. PICK m \in Sizes : \A k \in Sizes : m <= k
  <2> HIDE DEF Sizes
  <2> QED BY <1>3, LeastNatural
<1>5. PICK T \in SUBSET W : T \notin G /\ m = Cardinality(T)
    BY <1>4
<1>6. ASSUME NEW U \in SUBSET W, Cardinality(U) < Cardinality(T)
      PROVE  U \in G
  <2>1. SUFFICES ASSUME U \notin G PROVE FALSE
      OBVIOUS
  <2>2. Cardinality(U) \in Sizes
      BY <2>1
  <2>3. m <= Cardinality(U)
    <3> HIDE DEF Sizes
    <3> QED BY <2>2, <1>4
  <2> QED BY <2>3, <1>2, <1>5, <1>6
<1> QED BY <1>5, <1>6

Pick(S) == CHOOSE x \in S : TRUE

\* g adds up f over every subset of W.
Adds(g, f, W) ==
    \A S \in SUBSET W : g[S] = IF S = {} THEN 0 ELSE f[Pick(S)] + g[S \ {Pick(S)}]

LEMMA Picking ==
    ASSUME NEW S, S # {}, IsFiniteSet(S)
    PROVE  /\ Pick(S) \in S
           /\ Cardinality(S) \in Nat \ {0}
           /\ IsFiniteSet(S \ {Pick(S)})
           /\ Cardinality(S \ {Pick(S)}) = Cardinality(S) - 1
<1>1. Pick(S) \in S
    BY DEF Pick
<1> QED BY <1>1, FS_RemoveElement, FS_CardinalityType, FS_EmptySet

\* There is such a g, and it returns natural numbers.
LEMMA AddsExists ==
    ASSUME NEW W, IsFiniteSet(W), NEW f, \A x \in W : f[x] \in Nat
    PROVE  \E g \in [SUBSET W -> Nat] : Adds(g, f, W)
<1> DEFINE Rec(g, S) == IF S = {} THEN 0 ELSE f[Pick(S)] + g[S \ {Pick(S)}]
           Upto(n) == \E g \in [SUBSET W -> Nat] :
                         \A S \in SUBSET W : Cardinality(S) <= n => g[S] = Rec(g, S)
           N == Cardinality(W)
           G == {n \in 0..N : Upto(n)}
<1>0. N \in Nat /\ \A S \in SUBSET W : IsFiniteSet(S) /\ Cardinality(S) \in 0..N
  <2>1. N \in Nat
      BY FS_CardinalityType
  <2>2. ASSUME NEW S \in SUBSET W
        PROVE  IsFiniteSet(S) /\ Cardinality(S) \in Nat /\ Cardinality(S) <= N
      BY FS_Subset, FS_CardinalityType
  <2> QED BY <2>1, <2>2
<1>1. Upto(0)
  <2> DEFINE g == [S \in SUBSET W |-> 0]
  <2>1. g \in [SUBSET W -> Nat]
      OBVIOUS
  <2>2. \A S \in SUBSET W : Cardinality(S) <= 0 => S = {}
      BY <1>0, FS_EmptySet
  <2>3. \A S \in SUBSET W : Cardinality(S) <= 0 => g[S] = Rec(g, S)
      BY <2>2
  <2> QED BY <2>1, <2>3
<1>2. ASSUME NEW n \in 0..(N - 1), Upto(n)
      PROVE  Upto(n + 1)
  <2>1. PICK g \in [SUBSET W -> Nat] :
               \A S \in SUBSET W : Cardinality(S) <= n => g[S] = Rec(g, S)
      BY <1>2
  <2> DEFINE h == [S \in SUBSET W |-> IF Cardinality(S) = n + 1 THEN Rec(g, S) ELSE g[S]]
  <2>2. ASSUME NEW S \in SUBSET W, S # {}
        PROVE  /\ Pick(S) \in W /\ S \ {Pick(S)} \in SUBSET W
               /\ Cardinality(S \ {Pick(S)}) = Cardinality(S) - 1
               /\ f[Pick(S)] \in Nat
      BY <1>0, <2>2, Picking
  <2>3. \A S \in SUBSET W : Rec(g, S) \in Nat
    <3> SUFFICES ASSUME NEW S \in SUBSET W PROVE Rec(g, S) \in Nat
        OBVIOUS
    <3>1. CASE S = {}
        BY <3>1
    <3>2. CASE S # {}
        BY <3>2, <2>2
    <3> QED BY <3>1, <3>2
  <2>4. h \in [SUBSET W -> Nat]
    <3> HIDE DEF Rec
    <3> QED BY <2>3
  <2>5. ASSUME NEW S \in SUBSET W, Cardinality(S) <= n + 1
        PROVE  h[S] = Rec(h, S)
    <3>1. Rec(h, S) = Rec(g, S)
      <4>1. CASE S = {}
          BY <4>1
      <4>2. CASE S # {}
        <5>1. h[S \ {Pick(S)}] = g[S \ {Pick(S)}]
          <6>1. Cardinality(S \ {Pick(S)}) # n + 1 /\ S \ {Pick(S)} \in SUBSET W
              BY <4>2, <2>2, <2>5, <1>0
          <6> HIDE DEF Rec
          <6> QED BY <6>1
        <5> HIDE DEF h
        <5> QED BY <4>2, <5>1
      <4> QED BY <4>1, <4>2
    <3>2. CASE Cardinality(S) = n + 1
      <4>1. h[S] = Rec(g, S)
        <5> HIDE DEF Rec
        <5> QED BY <3>2
      <4> QED BY <4>1, <3>1
    <3>3. CASE Cardinality(S) # n + 1
      <4>1. h[S] = g[S] /\ Cardinality(S) <= n
        <5> HIDE DEF Rec
        <5> QED BY <3>3, <2>5, <1>0
      <4>2. g[S] = Rec(g, S)
        <5> HIDE DEF Rec
        <5> QED BY <4>1, <2>1
      <4> QED BY <4>1, <4>2, <3>1
    <3> QED BY <3>2, <3>3
  <2> HIDE DEF Rec, h
  <2> QED BY <2>4, <2>5
<1>3. 0..N \subseteq G
  <2>1. 0 \in G
    <3> HIDE DEF Upto
    <3> QED BY <1>0, <1>1
  <2>2. ASSUME NEW n \in 0..(N - 1), n \in G
        PROVE  n + 1 \in G
    <3> HIDE DEF Upto
    <3> QED BY <1>0, <1>2, <2>2
  <2> HIDE DEF G, N
  <2> QED BY <1>0, <2>1, <2>2, Climb
<1>4. Upto(N)
  <2> HIDE DEF Upto
  <2> QED BY <1>0, <1>3
<1>5. PICK g \in [SUBSET W -> Nat] :
             \A S \in SUBSET W : Cardinality(S) <= N => g[S] = Rec(g, S)
    BY <1>4
<1>6. \A S \in SUBSET W : g[S] = Rec(g, S)
  <2> HIDE DEF Rec, N
  <2> QED BY <1>5, <1>0
<1> QED BY <1>6 DEF Adds

\* Any two of them agree where both add.
LEMMA AddsAgree ==
    ASSUME NEW W, IsFiniteSet(W), NEW V \in SUBSET W, NEW f, NEW g, NEW h,
           Adds(g, f, V), Adds(h, f, W)
    PROVE  \A S \in SUBSET V : g[S] = h[S]
<1> DEFINE G == {S \in SUBSET V : g[S] = h[S]}
<1>1. IsFiniteSet(V)
    BY FS_Subset
<1>2. ASSUME NEW S \in SUBSET V,
             \A T \in SUBSET V : Cardinality(T) < Cardinality(S) => T \in G
      PROVE  S \in G
  <2>1. CASE S = {}
      BY <2>1 DEF Adds
  <2>2. CASE S # {}
    <3>1. IsFiniteSet(S) /\ S \in SUBSET W
        BY <1>1, FS_Subset
    <3>2. S \ {Pick(S)} \in SUBSET V /\ Cardinality(S \ {Pick(S)}) < Cardinality(S)
        BY <2>2, <3>1, Picking
    <3>3. g[S \ {Pick(S)}] = h[S \ {Pick(S)}]
        BY <1>2, <3>2
    <3>4. g[S] = f[Pick(S)] + g[S \ {Pick(S)}] /\ h[S] = f[Pick(S)] + h[S \ {Pick(S)}]
        BY <2>2, <3>1 DEF Adds
    <3> QED BY <3>3, <3>4
  <2> QED BY <2>1, <2>2
<1>3. SUBSET V \subseteq G
  <2> HIDE DEF G
  <2> QED BY <1>1, <1>2, ClimbSets
<1> QED BY <1>3

\* So Sum is one of them, over every finite set at once.
Sums(g, f, W) ==
    g \in [SUBSET W -> Nat] /\ Adds(g, f, W) /\ \A S \in SUBSET W : SumOf(f, S) = g[S]

LEMMA SumAdds ==
    ASSUME NEW W, IsFiniteSet(W), NEW f, \A x \in W : f[x] \in Nat
    PROVE  \E g : Sums(g, f, W)
<1>1. PICK g \in [SUBSET W -> Nat] : Adds(g, f, W)
    BY AddsExists
<1>2. ASSUME NEW S \in SUBSET W
      PROVE  SumOf(f, S) = g[S]
  <2> DEFINE Iterates(h) == h = [T \in SUBSET S |->
                                   IF T = {} THEN 0 ELSE f[Pick(T)] + h[T \ {Pick(T)}]]
             F == CHOOSE h : Iterates(h)
  <2>1. SumOf(f, S) = F[S]
      BY DEF SumOf, MapThenSumSet, MapThenFoldSet, Pick
  <2>2. IsFiniteSet(S)
      BY FS_Subset
  <2>3. PICK h \in [SUBSET S -> Nat] : Adds(h, f, S)
      BY <2>2, AddsExists
  <2>4. Iterates(h)
      BY <2>3 DEF Adds
  <2>5. Iterates(F)
    <3> HIDE DEF Iterates
    <3> QED BY <2>4
  <2>6. Adds(F, f, S)
    <3> HIDE DEF F
    <3> QED BY <2>5 DEF Adds
  <2>7. F[S] = g[S]
    <3> HIDE DEF F
    <3>1. \A T \in SUBSET S : F[T] = g[T]
        BY <1>1, <2>6, AddsAgree
    <3> QED BY <3>1
  <2> QED BY <2>1, <2>7
<1>3. Sums(g, f, W)
    BY <1>1, <1>2 DEF Sums
<1> QED BY <1>3

LEMMA SumEmpty ==
    ASSUME NEW f
    PROVE  SumOf(f, {}) = 0
<1>1. PICK g : Sums(g, f, {})
    BY FS_EmptySet, SumAdds
<1> QED BY <1>1 DEF Sums, Adds

LEMMA SumTyped ==
    ASSUME NEW W, IsFiniteSet(W), NEW f, \A x \in W : f[x] \in Nat
    PROVE  SumOf(f, W) \in Nat
<1>1. PICK g : Sums(g, f, W)
    BY SumAdds
<1> QED BY <1>1 DEF Sums

\* The element that is taken away first does not matter.
LEMMA SumRemove ==
    ASSUME NEW W, IsFiniteSet(W), NEW f, \A x \in W : f[x] \in Nat, NEW a \in W
    PROVE  SumOf(f, W) = f[a] + SumOf(f, W \ {a})
<1>0. PICK g : Sums(g, f, W)
    BY SumAdds
<1>1. g \in [SUBSET W -> Nat] /\ Adds(g, f, W) /\ \A S \in SUBSET W : SumOf(f, S) = g[S]
    BY <1>0 DEF Sums
<1> DEFINE G == {S \in SUBSET W : \A x \in S : g[S] = f[x] + g[S \ {x}]}
<1>2. ASSUME NEW S \in SUBSET W,
             \A T \in SUBSET W : Cardinality(T) < Cardinality(S) => T \in G
      PROVE  S \in G
  <2> SUFFICES ASSUME NEW x \in S PROVE g[S] = f[x] + g[S \ {x}]
      OBVIOUS
  <2> DEFINE p == Pick(S)
             Sx == S \ {x}
             Sp == S \ {p}
             R == S \ {x, p}
  <2>1. /\ IsFiniteSet(S) /\ p \in S /\ Cardinality(S) \in Nat \ {0}
        /\ Cardinality(Sp) = Cardinality(S) - 1 /\ Cardinality(Sx) = Cardinality(S) - 1
    <3>1. IsFiniteSet(S)
        BY FS_Subset
    <3> QED BY <3>1, Picking, FS_RemoveElement
  <2>2. g[S] = f[p] + g[Sp]
      BY <1>1 DEF Adds
  <2>3. CASE x = p
      BY <2>2, <2>3
  <2>4. CASE x # p
    <3>1. Sx \in SUBSET W /\ Sp \in SUBSET W /\ R \in SUBSET W
        OBVIOUS
    <3>2. Sx \in G /\ Sp \in G
      <4> HIDE DEF G, p, Sx, Sp
      <4> QED BY <1>2, <2>1, <3>1
    <3>3. x \in Sp /\ p \in Sx /\ Sp \ {x} = R /\ Sx \ {p} = R
        BY <2>1, <2>4
    <3>4. g[Sp] = f[x] + g[R] /\ g[Sx] = f[p] + g[R]
      <4> HIDE DEF p, Sx, Sp, R
      <4> QED BY <3>2, <3>3
    <3>5. f[x] \in Nat /\ f[p] \in Nat /\ g[R] \in Nat
        BY <1>1, <2>1, <3>1
    <3> HIDE DEF p, Sx, Sp, R
    <3> QED BY <2>2, <3>4, <3>5 DEF Sx
  <2> QED BY <2>3, <2>4
<1>3. SUBSET W \subseteq G
  <2> HIDE DEF G
  <2> QED BY <1>2, ClimbSets
<1>4. g[W] = f[a] + g[W \ {a}]
    BY <1>3
<1> QED BY <1>1, <1>4

LEMMA SumAdd ==
    ASSUME NEW W, IsFiniteSet(W), NEW a, a \notin W, NEW f, \A x \in W \cup {a} : f[x] \in Nat
    PROVE  SumOf(f, W \cup {a}) = f[a] + SumOf(f, W)
<1>1. IsFiniteSet(W \cup {a})
    BY FS_AddElement
<1>2. (W \cup {a}) \ {a} = W
    OBVIOUS
<1>3. SumOf(f, W \cup {a}) = f[a] + SumOf(f, (W \cup {a}) \ {a})
    BY <1>1, SumRemove
<1> QED BY <1>2, <1>3

\* Only the values on the set matter.
LEMMA SumSame ==
    ASSUME NEW W, IsFiniteSet(W), NEW f, NEW h, \A x \in W : f[x] \in Nat /\ h[x] = f[x]
    PROVE  SumOf(h, W) = SumOf(f, W)
<1>1. PICK g : Sums(g, f, W)
    BY SumAdds
<1>2. PICK k : Sums(k, h, W)
  <2>1. \A x \in W : h[x] \in Nat
      OBVIOUS
  <2> QED BY <2>1, SumAdds
<1>3. Adds(g, h, W)
  <2>1. Adds(g, f, W)
      BY <1>1 DEF Sums
  <2>2. ASSUME NEW S \in SUBSET W, S # {}
        PROVE  h[Pick(S)] = f[Pick(S)]
    <3>1. Pick(S) \in S
        BY <2>2, FS_Subset, Picking
    <3> QED BY <3>1
  <2> QED BY <2>1, <2>2 DEF Adds
<1>4. g[W] = k[W]
  <2>1. W \in SUBSET W /\ Adds(k, h, W)
      BY <1>2 DEF Sums
  <2>2. \A S \in SUBSET W : g[S] = k[S]
      BY <1>3, <2>1, AddsAgree
  <2> QED BY <2>2
<1> QED BY <1>1, <1>2, <1>4 DEF Sums

\* Different elements, given as a list beside a set that has none of them.
Joins(U, B, g, x, a, n) ==
    /\ n \in Nat /\ IsFiniteSet(B) /\ \A y \in B : g[y] \in Nat
    /\ \A y : y \in U <=> y \in B \/ \E i \in 1..n : y = x[i]
    /\ \A i \in 1..n : g[x[i]] \in Nat /\ a[i] = g[x[i]] /\ x[i] \notin B
    /\ \A i, j \in 1..n : x[i] = x[j] => i = j

LEMMA SumJoins ==
    ASSUME NEW U, NEW B, NEW g, NEW x, NEW a, NEW n, Joins(U, B, g, x, a, n)
    PROVE  /\ IsFiniteSet(U) /\ SumOf(a, 1..n) \in Nat
           /\ SumOf(g, B) \in Nat
           /\ SumOf(g, U) = SumOf(g, B) + SumOf(a, 1..n)
<1>h. /\ n \in Nat /\ IsFiniteSet(B) /\ \A y \in B : g[y] \in Nat
      /\ \A i \in 1..n : g[x[i]] \in Nat /\ a[i] = g[x[i]] /\ x[i] \notin B
      /\ \A i, j \in 1..n : x[i] = x[j] => i = j
    BY DEF Joins
<1> DEFINE Upto(k) == B \cup {x[i] : i \in 1..k}
           Right(k) == /\ IsFiniteSet(Upto(k)) /\ SumOf(a, 1..k) \in Nat
                       /\ SumOf(g, Upto(k)) = SumOf(g, B) + SumOf(a, 1..k)
           G == {k \in 0..n : Right(k)}
<1>0. SumOf(g, B) \in Nat
    BY <1>h, SumTyped
<1>1. Right(0)
  <2>1. 1..0 = {} /\ Upto(0) = B
      BY <1>h
  <2>2. SumOf(a, 1..0) = 0
      BY <1>h, <2>1, SumEmpty
  <2> HIDE DEF Upto
  <2> QED BY <1>h, <1>0, <2>1, <2>2
<1>2. ASSUME NEW k \in 0..(n - 1), Right(k)
      PROVE  Right(k + 1)
  <2>1. /\ k \in Nat /\ k + 1 \in 1..n /\ 1..k \subseteq 1..n /\ k + 1 \notin 1..k
        /\ 1..(k + 1) = 1..k \cup {k + 1}
      BY <1>h
  <2>2. Upto(k + 1) = Upto(k) \cup {x[k + 1]}
      BY <1>h, <2>1
  <2>3. x[k + 1] \notin Upto(k) /\ \A y \in Upto(k) \cup {x[k + 1]} : g[y] \in Nat
      BY <1>h, <2>1
  <2> HIDE DEF Upto
  <2>4. SumOf(g, Upto(k + 1)) = g[x[k + 1]] + SumOf(g, Upto(k)) /\ IsFiniteSet(Upto(k + 1))
    <3> DEFINE V == Upto(k)
               y == x[k + 1]
    <3>1. IsFiniteSet(V) /\ y \notin V /\ \A z \in V \cup {y} : g[z] \in Nat
        BY <1>h, <1>2, <2>3
    <3>2. Upto(k + 1) = V \cup {y}
        BY <1>h, <2>2
    <3> HIDE DEF V, y
    <3>3. SumOf(g, V \cup {y}) = g[y] + SumOf(g, V) /\ IsFiniteSet(V \cup {y})
        BY <1>h, <3>1, SumAdd, FS_AddElement
    <3> QED BY <1>h, <3>2, <3>3 DEF V, y
  <2>5. SumOf(a, 1..(k + 1)) = a[k + 1] + SumOf(a, 1..k)
    <3> DEFINE D == 1..k
               m == k + 1
    <3>1. IsFiniteSet(D)
        BY <1>h, <2>1, FS_Interval
    <3>2. \A i \in D \cup {m} : a[i] \in Nat
        BY <1>h, <2>1
    <3>3. m \notin D /\ 1..m = D \cup {m}
        BY <1>h, <2>1
    <3> HIDE DEF D, m
    <3>4. SumOf(a, D \cup {m}) = a[m] + SumOf(a, D)
        BY <1>h, <3>1, <3>2, <3>3, SumAdd
    <3> QED BY <1>h, <3>3, <3>4 DEF D, m
  <2>6. a[k + 1] = g[x[k + 1]] /\ g[x[k + 1]] \in Nat
      BY <1>h, <2>1
  <2> QED BY <1>h, <1>0, <1>2, <2>4, <2>5, <2>6
<1>3. 0..n \subseteq G
  <2>1. 0 \in G
    <3> HIDE DEF Right
    <3> QED BY <1>h, <1>1
  <2>2. ASSUME NEW k \in 0..(n - 1), k \in G
        PROVE  k + 1 \in G
    <3> HIDE DEF Right
    <3> QED BY <1>h, <1>2, <2>2
  <2> HIDE DEF G
  <2> QED BY <1>h, <2>1, <2>2, Climb
<1>4. Right(n)
  <2> HIDE DEF Right
  <2> QED BY <1>h, <1>3
<1>5. U = Upto(n)
  <2> HIDE DEF Right, G
  <2> QED BY DEF Joins
<1> QED BY <1>h, <1>0, <1>4, <1>5

-----------------------------------------------------------------------------
\* Folds over a list: FoldLeft takes the highest index first.

Top(S) == Max(S)

LEMMA Topmost ==
    ASSUME NEW n \in Nat, NEW S \in SUBSET (1..n), S # {}
    PROVE  Top(S) \in S /\ \A k \in S : k <= Top(S)
<1> DEFINE Gaps == {n - k : k \in S}
<1>1. Gaps \in SUBSET Nat /\ Gaps # {}
  <2>1. \A k \in S : n - k \in Nat
      OBVIOUS
  <2>2. Gaps \in SUBSET Nat
      BY <2>1
  <2> QED BY <2>2
<1>2. PICK g \in Gaps : \A h \in Gaps : g <= h
  <2> HIDE DEF Gaps
  <2> QED BY <1>1, LeastNatural
<1>3. PICK m \in S : g = n - m
    BY <1>2
<1>4. \A k \in S : m >= k
  <2> SUFFICES ASSUME NEW k \in S PROVE m >= k
      OBVIOUS
  <2>1. g <= n - k
      BY <1>2
  <2> QED BY <1>3, <2>1
<1>5. \E m1 \in S : \A k \in S : m1 >= k
    BY <1>4
<1>6. Top(S) \in S /\ \A k \in S : Top(S) >= k
    BY <1>5 DEF Top, Max
<1> QED BY <1>6

LEMMA TopOfInterval ==
    ASSUME NEW n \in Nat \ {0}
    PROVE  Top(1..n) = n /\ (1..n) \ {Top(1..n)} = 1..(n - 1)
<1>1. Top(1..n) \in 1..n /\ \A k \in 1..n : k <= Top(1..n)
  <2>1. 1..n \in SUBSET (1..n) /\ 1..n # {}
      OBVIOUS
  <2> QED BY <2>1, Topmost
<1>2. Top(1..n) = n
    BY <1>1
<1> QED BY <1>2

Folds(g, n, T, base, step) ==
    /\ g \in [SUBSET (1..n) -> T]
    /\ \A S \in SUBSET (1..n) :
          g[S] = IF S = {} THEN base ELSE step[<<Top(S), g[S \ {Top(S)}]>>]

\* The recursion of a fold has a solution.
LEMMA FoldExists ==
    ASSUME NEW n \in Nat, NEW T, NEW base \in T, NEW step \in [(1..n) \X T -> T]
    PROVE  \E g : Folds(g, n, T, base, step)
<1> DEFINE W == 1..n
           Rec(g, S) == IF S = {} THEN base ELSE step[<<Top(S), g[S \ {Top(S)}]>>]
           Upto(k) == \E g \in [SUBSET W -> T] :
                         \A S \in SUBSET W : Cardinality(S) <= k => g[S] = Rec(g, S)
           G == {k \in 0..n : Upto(k)}
<1>0. IsFiniteSet(W) /\ \A S \in SUBSET W : IsFiniteSet(S) /\ Cardinality(S) \in 0..n
  <2>1. IsFiniteSet(W) /\ Cardinality(W) = n
      BY FS_Interval
  <2>2. ASSUME NEW S \in SUBSET W
        PROVE  IsFiniteSet(S) /\ Cardinality(S) \in Nat /\ Cardinality(S) <= n
    <3> HIDE DEF W
    <3> QED BY <2>1, FS_Subset, FS_CardinalityType
  <2> QED BY <2>1, <2>2
<1>1. Upto(0)
  <2> DEFINE g == [S \in SUBSET W |-> base]
  <2>1. g \in [SUBSET W -> T]
      OBVIOUS
  <2>2. \A S \in SUBSET W : Cardinality(S) <= 0 => S = {}
    <3> HIDE DEF W
    <3> QED BY <1>0, FS_EmptySet
  <2>3. \A S \in SUBSET W : Cardinality(S) <= 0 => g[S] = Rec(g, S)
      BY <2>2
  <2> QED BY <2>1, <2>3
<1>2. ASSUME NEW k \in 0..(n - 1), Upto(k)
      PROVE  Upto(k + 1)
  <2>1. PICK g \in [SUBSET W -> T] :
               \A S \in SUBSET W : Cardinality(S) <= k => g[S] = Rec(g, S)
      BY <1>2
  <2> DEFINE h == [S \in SUBSET W |-> IF Cardinality(S) = k + 1 THEN Rec(g, S) ELSE g[S]]
  <2>2. ASSUME NEW S \in SUBSET W, S # {}
        PROVE  /\ Top(S) \in W /\ S \ {Top(S)} \in SUBSET W
               /\ Cardinality(S \ {Top(S)}) = Cardinality(S) - 1
    <3>1. Top(S) \in S
        BY <2>2, Topmost
    <3>2. Cardinality(S \ {Top(S)}) = Cardinality(S) - 1
        BY <1>0, <3>1, FS_RemoveElement
    <3> QED BY <3>1, <3>2
  <2>3. \A S \in SUBSET W : Rec(g, S) \in T
    <3> SUFFICES ASSUME NEW S \in SUBSET W PROVE Rec(g, S) \in T
        OBVIOUS
    <3>1. CASE S = {}
        BY <3>1
    <3>2. CASE S # {}
      <4>1. Top(S) \in W /\ g[S \ {Top(S)}] \in T
          BY <3>2, <2>2
      <4> QED BY <3>2, <4>1
    <3> QED BY <3>1, <3>2
  <2>4. h \in [SUBSET W -> T]
    <3> HIDE DEF Rec
    <3> QED BY <2>3
  <2>5. ASSUME NEW S \in SUBSET W, Cardinality(S) <= k + 1
        PROVE  h[S] = Rec(h, S)
    <3>1. Rec(h, S) = Rec(g, S)
      <4>1. CASE S = {}
          BY <4>1
      <4>2. CASE S # {}
        <5>1. h[S \ {Top(S)}] = g[S \ {Top(S)}]
          <6>1. Cardinality(S \ {Top(S)}) # k + 1 /\ S \ {Top(S)} \in SUBSET W
            <7> HIDE DEF h, Rec, W
            <7>1. /\ S \ {Top(S)} \in SUBSET W
                  /\ Cardinality(S \ {Top(S)}) = Cardinality(S) - 1
                BY <4>2, <2>2
            <7>2. Cardinality(S) \in Nat /\ Cardinality(S) <= k + 1 /\ k \in Nat
                BY <2>5, <1>0
            <7> QED BY <7>1, <7>2
          <6> HIDE DEF Rec
          <6> QED BY <6>1
        <5> HIDE DEF h
        <5> QED BY <4>2, <5>1
      <4> QED BY <4>1, <4>2
    <3>2. CASE Cardinality(S) = k + 1
      <4>1. h[S] = Rec(g, S)
        <5> HIDE DEF Rec
        <5> QED BY <3>2
      <4> QED BY <4>1, <3>1
    <3>3. CASE Cardinality(S) # k + 1
      <4>1. h[S] = g[S] /\ Cardinality(S) <= k
        <5> HIDE DEF Rec
        <5> QED BY <3>3, <2>5, <1>0
      <4>2. g[S] = Rec(g, S)
        <5> HIDE DEF Rec
        <5> QED BY <4>1, <2>1
      <4> QED BY <4>1, <4>2, <3>1
    <3> QED BY <3>2, <3>3
  <2> HIDE DEF Rec, h
  <2> QED BY <2>4, <2>5
<1>3. 0..n \subseteq G
  <2>1. 0 \in G
    <3> HIDE DEF Upto
    <3> QED BY <1>1
  <2>2. ASSUME NEW k \in 0..(n - 1), k \in G
        PROVE  k + 1 \in G
    <3> HIDE DEF Upto
    <3> QED BY <1>2, <2>2
  <2> HIDE DEF G
  <2> QED BY <2>1, <2>2, Climb
<1>4. Upto(n)
  <2> HIDE DEF Upto
  <2> QED BY <1>3
<1>5. PICK g \in [SUBSET W -> T] :
             \A S \in SUBSET W : Cardinality(S) <= n => g[S] = Rec(g, S)
    BY <1>4
<1>6. \A S \in SUBSET W : g[S] = Rec(g, S)
  <2> HIDE DEF Rec, W
  <2> QED BY <1>5, <1>0
<1>7. Folds(g, n, T, base, step)
    BY <1>5, <1>6 DEF Folds
<1> QED BY <1>7

\* Picked goes through the list once.
PicksBySteps(p, list, S, A) ==
    /\ p \in [0..Len(list) -> Seq(A)] /\ p[0] = <<>>
    /\ \A k \in 0..(Len(list) - 1) :
          p[k + 1] = IF list[k + 1] \in S THEN Append(p[k], list[k + 1]) ELSE p[k]
    /\ Picked(list, S) = p[Len(list)]

LEMMA PickedSteps ==
    ASSUME NEW A, NEW list \in Seq(A), NEW S
    PROVE  \E p : PicksBySteps(p, list, S, A)
<1> DEFINE n == Len(list)
           Take(l, x) == IF x \in S THEN Append(l, x) ELSE l
           Goes(h) == h = [D \in SUBSET (1..n) |->
                              IF D = {} THEN <<>> ELSE Take(h[D \ {Top(D)}], list[Top(D)])]
           F == CHOOSE h : Goes(h)
           step == [z \in (1..n) \X Seq(A) |-> Take(z[2], list[z[1]])]
<1>0. n \in Nat /\ DOMAIN list = 1..n /\ \A i \in 1..n : list[i] \in A
    OBVIOUS
<1>1. Picked(list, S) = F[1..n]
    BY <1>0 DEF Picked, FoldLeft, MapThenFoldSet, Top
<1>2. step \in [(1..n) \X Seq(A) -> Seq(A)]
  <2>1. \A i \in 1..n, l \in Seq(A) : Take(l, list[i]) \in Seq(A)
      BY <1>0
  <2> HIDE DEF Take
  <2> QED BY <2>1
<1>3. PICK g \in [SUBSET (1..n) -> Seq(A)] : \A D \in SUBSET (1..n) :
         g[D] = IF D = {} THEN <<>> ELSE step[<<Top(D), g[D \ {Top(D)}]>>]
  <2>1. <<>> \in Seq(A)
      OBVIOUS
  <2> HIDE DEF step
  <2>2. PICK g : Folds(g, n, Seq(A), <<>>, step)
      BY <1>0, <1>2, <2>1, FoldExists
  <2> QED BY <2>2 DEF Folds
<1>4. ASSUME NEW D \in SUBSET (1..n), D # {}
      PROVE  Top(D) \in 1..n /\ D \ {Top(D)} \in SUBSET (1..n)
    BY <1>0, <1>4, Topmost
<1>5. Goes(g)
  <2>1. ASSUME NEW D \in SUBSET (1..n)
        PROVE  g[D] = IF D = {} THEN <<>> ELSE Take(g[D \ {Top(D)}], list[Top(D)])
    <3>1. CASE D = {}
        BY <3>1, <1>3
    <3>2. CASE D # {}
      <4>1. <<Top(D), g[D \ {Top(D)}]>> \in (1..n) \X Seq(A)
          BY <3>2, <1>4
      <4>2. g[D] = step[<<Top(D), g[D \ {Top(D)}]>>]
        <5> HIDE DEF step
        <5> QED BY <3>2, <1>3
      <4> HIDE DEF Take
      <4>3. step[<<Top(D), g[D \ {Top(D)}]>>] = Take(g[D \ {Top(D)}], list[Top(D)])
          BY <4>1
      <4> QED BY <3>2, <4>2, <4>3
    <3> QED BY <3>1, <3>2
  <2> HIDE DEF Take
  <2> QED BY <2>1
<1>6. Goes(F)
  <2> HIDE DEF Goes
  <2> QED BY <1>5
<1> HIDE DEF F
<1>7. \A D \in SUBSET (1..n) :
         F[D] = IF D = {} THEN <<>> ELSE Take(F[D \ {Top(D)}], list[Top(D)])
  <2> HIDE DEF Take
  <2> QED BY <1>6
<1> DEFINE p == [k \in 0..n |-> F[1..k]]
<1>8. p[0] = <<>>
  <2>1. 1..0 = {} /\ {} \in SUBSET (1..n)
      OBVIOUS
  <2>2. F[{}] = <<>>
      BY <1>7, <2>1
  <2> QED BY <1>0, <2>1, <2>2
<1>9. ASSUME NEW k \in 0..(n - 1)
      PROVE  p[k + 1] = Take(p[k], list[k + 1])
  <2>1. /\ Top(1..(k + 1)) = k + 1 /\ (1..(k + 1)) \ {Top(1..(k + 1))} = 1..k
        /\ 1..(k + 1) \in SUBSET (1..n) /\ 1..(k + 1) # {}
    <3>1. k + 1 \in Nat \ {0} /\ (k + 1) - 1 = k
        BY <1>0
    <3>2. Top(1..(k + 1)) = k + 1 /\ (1..(k + 1)) \ {Top(1..(k + 1))} = 1..((k + 1) - 1)
        BY <3>1, TopOfInterval
    <3>3. k + 1 \in 1..(k + 1) /\ 1..(k + 1) \subseteq 1..n
        BY <1>0
    <3> QED BY <3>1, <3>2, <3>3
  <2>2. F[1..(k + 1)] = Take(F[1..k], list[k + 1])
    <3> HIDE DEF Take
    <3> QED BY <1>7, <2>1
  <2>3. p[k + 1] = F[1..(k + 1)] /\ p[k] = F[1..k]
      BY <1>0
  <2> HIDE DEF Take, p
  <2> QED BY <2>2, <2>3
<1>10. p[n] = F[1..n]
    BY <1>0
<1>11. p \in [0..n -> Seq(A)]
  <2> DEFINE G == {k \in 0..n : p[k] \in Seq(A)}
  <2>1. 0 \in G
    <3>1. <<>> \in Seq(A) /\ 0 \in 0..n
        BY <1>0
    <3> HIDE DEF p
    <3> QED BY <1>8, <3>1
  <2>2. ASSUME NEW k \in 0..(n - 1), k \in G
        PROVE  k + 1 \in G
    <3>1. p[k] \in Seq(A) /\ list[k + 1] \in A /\ k + 1 \in 0..n
        BY <1>0, <2>2
    <3>2. Take(p[k], list[k + 1]) \in Seq(A)
      <4> HIDE DEF p
      <4> QED BY <3>1
    <3> HIDE DEF Take, p
    <3> QED BY <1>9, <3>1, <3>2
  <2>3. 0..n \subseteq G
    <3> HIDE DEF G
    <3> QED BY <1>0, <2>1, <2>2, Climb
  <2>4. \A k \in 0..n : F[1..k] \in Seq(A)
      BY <2>3
  <2> QED BY <2>4
<1> HIDE DEF p
<1>12. PicksBySteps(p, list, S, A)
    BY <1>1, <1>8, <1>9, <1>10, <1>11 DEF PicksBySteps
<1> QED BY <1>12

\* What was picked from the first k elements of a list.
PickedUpto(l, list, S, A, k) ==
    /\ l \in Seq(A) /\ Len(l) <= k
    /\ \A j \in DOMAIN l : l[j] \in S /\ \E i \in 1..k : list[i] = l[j]
    /\ \A i \in 1..k : list[i] \in S => \E j \in DOMAIN l : l[j] = list[i]
    /\ (\A i, j \in 1..k : list[i] = list[j] => i = j)
         => (\A i, j \in DOMAIN l : l[i] = l[j] => i = j)

LEMMA PickOne ==
    ASSUME NEW A, NEW list \in Seq(A), NEW S, NEW k \in 0..(Len(list) - 1), NEW l,
           PickedUpto(l, list, S, A, k)
    PROVE  PickedUpto(IF list[k + 1] \in S THEN Append(l, list[k + 1]) ELSE l,
                      list, S, A, k + 1)
<1> DEFINE x == list[k + 1]
           m == Append(l, x)
<1>0. /\ k \in Nat /\ k + 1 \in 1..Len(list) /\ x \in A
      /\ 1..k \subseteq 1..(k + 1) /\ k + 1 \in 1..(k + 1)
      /\ \A i \in 1..(k + 1) : i \in 1..k \/ i = k + 1
    OBVIOUS
<1>1. /\ l \in Seq(A) /\ Len(l) <= k
      /\ \A j \in DOMAIN l : l[j] \in S /\ \E i \in 1..k : list[i] = l[j]
      /\ \A i \in 1..k : list[i] \in S => \E j \in DOMAIN l : l[j] = list[i]
      /\ (\A i, j \in 1..k : list[i] = list[j] => i = j)
           => (\A i, j \in DOMAIN l : l[i] = l[j] => i = j)
    BY DEF PickedUpto
<1> HIDE DEF x
<1>2. CASE x \in S
  <2>1. /\ m \in Seq(A) /\ Len(m) = Len(l) + 1 /\ Len(l) \in Nat
        /\ m[Len(l) + 1] = x /\ \A j \in DOMAIN l : j \in DOMAIN m /\ m[j] = l[j]
        /\ \A j \in DOMAIN m : j \in DOMAIN l \/ j = Len(l) + 1
        /\ Len(l) + 1 \in DOMAIN m /\ Len(l) + 1 \notin DOMAIN l
      BY <1>0, <1>1, SMTT(30)
  <2> HIDE DEF m
  <2>2. m \in Seq(A) /\ Len(m) <= k + 1
      BY <1>0, <1>1, <2>1
  <2>3. \A j \in DOMAIN m : m[j] \in S /\ \E i \in 1..(k + 1) : list[i] = m[j]
    <3> SUFFICES ASSUME NEW j \in DOMAIN m
                 PROVE  m[j] \in S /\ \E i \in 1..(k + 1) : list[i] = m[j]
        OBVIOUS
    <3>1. CASE j \in DOMAIN l
      <4>1. PICK i \in 1..k : list[i] = l[j]
          BY <1>1, <3>1
      <4> QED BY <1>0, <1>1, <2>1, <3>1, <4>1
    <3>2. CASE j = Len(l) + 1
      <4>1. m[j] = list[k + 1]
          BY <2>1, <3>2 DEF x
      <4> QED BY <1>0, <1>2, <4>1 DEF x
    <3> QED BY <2>1, <3>1, <3>2
  <2>4. \A i \in 1..(k + 1) : list[i] \in S => \E j \in DOMAIN m : m[j] = list[i]
    <3> SUFFICES ASSUME NEW i \in 1..(k + 1), list[i] \in S
                 PROVE  \E j \in DOMAIN m : m[j] = list[i]
        OBVIOUS
    <3>1. CASE i \in 1..k
      <4>1. PICK j \in DOMAIN l : l[j] = list[i]
          BY <1>1, <3>1
      <4> QED BY <2>1, <4>1
    <3>2. CASE i = k + 1
      <4>1. m[Len(l) + 1] = list[i]
          BY <2>1, <3>2 DEF x
      <4> QED BY <2>1, <4>1
    <3> QED BY <1>0, <3>1, <3>2
  <2>5. ASSUME \A i, j \in 1..(k + 1) : list[i] = list[j] => i = j
        PROVE  \A i, j \in DOMAIN m : m[i] = m[j] => i = j
    <3>1. \A i, j \in DOMAIN l : l[i] = l[j] => i = j
        BY <1>0, <1>1, <2>5
    <3>2. \A j \in DOMAIN l : l[j] # x
      <4> SUFFICES ASSUME NEW j \in DOMAIN l, l[j] = x PROVE FALSE
          OBVIOUS
      <4>1. PICK i \in 1..k : list[i] = l[j]
          BY <1>1
      <4>2. list[i] = list[k + 1] /\ i \in 1..(k + 1) /\ i # k + 1
          BY <1>0, <4>1 DEF x
      <4> QED BY <1>0, <2>5, <4>2
    <3> QED BY <2>1, <3>1, <3>2
  <2>6. PickedUpto(m, list, S, A, k + 1)
      BY <2>2, <2>3, <2>4, <2>5 DEF PickedUpto
  <2> QED BY <1>2, <2>6 DEF x, m
<1>3. CASE x \notin S
  <2>1. l \in Seq(A) /\ Len(l) <= k + 1
      BY <1>0, <1>1
  <2>2. \A j \in DOMAIN l : l[j] \in S /\ \E i \in 1..(k + 1) : list[i] = l[j]
      BY <1>0, <1>1
  <2>3. \A i \in 1..(k + 1) : list[i] \in S => \E j \in DOMAIN l : l[j] = list[i]
      BY <1>0, <1>1, <1>3 DEF x
  <2>4. (\A i, j \in 1..(k + 1) : list[i] = list[j] => i = j)
          => (\A i, j \in DOMAIN l : l[i] = l[j] => i = j)
      BY <1>0, <1>1
  <2>5. PickedUpto(l, list, S, A, k + 1)
      BY <2>1, <2>2, <2>3, <2>4 DEF PickedUpto
  <2> QED BY <1>3, <2>5 DEF x
<1> QED BY <1>2, <1>3

LEMMA PickedIs ==
    ASSUME NEW A, NEW list \in Seq(A), NEW S
    PROVE  PickedUpto(Picked(list, S), list, S, A, Len(list))
<1> DEFINE n == Len(list)
<1>0. n \in Nat
    OBVIOUS
<1>p0. PICK p : PicksBySteps(p, list, S, A)
    BY PickedSteps
<1>1. /\ p \in [0..n -> Seq(A)] /\ p[0] = <<>>
      /\ \A k \in 0..(n - 1) :
            p[k + 1] = IF list[k + 1] \in S THEN Append(p[k], list[k + 1]) ELSE p[k]
      /\ Picked(list, S) = p[n]
    BY <1>p0 DEF PicksBySteps
<1> DEFINE G == {k \in 0..n : PickedUpto(p[k], list, S, A, k)}
<1>2. 0 \in G
  <2>1. PickedUpto(<<>>, list, S, A, 0)
      BY DEF PickedUpto
  <2> QED BY <1>0, <1>1, <2>1
<1>3. ASSUME NEW k \in 0..(n - 1), k \in G
      PROVE  k + 1 \in G
  <2>1. PickedUpto(p[k + 1], list, S, A, k + 1)
      BY <1>1, <1>3, PickOne
  <2> QED BY <1>0, <2>1
<1>4. 0..n \subseteq G
  <2> HIDE DEF G
  <2> QED BY <1>0, <1>2, <1>3, Climb
<1> HIDE DEF n
<1> QED BY <1>0, <1>1, <1>4 DEF n

\* A list that goes through the first k elements of another, forwards.
Follows(l, list, k) ==
    \E at \in [DOMAIN l -> 1..k] :
        /\ \A i, j \in DOMAIN l : i < j => at[i] < at[j]
        /\ \A i \in DOMAIN l : l[i] = list[at[i]]

LEMMA FollowOne ==
    ASSUME NEW A, NEW list, NEW k \in Nat, NEW l \in Seq(A), Follows(l, list, k),
           list[k + 1] \in A
    PROVE  Follows(l, list, k + 1) /\ Follows(Append(l, list[k + 1]), list, k + 1)
<1> DEFINE n == Len(l)
           m == Append(l, list[k + 1])
<1>1. n \in Nat /\ DOMAIN l = 1..n /\ DOMAIN m = 1..(n + 1) /\ m[n + 1] = list[k + 1]
      /\ \A i \in 1..n : m[i] = l[i]
    OBVIOUS
<1>2. PICK at \in [1..n -> 1..k] :
         /\ \A i, j \in 1..n : i < j => at[i] < at[j]
         /\ \A i \in 1..n : l[i] = list[at[i]]
    BY <1>1 DEF Follows
<1> HIDE DEF m, n
<1>3. Follows(l, list, k + 1)
  <2>1. at \in [1..n -> 1..(k + 1)]
      BY <1>2
  <2> QED BY <1>1, <1>2, <2>1 DEF Follows
<1>4. Follows(m, list, k + 1)
  <2> DEFINE on == [i \in 1..(n + 1) |-> IF i = n + 1 THEN k + 1 ELSE at[i]]
  <2>1. on \in [1..(n + 1) -> 1..(k + 1)]
      BY <1>1, <1>2
  <2>2. \A i, j \in 1..(n + 1) : i < j => on[i] < on[j]
      BY <1>1, <1>2
  <2>3. \A i \in 1..(n + 1) : m[i] = list[on[i]]
      BY <1>1, <1>2
  <2> HIDE DEF on
  <2> QED BY <1>1, <2>1, <2>2, <2>3 DEF Follows
<1> QED BY <1>3, <1>4 DEF m

\* What is picked keeps the order of the list.
LEMMA PickedInOrder ==
    ASSUME NEW A, NEW list \in Seq(A), NEW S
    PROVE  Follows(Picked(list, S), list, Len(list))
<1> DEFINE n == Len(list)
<1>1. n \in Nat /\ \A i \in 1..n : list[i] \in A
    OBVIOUS
<1>2. PICK p : PicksBySteps(p, list, S, A)
    BY PickedSteps
<1>3. /\ p \in [0..n -> Seq(A)] /\ p[0] = <<>>
      /\ \A k \in 0..(n - 1) :
            p[k + 1] = IF list[k + 1] \in S THEN Append(p[k], list[k + 1]) ELSE p[k]
      /\ Picked(list, S) = p[n]
    BY <1>2 DEF PicksBySteps
<1> DEFINE G == {k \in 0..n : Follows(p[k], list, k)}
<1> HIDE DEF n
<1>4. 0 \in G
  <2>1. <<>> \in [DOMAIN <<>> -> 1..0] /\ DOMAIN <<>> = {}
      OBVIOUS
  <2>2. Follows(<<>>, list, 0)
      BY <2>1 DEF Follows
  <2> QED BY <1>1, <1>3, <2>2
<1>5. ASSUME NEW k \in 0..(n - 1), k \in G
      PROVE  k + 1 \in G
  <2>1. k \in Nat /\ k + 1 \in 1..n /\ p[k] \in Seq(A) /\ k + 1 \in 0..n
      BY <1>1, <1>3
  <2>2. Follows(p[k + 1], list, k + 1)
      BY <1>1, <1>3, <1>5, <2>1, FollowOne
  <2> QED BY <2>1, <2>2
<1>6. 0..n \subseteq G
  <2> HIDE DEF G
  <2> QED BY <1>1, <1>4, <1>5, Climb
<1> QED BY <1>1, <1>3, <1>6 DEF n
=============================================================================
