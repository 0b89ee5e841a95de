----------------------------- MODULE WireProofs -----------------------------
(***************************************************************************)
(* What reaches the program over the wire.                                 *)
(*                                                                         *)
(* The strict JSON decoder, for texts of any length and depth: it reads    *)
(* one token after the other and keeps a stack of what it is inside, while *)
(* its promise is about the text as a whole.  The stack is as high as the  *)
(* next token lies deep, and each of its entries stands for an opening     *)
(* token that nothing read since has closed, with the names of the members *)
(* that lie directly in it.                                                *)
(*                                                                         *)
(* The adapters of the three transports, for messages spoilt in any number *)
(* of ways one after the other: each fault leaves a trace in the message,  *)
(* the faults that follow keep it, and the adapter refuses a message in    *)
(* which it finds one.  A message that no one has spoilt is read back as   *)
(* what was meant: each component of a request has one parameter or member *)
(* of its name, or none, and that is read as what it was written from.     *)
(*                                                                         *)
(* Typed values: what is accepted has been written again.                  *)
(***************************************************************************)
EXTENDS StrictJSON, Transport, Values, CollectionsProofs, FiniteSetTheorems, TLAPS

-----------------------------------------------------------------------------
\* Depths.

LEMMA CountStep ==
    ASSUME NEW t, NEW kinds, NEW n \in Nat
    PROVE  /\ Count(t, kinds, n) \in Nat
           /\ Count(t, kinds, 0) = 0
           /\ Count(t, kinds, n + 1) = Count(t, kinds, n) + (IF Kind(t, n + 1) \in kinds THEN 1 ELSE 0)
<1> DEFINE Of(m) == {i \in 1..m : Kind(t, i) \in kinds}
<1>1. IsFiniteSet(Of(n)) /\ Cardinality(Of(n)) \in Nat
  <2>1. IsFiniteSet(1..n)  BY FS_Interval
  <2>2. Of(n) \in SUBSET (1..n)  OBVIOUS
  <2>3. IsFiniteSet(Of(n))  BY <2>1, <2>2, FS_Subset
  <2>4. QED  BY <2>3, FS_CardinalityType
<1>2. Of(0) = {}  OBVIOUS
<1>3. CASE Kind(t, n + 1) \in kinds
  <2>1. Of(n + 1) = Of(n) \cup {n + 1} /\ n + 1 \notin Of(n)  BY <1>3
  <2>2. Cardinality(Of(n + 1)) = Cardinality(Of(n)) + 1
    <3> HIDE DEF Of
    <3>1. Cardinality(Of(n) \cup {n + 1}) = Cardinality(Of(n)) + 1  BY <1>1, <2>1, FS_AddElement
    <3>2. QED  BY <2>1, <3>1
  <2>3. QED  BY <1>1, <1>2, <1>3, <2>2, FS_EmptySet DEF Count
<1>4. CASE Kind(t, n + 1) \notin kinds
  <2>1. Of(n + 1) = Of(n)  BY <1>4
  <2>2. QED  BY <1>1, <1>2, <1>4, <2>1, FS_EmptySet DEF Count
<1>5. QED  BY <1>3, <1>4

LEMMA LevelStep ==
    ASSUME NEW t, NEW i \in Nat \ {0}
    PROVE  /\ Level(t, i) \in Int
           /\ Level(t, 1) = 0
           /\ Kind(t, i) \in Opening => Level(t, i + 1) = Level(t, i) + 1
           /\ Kind(t, i) \in Closing => Level(t, i + 1) = Level(t, i) - 1
           /\ Kind(t, i) \notin Opening \cup Closing => Level(t, i + 1) = Level(t, i)
<1> DEFINE n == i - 1
<1>1. n \in Nat /\ n + 1 = i  OBVIOUS
<1> HIDE DEF n
<1>2. Opening \cap Closing = {}  BY DEF Opening, Closing
<1>3. \A kinds : /\ Count(t, kinds, n) \in Nat
                 /\ Count(t, kinds, 0) = 0
                 /\ Count(t, kinds, n + 1) = Count(t, kinds, n) + (IF Kind(t, n + 1) \in kinds THEN 1 ELSE 0)
  BY <1>1, CountStep
<1>4. /\ Level(t, i) = Count(t, Opening, n) - Count(t, Closing, n)
      /\ Level(t, i + 1) = Count(t, Opening, n + 1) - Count(t, Closing, n + 1)
  <2>1. i - 1 = n /\ (i + 1) - 1 = n + 1  BY <1>1
  <2>2. QED  BY <2>1 DEF Level
<1>5. Level(t, 1) = Count(t, Opening, 0) - Count(t, Closing, 0)  
  <2>1. 1 - 1 = 0 OBVIOUS
  <2>2. QED  BY <2>1 DEF Level
<1>6. QED  BY <1>1, <1>2, <1>3, <1>4, <1>5

\* No token lies above the root.
LEMMA LevelsAreNat ==
    ASSUME NEW t, IsTokens(t), NEW i \in 1..(Len(t) + 1)
    PROVE  Level(t, i) \in Nat
<1>1. t \in Seq(Range(t))  BY DEF IsTokens
<1>2. Len(t) \in Nat /\ DOMAIN t = 1..Len(t)  BY <1>1
<1>3. Level(t, i) \in Int /\ Level(t, 1) = 0  BY <1>2, LevelStep
<1>4. CASE i = 1  BY <1>3, <1>4
<1>5. CASE i # 1
  <2>1. i - 1 \in DOMAIN t /\ (i - 1) + 1 = i  BY <1>2, <1>5
  <2>2. Level(t, i) >= 0  BY <2>1 DEF IsTokens
  <2>3. QED  BY <1>3, <2>2
<1>6. QED  BY <1>4, <1>5

-----------------------------------------------------------------------------
\* The stack.

\* The opening token at k is the d-th of those that no token before n has closed.
Encloses(k, d, n) ==
    /\ k \in 1..(n - 1) /\ Kind(text, k) \in Opening /\ Level(text, k) = d - 1
    /\ \A m \in (k + 1)..n : Level(text, m) >= d

\* The names of the members from k on and before n that lie d deep.
NamesFrom(k, d, n) ==
    {text[i][2] : i \in {j \in (k + 1)..(n - 1) : Kind(text, j) = "member" /\ Level(text, j) = d}}

AllNames == UNION {{t[i][2] : i \in DOMAIN t} : t \in Texts}
StackEntries  == [kind : Opening, seen : SUBSET AllNames]

StrictTypeOK == /\ text \in Texts /\ size \in Sizes
         /\ next \in 1..(Len(text) + 1)
         /\ stack \in Seq(StackEntries)
         /\ wants \in BOOLEAN

Framed == /\ Len(stack) = Level(text, next) /\ Len(stack) <= MaxDepth
          /\ \A d \in 1..Len(stack) : \E k \in 1..(next - 1) :
                Encloses(k, d, next) /\ stack[d] = [kind |-> Kind(text, k), seen |-> NamesFrom(k, d, next)]

\* A value is due exactly where the text has one.
Due == /\ wants /\ next <= Len(text) => IsValue(text, next)
       /\ wants /\ stack = <<>> => next = 1
       /\ ~wants => next > 1 /\ Kind(text, next - 1) # "member"

\* What has been read so far.
ReadSoFar ==
    /\ \A i \in 1..(next - 1) : IsValue(text, i) => Level(text, i) < MaxDepth /\ (i > 1 => Level(text, i) > 0)
    /\ \A i, j \in 1..(next - 1) :
          i < j /\ Kind(text, i) = "member" /\ text[i] = text[j] => ~SameObject(text, i, j)

SizeHolds == result = "validating" => size.bytes \in 1..size.limit

Judged == /\ target # "untouched" \/ result = "decoding" => Strict
          /\ result = "error" /\ target = "untouched" => ~Strict

StrictInv == StrictTypeOK /\ Framed /\ Due /\ ReadSoFar /\ SizeHolds /\ Judged

-----------------------------------------------------------------------------
LEMMA TextFacts ==
    ASSUME StrictTypeOK
    PROVE  /\ IsTokens(text) /\ Len(text) \in Nat /\ DOMAIN text = 1..Len(text)
           /\ MaxDepth \in Nat \ {0} /\ size.bytes \in Nat /\ size.limit \in Nat
           /\ next \in Nat \ {0}
           /\ \A i \in 1..(Len(text) + 1) : Level(text, i) \in Nat
           /\ Level(text, 1) = 0
<1>1. /\ IsTokens(text) /\ MaxDepth \in Nat \ {0} /\ size.bytes \in Nat /\ size.limit \in Nat
  BY StrictAssumption DEF StrictTypeOK
<1>2. text \in Seq(Range(text))  BY <1>1 DEF IsTokens
<1>3. Len(text) \in Nat /\ DOMAIN text = 1..Len(text)  BY <1>2
<1>4. Level(text, 1) = 0  BY LevelStep
<1>5. \A i \in 1..(Len(text) + 1) : Level(text, i) \in Nat  BY <1>1, LevelsAreNat
<1>6. QED  BY <1>1, <1>3, <1>4, <1>5 DEF StrictTypeOK

\* The kinds of token there are, and what reading one does to the depth.
LEMMA Token ==
    ASSUME StrictTypeOK, NEW i \in 1..Len(text)
    PROVE  /\ Kind(text, i) \in Opening \cup Closing \cup {"scalar", "member"}
           /\ Kind(text, i) = "member" => text[i] = <<"member", text[i][2]>>
           /\ i + 1 \in 1..(Len(text) + 1)
           /\ Kind(text, i) \in Opening => Level(text, i + 1) = Level(text, i) + 1
           /\ Kind(text, i) \in Closing => Level(text, i + 1) = Level(text, i) - 1
           /\ Kind(text, i) \notin Opening \cup Closing => Level(text, i + 1) = Level(text, i)
<1>1. /\ IsTokens(text) /\ Len(text) \in Nat /\ DOMAIN text = 1..Len(text)  BY TextFacts
<1>2. i \in DOMAIN text /\ i \in Nat \ {0}  BY <1>1
<1>3. \/ text[i] \in {<<k>> : k \in Opening \cup Closing \cup {"scalar"}}
      \/ text[i] = <<"member", text[i][2]>>
  BY <1>1, <1>2 DEF IsTokens
<1>4. /\ Kind(text, i) \in Opening \cup Closing \cup {"scalar", "member"}
      /\ Kind(text, i) = "member" => text[i] = <<"member", text[i][2]>>
  <2>1. CASE text[i] = <<"member", text[i][2]>>
    <3>1. text[i][1] = "member"  BY <2>1
    <3>2. QED  BY <2>1, <3>1 DEF Kind
  <2>2. CASE text[i] \in {<<k>> : k \in Opening \cup Closing \cup {"scalar"}}
    <3>1. PICK k \in Opening \cup Closing \cup {"scalar"} : text[i] = <<k>>  BY <2>2
    <3>2. Kind(text, i) = k  BY <3>1 DEF Kind
    <3>3. k # "member"  BY DEF Opening, Closing
    <3>4. QED  BY <3>2, <3>3
  <2>3. QED  BY <1>3, <2>1, <2>2
<1>5. QED  BY <1>1, <1>2, <1>4, LevelStep

\* The last entry of the stack holds the next token.
LEMMA InsideOf ==
    ASSUME StrictTypeOK, Framed, stack # <<>>
    PROVE  /\ Len(stack) \in 1..MaxDepth
           /\ Last(stack) = stack[Len(stack)]
           /\ \E k \in 1..(next - 1) :
                 /\ Encloses(k, Len(stack), next) /\ Holds(text, k, next)
                 /\ stack[Len(stack)] = [kind |-> Kind(text, k), seen |-> NamesFrom(k, Len(stack), next)]
<1>1. Len(stack) \in Nat /\ Len(stack) > 0 /\ MaxDepth \in Nat  BY TextFacts DEF StrictTypeOK
<1>2. Len(stack) \in 1..MaxDepth  BY <1>1 DEF Framed
<1>3. PICK k \in 1..(next - 1) :
         /\ Encloses(k, Len(stack), next)
         /\ stack[Len(stack)] = [kind |-> Kind(text, k), seen |-> NamesFrom(k, Len(stack), next)]
  BY <1>1 DEF Framed
<1>4. Holds(text, k, next)
  <2>1. Level(text, next) = Len(stack) /\ Level(text, k) = Len(stack) - 1  BY <1>3 DEF Framed, Encloses
  <2>2. \A m \in (k + 1)..next : Level(text, m) \in Nat /\ Level(text, m) >= Len(stack)
    <3>1. next <= Len(text) + 1 /\ next \in Nat /\ Len(text) \in Nat  BY TextFacts DEF StrictTypeOK
    <3>2. \A m \in (k + 1)..next : m \in 1..(Len(text) + 1)  BY <3>1
    <3>3. QED  BY <3>2, <1>3, TextFacts DEF Encloses
  <2>3. k < next  BY TextFacts
  <2>4. QED  BY <1>1, <1>3, <2>1, <2>2, <2>3 DEF Holds, Encloses
<1>5. Last(stack) = stack[Len(stack)]  BY DEF Last
<1>6. QED  BY <1>2, <1>3, <1>4, <1>5

\* What the next token can be, from where it lies.
LEMMA NextToken ==
    ASSUME StrictTypeOK, Framed, next <= Len(text)
    PROVE  /\ Kind(text, next) = "member" => stack # <<>> /\ Last(stack).kind = "{"
           /\ stack = <<>> => IsValue(text, next)
           /\ stack # <<>> /\ Last(stack).kind = "{" /\ IsValue(text, next) => Kind(text, next - 1) = "member"
<1>1. next \in 1..Len(text) /\ next \in DOMAIN text /\ IsTokens(text)  BY TextFacts DEF StrictTypeOK
<1>2. Level(text, next) = Len(stack) /\ Len(stack) \in Nat  BY DEF Framed, StrictTypeOK
<1>3. /\ Kind(text, next) = "member" => \E k \in 1..(next - 1) : Holds(text, k, next)
      /\ \A k \in 1..(next - 1) : Holds(text, k, next) =>
            /\ Kind(text, next) = "member" => Kind(text, k) = "{"
            /\ Kind(text, k) = "{" /\ IsValue(text, next) => Kind(text, next - 1) = "member"
  BY <1>1 DEF IsTokens
<1>4. ASSUME stack # <<>>
      PROVE  /\ Kind(text, next) = "member" => Last(stack).kind = "{"
             /\ Last(stack).kind = "{" /\ IsValue(text, next) => Kind(text, next - 1) = "member"
  <2>1. PICK k \in 1..(next - 1) :
           /\ Holds(text, k, next)
           /\ stack[Len(stack)] = [kind |-> Kind(text, k), seen |-> NamesFrom(k, Len(stack), next)]
    BY <1>4, InsideOf
  <2>2. Last(stack).kind = Kind(text, k)  BY <1>4, <2>1, InsideOf
  <2>3. QED  BY <2>1, <2>2, <1>3
<1>5. ASSUME Kind(text, next) = "member" PROVE stack # <<>>
  <2>1. PICK k \in 1..(next - 1) : Holds(text, k, next)  BY <1>3, <1>5
  <2>2. k \in 1..(Len(text) + 1)  BY TextFacts, <1>1
  <2>3. Level(text, k) \in Nat /\ Len(stack) = Level(text, k) + 1  BY <1>2, <2>1, <2>2, TextFacts DEF Holds
  <2>4. QED  BY <2>3
<1>6. ASSUME Kind(text, next) \in Closing PROVE stack # <<>>
  <2>1. next + 1 \in 1..(Len(text) + 1) /\ Level(text, next + 1) = Level(text, next) - 1
    BY <1>1, <1>6, Token
  <2>2. Level(text, next + 1) \in Nat  BY <2>1, TextFacts
  <2>3. QED  BY <1>2, <2>1, <2>2
<1>7. QED  BY <1>4, <1>5, <1>6 DEF IsValue

\* What reading a token does to an entry that stays.
LEMMA EntryStays ==
    ASSUME StrictTypeOK, next <= Len(text), NEW d \in Nat, NEW k, Encloses(k, d, next), Level(text, next + 1) >= d
    PROVE  /\ Encloses(k, d, next + 1)
           /\ NamesFrom(k, d, next + 1) = NamesFrom(k, d, next) \cup
                 (IF Kind(text, next) = "member" /\ Level(text, next) = d THEN {text[next][2]} ELSE {})
<1>1. next \in Nat \ {0} /\ k \in 1..(next - 1)  BY TextFacts DEF Encloses
<1>2. Encloses(k, d, next + 1)
  <2>1. \A m \in (k + 1)..(next + 1) : m \in (k + 1)..next \/ m = next + 1  BY <1>1
  <2>2. k \in 1..((next + 1) - 1)  BY <1>1
  <2>3. QED  BY <2>1, <2>2 DEF Encloses
<1>3. (k + 1)..((next + 1) - 1) = ((k + 1)..(next - 1)) \cup {next}  BY <1>1
<1>4. QED  BY <1>2, <1>3 DEF NamesFrom

-----------------------------------------------------------------------------
LEMMA InitHolds == JInit => StrictInv
<1> SUFFICES ASSUME JInit PROVE StrictInv  OBVIOUS
<1>1. /\ text \in Texts /\ size \in Sizes /\ next = 1 /\ stack = <<>> /\ wants = TRUE
      /\ target = "untouched" /\ result = "size"
  BY DEF JInit
<1>2. StrictTypeOK
  <2>1. IsTokens(text)  BY <1>1, StrictAssumption
  <2>2. text \in Seq(Range(text))  BY <2>1 DEF IsTokens
  <2>3. Len(text) \in Nat  BY <2>2
  <2>4. next \in 1..(Len(text) + 1)  BY <1>1, <2>3
  <2>5. QED  BY <1>1, <2>4 DEF StrictTypeOK
<1>3. Framed
  <2>1. Len(stack) = 0  BY <1>1
  <2>2. Level(text, next) = 0 /\ MaxDepth \in Nat  BY <1>1, <1>2, TextFacts
  <2>3. QED  BY <2>1, <2>2 DEF Framed
<1>4. Due  BY <1>1, <1>2, <1>3, NextToken DEF Due
<1>5. ReadSoFar  BY <1>1 DEF ReadSoFar
<1>6. QED  BY <1>1, <1>2, <1>3, <1>4, <1>5 DEF StrictInv, SizeHolds, Judged

\* The text is not written to, so that a position means the same after a step.
LEMMA SamePlaces ==
    ASSUME text' = text, NEW k, NEW d, NEW n
    PROVE  Encloses(k, d, n)' = Encloses(k, d, n) /\ NamesFrom(k, d, n)' = NamesFrom(k, d, n)
<1>1. Encloses(k, d, n)' = Encloses(k, d, n)  BY DEF Encloses
<1>2. NamesFrom(k, d, n)' = NamesFrom(k, d, n)  BY DEF NamesFrom
<1>3. QED  BY <1>1, <1>2

LEMMA PositionKept ==
    ASSUME StrictInv, UNCHANGED <<text, size, next, stack>>, wants' \in BOOLEAN
    PROVE  StrictTypeOK' /\ Framed' /\ (wants' = wants => Due') /\ ReadSoFar' /\ (Strict' <=> Strict)
<1>1. text' = text /\ size' = size /\ next' = next /\ stack' = stack  OBVIOUS
<1>2. StrictTypeOK' /\ (wants' = wants => Due') /\ ReadSoFar'
  BY <1>1 DEF StrictInv, StrictTypeOK, Due, ReadSoFar
<1>3. Framed'
  <2>1. Framed  BY DEF StrictInv
  <2>2. ASSUME NEW d \in 1..Len(stack)
        PROVE  \E k \in 1..(next - 1) :
                  Encloses(k, d, next)' /\ stack[d] = [kind |-> Kind(text, k), seen |-> NamesFrom(k, d, next)']
    <3>1. PICK k \in 1..(next - 1) :
             Encloses(k, d, next) /\ stack[d] = [kind |-> Kind(text, k), seen |-> NamesFrom(k, d, next)]
      BY <2>1 DEF Framed
    <3>2. QED  BY <1>1, <3>1, SamePlaces
  <2>3. QED  BY <1>1, <2>1, <2>2 DEF Framed
<1>4. Strict' <=> Strict
  BY <1>1 DEF Strict, OneValue, Shallow, Unique
<1>5. QED  BY <1>2, <1>3, <1>4

\* Failing leaves the position alone: what is due is that the text is not strict.
LEMMA FailsHolds ==
    ASSUME StrictInv, Fails, UNCHANGED <<text, size>>, ~Strict
    PROVE  StrictInv'
<1>1. result' = "error" /\ UNCHANGED <<text, size, next, stack, wants, target>>  BY DEF Fails
<1>2. StrictTypeOK' /\ Framed' /\ Due' /\ ReadSoFar' /\ ~Strict'
  BY <1>1, PositionKept DEF StrictInv, StrictTypeOK
<1>3. SizeHolds' /\ Judged'
  BY <1>1, <1>2 DEF StrictInv, SizeHolds, Judged
<1>4. QED  BY <1>2, <1>3 DEF StrictInv

LEMMA CheckSizeHolds == ASSUME StrictInv, CheckSize PROVE StrictInv'
<1>1. StrictTypeOK /\ Judged /\ size.bytes \in Nat /\ size.limit \in Nat  BY TextFacts DEF StrictInv
<1>2. CASE size.bytes = 0 \/ size.bytes > size.limit
  <2>1. Fails /\ UNCHANGED <<text, size>>  BY <1>2 DEF CheckSize
  <2>2. ~Strict  BY <1>1, <1>2 DEF Strict
  <2>3. QED  BY <2>1, <2>2, FailsHolds
<1>3. CASE ~(size.bytes = 0 \/ size.bytes > size.limit)
  <2>1. result' = "validating" /\ UNCHANGED <<text, size, next, stack, wants, target>>
    BY <1>3 DEF CheckSize
  <2>2. StrictTypeOK' /\ Framed' /\ Due' /\ ReadSoFar' /\ (Strict' <=> Strict)
    BY <1>1, <2>1, PositionKept DEF StrictTypeOK
  <2>3. size.bytes \in 1..size.limit  BY <1>1, <1>3
  <2>4. SizeHolds' /\ Judged'  BY <1>1, <2>1, <2>2, <2>3 DEF SizeHolds, Judged
  <2>5. QED  BY <2>2, <2>4 DEF StrictInv
<1>4. QED  BY <1>2, <1>3

LEMMA ItemHolds == ASSUME StrictInv, Item PROVE StrictInv'
<1>1. StrictTypeOK /\ Framed /\ Due /\ ReadSoFar /\ SizeHolds /\ Judged  BY DEF StrictInv
<1>2. /\ stack # <<>> /\ Last(stack).kind = "[" /\ ~AtEnd /\ Kind(text, next) \notin Closing
      /\ wants' = TRUE /\ UNCHANGED <<text, size, next, stack, target, result>>
  BY DEF Item, More, Here
<1>3. next <= Len(text)  BY <1>1, <1>2, TextFacts DEF AtEnd
<1>4. IsValue(text, next)  BY <1>1, <1>2, <1>3, NextToken DEF IsValue
<1>5. Due'  BY <1>2, <1>4 DEF Due
<1>6. StrictTypeOK' /\ Framed' /\ ReadSoFar' /\ (Strict' <=> Strict)  BY <1>2, PositionKept
<1>7. SizeHolds' /\ Judged'  BY <1>1, <1>2, <1>6 DEF SizeHolds, Judged
<1>8. QED  BY <1>5, <1>6, <1>7 DEF StrictInv

-----------------------------------------------------------------------------
\* Reading a token.

LEMMA ReadOn ==
    ASSUME StrictInv, next <= Len(text), result = "validating",
           next' = next + 1, UNCHANGED <<text, size, target, result>>,
           IsValue(text, next) => Level(text, next) < MaxDepth /\ (next > 1 => Level(text, next) > 0),
           \A i \in 1..(next - 1) :
              Kind(text, next) = "member" /\ text[i] = text[next] => ~SameObject(text, i, next),
           stack' \in Seq(StackEntries), wants' \in BOOLEAN, Framed', Due'
    PROVE  StrictInv'
<1>1. StrictTypeOK /\ ReadSoFar /\ SizeHolds /\ Judged  BY DEF StrictInv
<1>2. next \in Nat \ {0} /\ Len(text) \in Nat /\ text' = text  BY <1>1, TextFacts
<1>3. StrictTypeOK'  BY <1>1, <1>2 DEF StrictTypeOK
<1>4. ReadSoFar'
  <2>1. \A i \in 1..(next' - 1) : i \in 1..(next - 1) \/ i = next  BY <1>2
  <2>2. \A i \in 1..(next' - 1) : IsValue(text, i) => Level(text, i) < MaxDepth /\ (i > 1 => Level(text, i) > 0)
    BY <1>1, <2>1 DEF ReadSoFar
  <2>3. ASSUME NEW i \in 1..(next' - 1), NEW j \in 1..(next' - 1),
               i < j, Kind(text, i) = "member", text[i] = text[j]
        PROVE  ~SameObject(text, i, j)
    <3>1. i \in 1..(next - 1)  BY <1>2, <2>1, <2>3
    <3>2. CASE j \in 1..(next - 1)  BY <1>1, <2>3, <3>1, <3>2 DEF ReadSoFar
    <3>3. CASE j = next
      <4>1. Kind(text, next) = "member"  BY <2>3, <3>3 DEF Kind
      <4>2. QED  BY <2>3, <3>1, <3>3, <4>1
    <3>4. QED  BY <2>1, <3>2, <3>3
  <2>4. QED  BY <1>2, <2>2, <2>3 DEF ReadSoFar
<1>5. SizeHolds' /\ Judged'
  BY <1>1 DEF SizeHolds, Judged, Strict, OneValue, Shallow, Unique
<1>6. QED  BY <1>3, <1>4, <1>5 DEF StrictInv

\* A text that holds one value closes all it opens.
LEMMA OneValueEnds ==
    ASSUME StrictTypeOK, OneValue
    PROVE  Len(text) > 0 /\ Level(text, Len(text) + 1) = 0
<1>1. Len(text) \in Nat /\ (Len(text) + 1) - 1 = Len(text)  BY TextFacts
<1>2. Count(text, Opening, Len(text)) \in Nat  BY <1>1, CountStep
<1>3. QED  BY <1>1, <1>2 DEF OneValue, Level

\* The entries that stay when a token is read, and what it adds to the last one.
LEMMA FrameStays ==
    ASSUME StrictTypeOK, Framed, next <= Len(text), text' = text, next' = next + 1,
           NEW d \in 1..Len(stack), Level(text, next + 1) >= d,
           NEW added, added = IF Kind(text, next) = "member" /\ d = Len(stack) THEN {text[next][2]} ELSE {}
    PROVE  \E k \in 1..(next' - 1) :
              /\ Encloses(k, d, next)'
              /\ [kind |-> stack[d].kind, seen |-> stack[d].seen \cup added]
                    = [kind |-> Kind(text, k), seen |-> NamesFrom(k, d, next)']
<1>1. PICK k \in 1..(next - 1) :
         Encloses(k, d, next) /\ stack[d] = [kind |-> Kind(text, k), seen |-> NamesFrom(k, d, next)]
  BY DEF Framed
<1>2. Len(stack) \in Nat /\ Level(text, next) = Len(stack) /\ next \in Nat \ {0}
  BY TextFacts DEF StrictTypeOK, Framed
<1>3. d \in Nat  BY <1>2
<1>4. /\ Encloses(k, d, next + 1)
      /\ NamesFrom(k, d, next + 1) = NamesFrom(k, d, next) \cup
            (IF Kind(text, next) = "member" /\ d = Len(stack) THEN {text[next][2]} ELSE {})
  BY <1>1, <1>2, <1>3, EntryStays
<1>5. Encloses(k, d, next)' = Encloses(k, d, next + 1) /\ NamesFrom(k, d, next)' = NamesFrom(k, d, next + 1)
  <2>1. Encloses(k, d, next)' = Encloses(k, d, next + 1)  BY DEF Encloses
  <2>2. NamesFrom(k, d, next)' = NamesFrom(k, d, next + 1)  BY DEF NamesFrom
  <2>3. QED  BY <2>1, <2>2
<1>6. stack[d].kind = Kind(text, k) /\ stack[d].seen \cup added = NamesFrom(k, d, next + 1)  BY <1>1, <1>4
<1>7. k \in 1..(next' - 1)  BY <1>2
<1>8. QED  BY <1>4, <1>5, <1>6, <1>7

LEMMA ValueFails == ASSUME StrictInv, Value, Depth > MaxDepth \/ AtEnd PROVE ~Strict
<1>1. StrictTypeOK /\ Framed /\ Due /\ wants  BY DEF StrictInv, Value
<1>2. /\ Len(stack) = Level(text, next) /\ Len(stack) \in Nat /\ Len(text) \in Nat
      /\ next \in 1..(Len(text) + 1) /\ MaxDepth \in Nat
  BY <1>1, TextFacts DEF StrictTypeOK, Framed
<1>3. CASE AtEnd
  <2>1. next = Len(text) + 1  BY <1>2, <1>3 DEF AtEnd
  <2>2. SUFFICES ASSUME OneValue PROVE FALSE  BY DEF Strict
  <2>3. Len(stack) = 0 /\ Len(text) > 0  BY <1>1, <1>2, <2>1, <2>2, OneValueEnds
  <2>4. stack = <<>>  BY <1>1, <2>3 DEF StrictTypeOK
  <2>5. QED  BY <1>1, <1>2, <2>1, <2>3, <2>4 DEF Due
<1>4. CASE ~AtEnd
  <2>1. Depth > MaxDepth /\ next \in DOMAIN text /\ next <= Len(text)
    BY <1>1, <1>2, <1>4, TextFacts DEF AtEnd
  <2>2. IsValue(text, next)  BY <1>1, <2>1 DEF Due
  <2>3. ~(Level(text, next) < MaxDepth)  BY <1>2, <2>1 DEF Depth
  <2>4. QED  BY <2>1, <2>2, <2>3 DEF Strict, Shallow
<1>5. QED  BY <1>3, <1>4

LEMMA ValueHolds == ASSUME StrictInv, Value PROVE StrictInv'
<1>1. CASE Depth > MaxDepth \/ AtEnd
  <2>1. Fails /\ UNCHANGED <<text, size>>  BY <1>1 DEF Value
  <2>2. QED  BY <1>1, <2>1, ValueFails, FailsHolds
<1>2. CASE ~(Depth > MaxDepth \/ AtEnd)
  <2>1. StrictTypeOK /\ Framed /\ Due  BY DEF StrictInv
  <2>2. /\ stack' = IF Here \in Opening THEN Append(stack, Inside) ELSE stack
        /\ wants' = FALSE /\ next' = next + 1 /\ UNCHANGED <<text, size, target, result>>
        /\ result = "validating" /\ wants
    BY <1>2 DEF Value
  <2>3. /\ Len(stack) = Level(text, next) /\ Len(stack) \in Nat /\ Len(text) \in Nat
        /\ next \in Nat \ {0} /\ MaxDepth \in Nat
    BY <2>1, TextFacts DEF StrictTypeOK, Framed
  <2>4. next <= Len(text) /\ next \in 1..Len(text) /\ Len(stack) + 1 <= MaxDepth
    BY <1>2, <2>3 DEF AtEnd, Depth
  <2>5. IsValue(text, next)  BY <2>1, <2>2, <2>4 DEF Due
  <2>6. Kind(text, next) # "member" /\ Kind(text, next) \notin Closing  BY <2>5 DEF IsValue
  <2>7. Level(text, next) < MaxDepth /\ (next > 1 => Level(text, next) > 0)
    <3>1. next > 1 => stack # <<>>  BY <2>1, <2>2 DEF Due
    <3>2. stack # <<>> => Len(stack) > 0  BY <2>1, <2>3 DEF StrictTypeOK
    <3>3. QED  BY <2>3, <2>4, <3>1, <3>2
  <2>8. Due'  BY <2>2, <2>3, <2>6 DEF Due
  <2>9. CASE Here \in Opening
    <3>1. Level(text, next + 1) = Len(stack) + 1  BY <2>1, <2>3, <2>4, <2>9, Token DEF Here
    <3>2. stack' = Append(stack, Inside) /\ Inside \in StackEntries  BY <2>2, <2>9 DEF Inside, StackEntries
    <3>3. /\ stack' \in Seq(StackEntries) /\ Len(stack') = Len(stack) + 1
          /\ stack'[Len(stack) + 1] = Inside /\ \A d \in 1..Len(stack) : stack'[d] = stack[d]
      BY <2>1, <3>2 DEF StrictTypeOK
    <3>4. ASSUME NEW d \in 1..Len(stack')
          PROVE  \E k \in 1..(next' - 1) :
                    Encloses(k, d, next)' /\ stack'[d] = [kind |-> Kind(text, k), seen |-> NamesFrom(k, d, next)']
      <4>1. CASE d = Len(stack) + 1
        <5>1. PICK k : k = next  OBVIOUS
        <5>2. Encloses(k, d, next)'
          <6>1. \A m \in (k + 1)..(next + 1) : Level(text, m) >= d  BY <2>3, <3>1, <4>1, <5>1
          <6>2. Level(text, k) = d - 1 /\ k \in 1..((next + 1) - 1)  BY <2>3, <4>1, <5>1
          <6>3. QED  BY <2>2, <2>9, <5>1, <6>1, <6>2 DEF Encloses, Here
        <5>3. NamesFrom(k, d, next)' = {}
          <6>1. (k + 1)..((next + 1) - 1) = {}  BY <2>3, <5>1
          <6>2. QED  BY <2>2, <6>1 DEF NamesFrom
        <5>4. stack'[d] = [kind |-> Kind(text, k), seen |-> {}]  BY <3>3, <4>1, <5>1 DEF Inside, Here
        <5>5. k \in 1..(next' - 1)  BY <2>2, <2>3, <5>1
        <5>6. QED  BY <5>2, <5>3, <5>4, <5>5
      <4>2. CASE d # Len(stack) + 1
        <5>1. d \in 1..Len(stack) /\ Level(text, next + 1) >= d  BY <2>3, <3>1, <3>3, <4>2
        <5>2. PICK k \in 1..(next' - 1) :
                 /\ Encloses(k, d, next)'
                 /\ [kind |-> stack[d].kind, seen |-> stack[d].seen \cup {}]
                       = [kind |-> Kind(text, k), seen |-> NamesFrom(k, d, next)']
          BY <2>1, <2>2, <2>4, <2>6, <5>1, FrameStays
        <5>3. stack[d] \in StackEntries  BY <2>1, <5>1 DEF StrictTypeOK
        <5>4. stack[d] = [kind |-> stack[d].kind, seen |-> stack[d].seen \cup {}]  BY <5>3 DEF StackEntries
        <5>5. QED  BY <3>3, <5>1, <5>2, <5>4
      <4>3. QED  BY <4>1, <4>2
    <3>5. Len(stack)' = Level(text, next)' /\ Len(stack)' <= MaxDepth  BY <2>2, <2>4, <3>1, <3>3
    <3>6. Framed'  BY <2>2, <3>4, <3>5 DEF Framed
    <3>7. QED  BY <2>2, <2>4, <2>6, <2>7, <2>8, <3>3, <3>6, ReadOn
  <2>10. CASE Here \notin Opening
    <3>1. Level(text, next + 1) = Len(stack)  BY <2>1, <2>3, <2>4, <2>6, <2>10, Token DEF Here
    <3>2. stack' = stack /\ stack \in Seq(StackEntries)  BY <2>1, <2>2, <2>10 DEF StrictTypeOK
    <3>3. ASSUME NEW d \in 1..Len(stack)
          PROVE  \E k \in 1..(next' - 1) :
                    Encloses(k, d, next)' /\ stack[d] = [kind |-> Kind(text, k), seen |-> NamesFrom(k, d, next)']
      <4>1. Level(text, next + 1) >= d  BY <2>3, <3>1
      <4>2. PICK k \in 1..(next' - 1) :
               /\ Encloses(k, d, next)'
               /\ [kind |-> stack[d].kind, seen |-> stack[d].seen \cup {}]
                     = [kind |-> Kind(text, k), seen |-> NamesFrom(k, d, next)']
        BY <2>1, <2>2, <2>4, <2>6, <4>1, FrameStays
      <4>3. stack[d] \in StackEntries  BY <3>2
      <4>4. stack[d] = [kind |-> stack[d].kind, seen |-> stack[d].seen \cup {}]  BY <4>3 DEF StackEntries
      <4>5. QED  BY <4>2, <4>4
    <3>4. Len(stack)' = Level(text, next)' /\ Len(stack)' <= MaxDepth  BY <2>2, <2>3, <2>4, <3>1, <3>2
    <3>5. Framed'  BY <2>2, <3>2, <3>3, <3>4 DEF Framed
    <3>6. QED  BY <2>2, <2>4, <2>6, <2>7, <2>8, <3>2, <3>5, ReadOn
  <2>11. QED  BY <2>9, <2>10
<1>3. QED  BY <1>1, <1>2

LEMMA MemberHolds == ASSUME StrictInv, Member PROVE StrictInv'
<1>0. PICK name, top : name = text[next][2] /\ top = Len(stack)  OBVIOUS
<1>1. StrictTypeOK /\ Framed /\ Due  BY DEF StrictInv
<1>2. /\ result = "validating" /\ ~wants /\ stack # <<>> /\ Last(stack).kind = "{"
      /\ ~AtEnd /\ Kind(text, next) \notin Closing /\ UNCHANGED <<text, size>>
  BY DEF Member, More, Here
<1>3. /\ Len(stack) = Level(text, next) /\ Len(text) \in Nat /\ DOMAIN text = 1..Len(text)
      /\ next \in Nat \ {0} /\ MaxDepth \in Nat
  BY <1>1, TextFacts DEF StrictTypeOK, Framed
<1>4. next <= Len(text) /\ next \in DOMAIN text
  <2>1. ~(next > Len(text))  BY <1>2 DEF AtEnd
  <2>2. QED  BY <1>3, <2>1
<1>5. Kind(text, next) = "member"
  <2>1. ~IsValue(text, next)  BY <1>1, <1>2, <1>4, NextToken DEF Due
  <2>2. QED  BY <1>2, <2>1 DEF IsValue
<1>6. text[next] = <<"member", name>> /\ ~IsValue(text, next) /\ Level(text, next + 1) = Len(stack)
  <2>1. Kind(text, next) \notin Opening \cup Closing  BY <1>5 DEF Opening, Closing
  <2>2. QED  BY <1>1, <1>3, <1>4, <1>5, <2>1, <1>0, Token DEF IsValue
<1>7. PICK k \in 1..(next - 1) :
         /\ Encloses(k, top, next)
         /\ stack[top] = [kind |-> Kind(text, k), seen |-> NamesFrom(k, top, next)]
  BY <1>0, <1>1, <1>2, InsideOf
<1>8. /\ top \in 1..MaxDepth /\ Last(stack) = stack[top] /\ stack[top].seen = NamesFrom(k, top, next)
      /\ \A m \in (k + 1)..next : Level(text, m) >= top
  <2>1. top \in 1..MaxDepth /\ Last(stack) = stack[top]  BY <1>0, <1>1, <1>2, InsideOf
  <2>2. stack[top].seen = NamesFrom(k, top, next)  BY <1>7
  <2>3. \A m \in (k + 1)..next : Level(text, m) >= top  BY <1>7 DEF Encloses
  <2>4. QED  BY <2>1, <2>2, <2>3
<1>9. CASE Seen(name)
  <2>1. Fails  BY <1>0, <1>9 DEF Member
  <2>2. PICK i \in (k + 1)..(next - 1) : Kind(text, i) = "member" /\ Level(text, i) = top /\ text[i][2] = name
    BY <1>8, <1>9 DEF Seen, NamesFrom
  <2>3. i \in DOMAIN text /\ i < next /\ i \in 1..Len(text)  BY <1>3, <1>4, <1>7
  <2>4. text[i] = text[next]  BY <1>1, <1>6, <2>2, <2>3, Token
  <2>5. SameObject(text, i, next)
    <3>1. \A m \in i..next : m \in (k + 1)..next  BY <1>3, <1>7
    <3>2. QED  BY <1>0, <1>3, <1>8, <2>2, <3>1 DEF SameObject
  <2>6. ~Unique  BY <1>4, <2>2, <2>3, <2>4, <2>5 DEF Unique
  <2>7. QED  BY <1>2, <2>1, <2>6, FailsHolds DEF Strict
<1>10. CASE ~Seen(name)
  <2>1. /\ stack' = [stack EXCEPT ![top].seen = @ \cup {name}]
        /\ wants' = TRUE /\ next' = next + 1 /\ UNCHANGED <<target, result>>
    BY <1>0, <1>10 DEF Member
  <2>2. Due'
    <3>1. next + 1 \in DOMAIN text => IsValue(text, next + 1)
      BY <1>1, <1>4, <1>5, TextFacts DEF IsTokens
    <3>2. next + 1 <= Len(text) => next + 1 \in DOMAIN text  BY <1>3
    <3>3. stack' # <<>>
      <4>1. stack \in Seq(StackEntries) /\ 1 \in DOMAIN stack  BY <1>0, <1>1, <1>8 DEF StrictTypeOK
      <4>2. DOMAIN stack' = DOMAIN stack  BY <2>1
      <4>3. QED  BY <4>1, <4>2
    <3>4. QED  BY <1>2, <2>1, <3>1, <3>2, <3>3 DEF Due
  <2>3. ASSUME NEW i \in 1..(next - 1), text[i] = text[next] PROVE ~SameObject(text, i, next)
    <3>1. SUFFICES ASSUME SameObject(text, i, next) PROVE FALSE  OBVIOUS
    <3>2. Level(text, i) = top /\ \A m \in i..next : Level(text, m) >= top
      BY <1>0, <1>3, <3>1 DEF SameObject
    <3>3. i > k
      <4>1. SUFFICES ASSUME i <= k PROVE FALSE  BY <1>3, <1>7
      <4>2. k \in i..next  BY <1>3, <1>7, <4>1
      <4>3. Level(text, k) = top - 1  BY <1>7 DEF Encloses
      <4>4. QED  BY <1>8, <3>2, <4>2, <4>3
    <3>4. i \in (k + 1)..(next - 1)  BY <1>3, <1>7, <3>3
    <3>5. Kind(text, i) = "member" /\ text[i][2] = name  BY <1>0, <1>5, <2>3 DEF Kind
    <3>6. name \in NamesFrom(k, top, next)  BY <3>2, <3>4, <3>5 DEF NamesFrom
    <3>7. QED  BY <1>8, <1>10, <3>6 DEF Seen
  <2>4. /\ stack' \in Seq(StackEntries) /\ Len(stack') = top
        /\ stack'[top] = [kind |-> stack[top].kind, seen |-> stack[top].seen \cup {name}]
        /\ \A d \in 1..top : d # top => stack'[d] = stack[d]
    <3>1. stack \in Seq(StackEntries) /\ top \in 1..Len(stack) /\ top = Len(stack)
      BY <1>0, <1>1, <1>8 DEF StrictTypeOK
    <3>2. PICK s : s = stack[top]  OBVIOUS
    <3>3. s \in StackEntries  BY <3>1, <3>2
    <3>4. name \in AllNames  BY <1>0, <1>1, <1>4 DEF AllNames, StrictTypeOK
    <3>5. [s EXCEPT !.seen = @ \cup {name}] = [kind |-> s.kind, seen |-> s.seen \cup {name}]
      <4>1. PICK kind, seen : s = [kind |-> kind, seen |-> seen]  BY <3>3 DEF StackEntries
      <4>2. QED  BY <4>1
    <3>6. [kind |-> s.kind, seen |-> s.seen \cup {name}] \in StackEntries
      BY <3>3, <3>4 DEF StackEntries
    <3>7. PICK e : e = [kind |-> s.kind, seen |-> s.seen \cup {name}]  OBVIOUS
    <3>8. stack' = [stack EXCEPT ![top] = e] /\ e \in StackEntries
      BY <2>1, <3>2, <3>5, <3>6, <3>7
    <3>9. /\ stack' \in Seq(StackEntries) /\ Len(stack') = top
          /\ stack'[top] = e /\ \A d \in 1..top : d # top => stack'[d] = stack[d]
      BY <3>1, <3>8
    <3>10. QED  BY <3>2, <3>7, <3>9
  <2>5. ASSUME NEW d \in 1..top
        PROVE  \E c \in 1..(next' - 1) :
                  Encloses(c, d, next)' /\ stack'[d] = [kind |-> Kind(text, c), seen |-> NamesFrom(c, d, next)']
    <3>1. Level(text, next + 1) >= d  BY <1>0, <1>6, <1>8
    <3>2. CASE d = top
      <4>1. d \in 1..Len(stack) /\ d = Len(stack)  BY <1>0, <3>2
      <4>2. {name} = IF Kind(text, next) = "member" /\ d = Len(stack) THEN {text[next][2]} ELSE {}
        BY <1>0, <1>5, <4>1
      <4>3. \E c \in 1..(next' - 1) :
               /\ Encloses(c, d, next)'
               /\ [kind |-> stack[d].kind, seen |-> stack[d].seen \cup {name}]
                     = [kind |-> Kind(text, c), seen |-> NamesFrom(c, d, next)']
        BY <1>1, <1>2, <1>4, <2>1, <3>1, <4>1, <4>2, FrameStays
      <4>4. QED  BY <2>4, <3>2, <4>3
    <3>3. CASE d # top
      <4>1. PICK c \in 1..(next' - 1) :
               /\ Encloses(c, d, next)'
               /\ [kind |-> stack[d].kind, seen |-> stack[d].seen \cup {}]
                     = [kind |-> Kind(text, c), seen |-> NamesFrom(c, d, next)']
        BY <1>0, <1>1, <1>2, <1>4, <2>1, <3>1, <3>3, FrameStays
      <4>2. stack[d] \in StackEntries  BY <1>0, <1>1 DEF StrictTypeOK
      <4>3. stack[d] = [kind |-> stack[d].kind, seen |-> stack[d].seen \cup {}]  BY <4>2 DEF StackEntries
      <4>4. QED  BY <2>4, <3>3, <4>1, <4>3
    <3>4. QED  BY <3>2, <3>3
  <2>6. Len(stack)' = Level(text, next)' /\ Len(stack)' <= MaxDepth
    <3>1. Len(stack') = top /\ top = Len(stack) /\ top <= MaxDepth  BY <1>0, <1>3, <1>8, <2>4
    <3>2. text' = text /\ next' = next + 1  BY <1>2, <2>1
    <3>3. QED  BY <1>6, <3>1, <3>2
  <2>7. Framed'  BY <1>2, <2>4, <2>5, <2>6 DEF Framed
  <2>8. QED  BY <1>2, <1>4, <1>6, <2>1, <2>2, <2>3, <2>4, <2>7, ReadOn
<1>11. QED  BY <1>9, <1>10

LEMMA CloseHolds == ASSUME StrictInv, Close PROVE StrictInv'
<1>1. StrictTypeOK /\ Framed  BY DEF StrictInv
<1>2. /\ result = "validating" /\ ~wants /\ stack # <<>> /\ ~More /\ UNCHANGED <<text, size>>
  BY DEF Close
<1>3. /\ Len(stack) = Level(text, next) /\ Len(text) \in Nat /\ next \in 1..(Len(text) + 1)
      /\ next \in Nat \ {0} /\ MaxDepth \in Nat /\ Len(stack) \in 1..MaxDepth
  BY <1>1, <1>2, TextFacts, InsideOf DEF StrictTypeOK, Framed
<1>4. CASE AtEnd
  <2>1. Fails  BY <1>4 DEF Close
  <2>2. next = Len(text) + 1  BY <1>3, <1>4 DEF AtEnd
  <2>3. ~OneValue
    <3>1. SUFFICES ASSUME OneValue PROVE FALSE  OBVIOUS
    <3>2. Level(text, Len(text) + 1) = 0  BY <1>1, <3>1, OneValueEnds
    <3>3. QED  BY <1>3, <2>2, <3>2
  <2>4. QED  BY <1>2, <2>1, <2>3, FailsHolds DEF Strict
<1>5. CASE ~AtEnd
  <2>1. /\ stack' = Front(stack) /\ next' = next + 1 /\ UNCHANGED <<wants, target, result>>
    BY <1>5 DEF Close
  <2>2. next <= Len(text) /\ next \in 1..Len(text)
    <3>1. ~(next > Len(text))  BY <1>5 DEF AtEnd
    <3>2. QED  BY <1>3, <3>1
  <2>3. Kind(text, next) \in Closing  BY <1>2, <1>5 DEF More, Here
  <2>4. Kind(text, next) # "member" /\ ~IsValue(text, next) /\ Level(text, next + 1) = Len(stack) - 1
    <3>1. Kind(text, next) # "member" /\ ~IsValue(text, next)  BY <2>3 DEF Closing, IsValue
    <3>2. QED  BY <1>1, <1>3, <2>2, <2>3, <3>1, Token
  <2>5. /\ stack' \in Seq(StackEntries) /\ Len(stack') = Len(stack) - 1
        /\ \A d \in 1..(Len(stack) - 1) : stack'[d] = stack[d]
    <3>1. stack \in Seq(StackEntries)  BY <1>1 DEF StrictTypeOK
    <3>2. QED  BY <1>3, <2>1, <3>1 DEF Front
  <2>6. Due'  BY <1>2, <1>3, <2>1, <2>4 DEF Due
  <2>7. ASSUME NEW d \in 1..(Len(stack) - 1)
        PROVE  \E k \in 1..(next' - 1) :
                  Encloses(k, d, next)' /\ stack'[d] = [kind |-> Kind(text, k), seen |-> NamesFrom(k, d, next)']
    <3>1. d \in 1..Len(stack) /\ Level(text, next + 1) >= d  BY <1>3, <2>4
    <3>2. PICK k \in 1..(next' - 1) :
             /\ Encloses(k, d, next)'
             /\ [kind |-> stack[d].kind, seen |-> stack[d].seen \cup {}]
                   = [kind |-> Kind(text, k), seen |-> NamesFrom(k, d, next)']
      BY <1>1, <1>2, <2>1, <2>2, <2>4, <3>1, FrameStays
    <3>3. stack[d] \in StackEntries  BY <1>1, <3>1 DEF StrictTypeOK
    <3>4. stack[d] = [kind |-> stack[d].kind, seen |-> stack[d].seen \cup {}]  BY <3>3 DEF StackEntries
    <3>5. QED  BY <2>5, <3>2, <3>4
  <2>8. Len(stack)' = Level(text, next)' /\ Len(stack)' <= MaxDepth
    <3>1. text' = text /\ next' = next + 1  BY <1>2, <2>1
    <3>2. QED  BY <1>3, <2>4, <2>5, <3>1
  <2>9. Framed'  BY <1>2, <2>5, <2>7, <2>8 DEF Framed
  <2>10. wants' \in BOOLEAN  BY <1>1, <2>1 DEF StrictTypeOK
  <2>11. QED  BY <1>2, <2>1, <2>2, <2>4, <2>5, <2>6, <2>9, <2>10, ReadOn
<1>6. QED  BY <1>4, <1>5

\* The values that lie in nothing: the first token is one, and only it so far.
LEMMA RootValue ==
    ASSUME StrictInv, ~wants, stack = <<>>
    PROVE  /\ Level(text, next) = 0 /\ next > 1
           /\ \A i \in 1..(next - 1) : Level(text, i) = 0 /\ IsValue(text, i) <=> i = 1
           /\ next <= Len(text) => IsValue(text, next)
<1>1. StrictTypeOK /\ Framed /\ Due /\ ReadSoFar  BY DEF StrictInv
<1>2. Level(text, next) = 0 /\ next > 1 /\ next \in 1..(Len(text) + 1) /\ Len(text) \in Nat
  BY <1>1, TextFacts DEF StrictTypeOK, Framed, Due
<1>3. /\ IsTokens(text) /\ DOMAIN text = 1..Len(text) /\ Level(text, 1) = 0
      /\ \A i \in 1..(Len(text) + 1) : Level(text, i) \in Nat
  BY <1>1, TextFacts
<1>4. IsValue(text, 1)
  <2>1. 1 \in 1..Len(text) /\ 1 \in DOMAIN text  BY <1>2, <1>3
  <2>2. Kind(text, 1) # "member"
    <3>1. Kind(text, 1) = "member" => \E k \in 1..(1 - 1) : Holds(text, k, 1)  BY <1>3, <2>1 DEF IsTokens
    <3>2. QED  BY <3>1
  <2>3. Kind(text, 1) \notin Closing
    <3>1. Kind(text, 1) \in Closing => Level(text, 1 + 1) = Level(text, 1) - 1 /\ 1 + 1 \in 1..(Len(text) + 1)
      BY <1>1, <2>1, Token
    <3>2. QED  BY <1>3, <3>1
  <2>4. QED  BY <2>2, <2>3 DEF IsValue
<1>5. ASSUME NEW i \in 1..(next - 1) PROVE Level(text, i) = 0 /\ IsValue(text, i) <=> i = 1
  <2>1. CASE i = 1  BY <1>3, <1>4, <2>1
  <2>2. CASE i # 1
    <3>1. i > 1 /\ i \in 1..(Len(text) + 1)  BY <1>2, <2>2
    <3>2. QED  BY <1>1, <1>3, <3>1 DEF ReadSoFar
  <2>3. QED  BY <2>1, <2>2
<1>6. QED  BY <1>1, <1>2, <1>5, NextToken

LEMMA EndHolds == ASSUME StrictInv, End PROVE StrictInv'
<1> DEFINE Roots == {i \in DOMAIN text : Level(text, i) = 0 /\ IsValue(text, i)}
<1>1. StrictTypeOK /\ ReadSoFar /\ SizeHolds /\ Judged  BY DEF StrictInv
<1>2. result = "validating" /\ ~wants /\ stack = <<>> /\ UNCHANGED <<text, size>>  BY DEF End
<1>3. /\ Len(text) \in Nat /\ DOMAIN text = 1..Len(text) /\ next \in 1..(Len(text) + 1)
      /\ Level(text, 1) = 0
  BY <1>1, TextFacts DEF StrictTypeOK
<1>4. /\ Level(text, next) = 0 /\ next > 1
      /\ \A i \in 1..(next - 1) : Level(text, i) = 0 /\ IsValue(text, i) <=> i = 1
      /\ next <= Len(text) => IsValue(text, next)
  BY <1>2, RootValue
<1>5. IsFiniteSet(Roots)
  <2>1. IsFiniteSet(1..Len(text))  BY <1>3, FS_Interval
  <2>2. Roots \in SUBSET (1..Len(text))  BY <1>3
  <2>3. QED  BY <2>1, <2>2, FS_Subset
<1>6. CASE ~AtEnd
  <2>1. Fails  BY <1>6 DEF End
  <2>2. next <= Len(text)
    <3>1. ~(next > Len(text))  BY <1>6 DEF AtEnd
    <3>2. QED  BY <1>3, <3>1
  <2>3. 1 \in Roots /\ next \in Roots /\ next # 1
    <3>1. 1 \in 1..(next - 1) /\ 1 \in DOMAIN text /\ next \in DOMAIN text  BY <1>3, <1>4, <2>2
    <3>2. QED  BY <1>4, <2>2, <3>1
  <2>4. Cardinality(Roots) # 1
    <3> HIDE DEF Roots
    <3>1. SUFFICES ASSUME Cardinality(Roots) = 1 PROVE FALSE  OBVIOUS
    <3>2. PICK x : Roots = {x}  BY <1>5, <3>1, FS_Singleton
    <3>3. QED  BY <2>3, <3>2
  <2>5. ~Strict  BY <2>4 DEF Strict, OneValue
  <2>6. QED  BY <1>2, <2>1, <2>5, FailsHolds
<1>7. CASE AtEnd
  <2>1. result' = "decoding" /\ UNCHANGED <<next, stack, wants, target>>  BY <1>7 DEF End
  <2>2. next = Len(text) + 1 /\ next - 1 = Len(text)  BY <1>3, <1>7 DEF AtEnd
  <2>3. Roots = {1}
    <3>1. 1 \in 1..Len(text)  BY <1>3, <1>4, <2>2
    <3>2. QED  BY <1>3, <1>4, <2>2, <3>1
  <2>4. Cardinality(Roots) = 1
    <3> HIDE DEF Roots
    <3>1. QED  BY <2>3, FS_Singleton
  <2>5. Count(text, Opening, Len(text)) = Count(text, Closing, Len(text))
    <3>1. Count(text, Opening, Len(text)) \in Nat /\ Count(text, Closing, Len(text)) \in Nat  BY <1>3, CountStep
    <3>2. Level(text, next) = Count(text, Opening, Len(text)) - Count(text, Closing, Len(text))
      BY <2>2 DEF Level
    <3>3. QED  BY <1>4, <3>1, <3>2
  <2>6. OneValue
    <3>1. Len(text) > 0  BY <1>3, <1>4, <2>2
    <3>2. QED  BY <2>4, <2>5, <3>1 DEF OneValue
  <2>7. Shallow /\ Unique  BY <1>1, <1>3, <2>2 DEF ReadSoFar, Shallow, Unique
  <2>8. Strict  BY <1>1, <1>2, <2>6, <2>7 DEF Strict, SizeHolds
  <2>9. wants' \in BOOLEAN /\ wants' = wants  BY <1>1, <2>1 DEF StrictTypeOK
  <2>10. StrictTypeOK' /\ Framed' /\ Due' /\ ReadSoFar' /\ (Strict' <=> Strict)
    BY <1>2, <2>1, <2>9, PositionKept
  <2>11. SizeHolds' /\ Judged'  BY <2>1, <2>8, <2>10 DEF SizeHolds, Judged
  <2>12. QED  BY <2>10, <2>11 DEF StrictInv
<1>8. QED  BY <1>6, <1>7

LEMMA DecodeHolds == ASSUME StrictInv, Decode PROVE StrictInv'
<1>1. /\ result = "decoding" /\ UNCHANGED <<text, size, next, stack, wants>>
      /\ result' \in {"ok", "error"} /\ target' # "untouched"
  BY DEF Decode
<1>2. Strict  BY <1>1 DEF StrictInv, Judged
<1>3. wants' \in BOOLEAN /\ wants' = wants  BY <1>1 DEF StrictInv, StrictTypeOK
<1>4. StrictTypeOK' /\ Framed' /\ Due' /\ ReadSoFar' /\ (Strict' <=> Strict)  BY <1>1, <1>3, PositionKept
<1>5. SizeHolds' /\ Judged'  BY <1>1, <1>2, <1>4 DEF SizeHolds, Judged
<1>6. QED  BY <1>4, <1>5 DEF StrictInv

-----------------------------------------------------------------------------
\* The invariant of the validator: its stack is what the text it has read leaves
\* open (strictjson.go:41-95).
THEOREM StrictInvariant == JSpec => []StrictInv
<1>1. JInit => StrictInv  BY InitHolds
<1>2. StrictInv /\ [JNext]_jvars => StrictInv'
  <2> SUFFICES ASSUME StrictInv, [JNext]_jvars PROVE StrictInv'  OBVIOUS
  <2>1. CASE CheckSize  BY <2>1, CheckSizeHolds
  <2>2. CASE Value  BY <2>2, ValueHolds
  <2>3. CASE Member  BY <2>3, MemberHolds
  <2>4. CASE Item  BY <2>4, ItemHolds
  <2>5. CASE Close  BY <2>5, CloseHolds
  <2>6. CASE End  BY <2>6, EndHolds
  <2>7. CASE Decode  BY <2>7, DecodeHolds
  <2>8. CASE UNCHANGED jvars
    <3>1. UNCHANGED <<text, size, next, stack, wants, target, result>>  BY <2>8 DEF jvars
    <3>2. wants' \in BOOLEAN /\ wants' = wants  BY <3>1 DEF StrictInv, StrictTypeOK
    <3>3. StrictTypeOK' /\ Framed' /\ Due' /\ ReadSoFar' /\ (Strict' <=> Strict)  BY <3>1, <3>2, PositionKept
    <3>4. SizeHolds' /\ Judged'  BY <3>1, <3>3 DEF StrictInv, SizeHolds, Judged
    <3>5. QED  BY <3>3, <3>4 DEF StrictInv
  <2>9. QED  BY <2>1, <2>2, <2>3, <2>4, <2>5, <2>6, <2>7, <2>8 DEF JNext
<1>3. QED  BY <1>1, <1>2, PTL DEF JSpec

\* A text reaches the target, whole or in part, only when it is one value within
\* the size and the depth and no object in it names a member twice; every text
\* that is refused breaks one of these; and the recursion stays within the limit
\* (strictjson.go:22-95).
THEOREM OnlyStrictTexts == JSpec => []ExactlyStrict
<1>1. StrictInv => ExactlyStrict  BY DEF StrictInv, Framed, Judged, ExactlyStrict
<1>2. QED  BY <1>1, StrictInvariant, PTL

-----------------------------------------------------------------------------
\* What arrives over a transport.

HttpFaults == {"unreadable", "unknown", "repeated", "not-UTF-8", "empty-item", "bare-dash",
               "malformed", "null"}
RpcFaults  == {"unreadable", "all-null", "unknown", "repeated", "null", "alias-null", "alias-page"}
ApiFaults  == {"no-resource", "other-fieldset", "filter-decoder", "page-decoder"}

\* A parameter of the message, and a member of it.
IsParam(p)  == /\ p = [name |-> p.name, text |-> p.text, utf8 |-> p.utf8]
               /\ p.name \in Lists => p.text \in Seq(Range(p.text)) /\ p.text # <<>>
IsMember(m) == m = [name |-> m.name, alias |-> m.alias, value |-> m.value]

AreParams(p)  == p \in Seq(Range(p)) /\ \A i \in DOMAIN p : IsParam(p[i])
AreMembers(p) == p \in Seq(Range(p)) /\ \A i \in DOMAIN p : IsMember(p[i])

\* The trace that a fault leaves in a message.
HttpTrace(fault, fits, p) ==
    /\ fault = "unreadable" => ~fits
    /\ fault = "unknown" => \E i \in DOMAIN p : p[i].name \notin supported
    /\ fault = "repeated" => \E i, j \in DOMAIN p : i # j /\ p[i].name = p[j].name
    /\ fault = "not-UTF-8" => \E i \in DOMAIN p : ~p[i].utf8
    /\ fault = "empty-item" => \E i \in DOMAIN p :
          p[i].name \in Lists /\ Len(p[i].text) > 1 /\ Contains(p[i].text, Empty)
    /\ fault = "bare-dash" => \E i \in DOMAIN p :
          p[i].name = "sort" /\ Contains(p[i].text, ListItem(1, Blank))
    /\ fault = "malformed" => \E i \in DOMAIN p :
          p[i].name \in Numbers \cup {"filter"} /\ p[i].text = <<>>

RpcTrace(fault, fits, p) ==
    /\ fault = "unreadable" => ~fits
    /\ fault = "unknown" => \E i \in DOMAIN p : p[i].name \notin DOMAIN NoParams
    /\ fault = "repeated" => \E i, j \in DOMAIN p : i # j /\ Spelling(p[i]) = Spelling(p[j])

\* No other fault removes it, but for a null in place of what was malformed, and
\* for members that are all left out.
HttpMessage ==
    /\ faults \subseteq HttpFaults
    /\ sent = [fits |-> sent.fits, params |-> sent.params] /\ AreParams(sent.params)
    /\ \A fault \in faults :
          HttpTrace(fault, sent.fits, sent.params) \/ (fault = "malformed" /\ "null" \in faults)

RpcMessage ==
    /\ faults \subseteq RpcFaults
    /\ sent = [fits |-> sent.fits, members |-> sent.members] /\ AreMembers(sent.members)
    /\ \A fault \in faults :
          \/ RpcTrace(fault, sent.fits, sent.members)
          \/ fault \in {"unknown", "repeated"} /\ "all-null" \in faults

ApiMessage ==
    /\ faults \subseteq ApiFaults
    /\ sent = [query |-> sent.query, config |-> sent.config]
    /\ sent.query = [fields |-> sent.query.fields, include |-> sent.query.include, sort |-> sent.query.sort,
                      filter |-> sent.query.filter, page |-> sent.query.page]
    /\ sent.query.filter = intent.filter
    /\ sent.query.page = IF intent.page = ZeroPage THEN <<>> ELSE <<intent.page>>
    /\ sent.config = [resource |-> sent.config.resource, filter |-> sent.config.filter, page |-> sent.config.page]
    /\ "no-resource" \in faults => sent.config.resource = Blank
    /\ "filter-decoder" \in faults => sent.config.filter \in {"absent", "fails", "nil"}
    /\ "page-decoder" \in faults => sent.config.page \in {"absent", "fails"}

\* What the adapter makes of the message.
Answer == CASE via = "http" -> HttpParse(sent)
             [] via = "rpc"  -> RpcParse(sent)
             [] via = "jsonapi" -> FromQuery(sent.query, sent.config)

Message == /\ via \in {"http", "rpc", "jsonapi"}
           /\ via = "http" => HttpMessage
           /\ via = "rpc" => RpcMessage
           /\ via = "jsonapi" => ApiMessage

TransportInv == Message /\ (got = <<>> \/ got = <<Answer>>)

-----------------------------------------------------------------------------
LEMMA ErrorsAreNotBlank == "invalid" # Blank /\ "unsupported" # Blank
BY Zenon DEF Blank

\* A refused message hands out nothing.
LEMMA ResultIs ==
    ASSUME NEW error, NEW request
    PROVE  /\ Result(error, request).error = error
           /\ "invalid" # Blank /\ "unsupported" # Blank
           /\ error # Blank => Result(error, request).request = ZeroRequest
BY ErrorsAreNotBlank DEF Result

\* A list with an empty item among others, or a sort with a name of a dash only, is
\* not read (http.go:100-130).
LEMMA CommaListRefuses ==
    ASSUME NEW t, t \in Seq(Range(t)), Len(t) > 1, Contains(t, Empty)
    PROVE  commaList(t) = <<>>
<1>1. t # <<Empty>>
  <2>1. PICK s : s = <<Empty>>  OBVIOUS
  <2>2. Len(s) = 1  BY <2>1
  <2>3. t # s  BY <2>2
  <2>4. QED  BY <2>1, <2>3, Zenon
<1>2. QED  BY <1>1 DEF commaList

LEMMA SortListRefuses ==
    ASSUME NEW t, t \in Seq(Range(t)), Contains(t, ListItem(1, Blank))
    PROVE  sortList(t) = <<>>
<1>1. PICK j \in DOMAIN t : t[j] = ListItem(1, Blank)
  <2>1. DOMAIN t = 1..Len(t)  OBVIOUS
  <2>2. QED  BY <2>1 DEF Contains
<1>0. ListItem(1, Blank) # Empty
  <2>1. ListItem(1, Blank).dashes = 1  BY DEF ListItem
  <2>2. Empty.dashes = 0  BY DEF Empty, ListItem
  <2>3. QED  BY <2>1, <2>2
<1>2. SortTerm(t[j]).name = Empty
  <2>1. SortTerm(t[j]) = SortTerm(ListItem(1, Blank))  BY <1>1
  <2>2. ListItem(1, Blank).dashes = 1  BY DEF ListItem
  <2>3. [ListItem(1, Blank) EXCEPT !.dashes = @ - 1] = Empty
    <3>1. PICK name : name = Blank  OBVIOUS
    <3>2. [[dashes |-> 1, name |-> name] EXCEPT !.dashes = @ - 1] = [dashes |-> 0, name |-> name]  OBVIOUS
    <3>3. QED  BY <3>1, <3>2 DEF ListItem, Empty
  <2>4. SortTerm(ListItem(1, Blank)).name = [ListItem(1, Blank) EXCEPT !.dashes = @ - 1]
    <3>1. PICK item : item = ListItem(1, Blank)  OBVIOUS
    <3>2. item.dashes # 0  BY <2>2, <3>1
    <3>3. SortTerm(item).name = [item EXCEPT !.dashes = @ - 1]  BY <3>2 DEF SortTerm
    <3>4. QED  BY <3>1, <3>3
  <2>5. QED  BY <2>1, <2>3, <2>4
<1>3. commaList(t) = <<>> \/ commaList(t) = <<t>>
  <2>1. t # <<Empty>>
    <3>1. SUFFICES ASSUME t = <<Empty>> PROVE FALSE  OBVIOUS
    <3>2. DOMAIN <<Empty>> = {1} /\ <<Empty>>[1] = Empty  OBVIOUS
    <3>3. t[j] = Empty  BY <1>1, <3>1, <3>2
    <3>4. QED  BY <1>0, <1>1, <3>3
  <2>2. QED  BY <2>1 DEF commaList
<1>4. CASE commaList(t) = <<>>  BY <1>4 DEF sortList
<1>5. CASE commaList(t) = <<t>>
  <2> DEFINE terms == [i \in DOMAIN t |-> SortTerm(t[i])]
  <2>1. commaList(t) # <<>> /\ commaList(t)[1] = t
    <3>1. <<t>> # <<>> /\ <<t>>[1] = t  OBVIOUS
    <3>2. QED  BY <1>5, <3>1
  <2>2. j \in DOMAIN terms /\ terms[j].name = Empty  BY <1>1, <1>2
  <2>3. QED  BY <2>1, <2>2 DEF sortList
<1>6. QED  BY <1>3, <1>4, <1>5

-----------------------------------------------------------------------------
\* HTTP.

LEMMA HttpRefuses ==
    ASSUME HttpMessage,
           \/ faults \cap {"unreadable", "unknown", "repeated", "not-UTF-8", "empty-item", "bare-dash"} # {}
           \/ "malformed" \in faults /\ "null" \notin faults
    PROVE  HttpParse(sent).error # Blank
<1> DEFINE p == sent.params
           readable == \A name \in supported : ~Unreadable(p, name)
<1>1. HttpParse(sent).error = IF sent.fits /\ Shaped(p) /\ readable THEN Blank ELSE "invalid"
  BY ResultIs DEF HttpParse
<1>2. SUFFICES ASSUME sent.fits, Shaped(p), readable PROVE FALSE  BY <1>1, ErrorsAreNotBlank
<1>3. /\ "unreadable" \notin faults /\ "not-UTF-8" \notin faults /\ "unknown" \notin faults
  BY <1>2 DEF HttpMessage, HttpTrace, Shaped
<1>4. "repeated" \notin faults
  BY <1>2 DEF HttpMessage, HttpTrace, Shaped, EntriesOf
<1>5. \A i \in DOMAIN p : Reads(p[i].name, p[i].text) # <<>>
  <2> SUFFICES ASSUME NEW i \in DOMAIN p PROVE Reads(p[i].name, p[i].text) # <<>>  OBVIOUS
  <2>1. p[i].name \in supported /\ EntriesOf(p, p[i].name) = {i}  BY <1>2 DEF Shaped
  <2>2. Min({i}) = i
    <3>1. p \in Seq(Range(p))  BY DEF HttpMessage, AreParams
    <3>2. i \in Nat  BY <3>1
    <3>3. i <= i  BY <3>2
    <3>4. QED  BY <3>3 DEF Min
  <2>3. TextOf(p, p[i].name) = p[i].text /\ One(p, p[i].name)  BY <2>1, <2>2 DEF TextOf, One
  <2>4. Read(p, p[i].name) = Reads(p[i].name, p[i].text)  BY <2>3 DEF Read
  <2>5. QED  BY <1>2, <2>1, <2>3, <2>4 DEF Unreadable
<1>6. \A i \in DOMAIN p : p[i].name \in Lists => p[i].text \in Seq(Range(p[i].text))
  BY DEF HttpMessage, AreParams, IsParam
<1>7. "empty-item" \notin faults
  <2> SUFFICES ASSUME NEW i \in DOMAIN p, p[i].name \in Lists, Len(p[i].text) > 1, Contains(p[i].text, Empty)
               PROVE  FALSE
    BY DEF HttpMessage, HttpTrace
  <2>1. commaList(p[i].text) = <<>>  BY <1>6, CommaListRefuses
  <2>2. sortList(p[i].text) = <<>>  BY <2>1 DEF sortList
  <2>3. Reads(p[i].name, p[i].text) = <<>>  BY <2>1, <2>2 DEF Reads, Lists
  <2>4. QED  BY <1>5, <2>3
<1>8. "bare-dash" \notin faults
  <2> SUFFICES ASSUME NEW i \in DOMAIN p, p[i].name = "sort", Contains(p[i].text, ListItem(1, Blank))
               PROVE  FALSE
    BY DEF HttpMessage, HttpTrace
  <2>1. sortList(p[i].text) = <<>>  BY <1>6, SortListRefuses DEF Lists
  <2>2. QED  BY <1>5, <2>1 DEF Reads
<1>9. "malformed" \notin faults \/ "null" \in faults
  <2> SUFFICES ASSUME NEW i \in DOMAIN p, p[i].name \in Numbers \cup {"filter"}, p[i].text = <<>>
               PROVE  FALSE
    BY DEF HttpMessage, HttpTrace
  <2>1. Reads(p[i].name, p[i].text) = <<>>  BY DEF Reads, Numbers, HttpFilter
  <2>2. QED  BY <1>5, <2>1
<1>10. QED  BY <1>3, <1>4, <1>7, <1>8, <1>9

LEMMA RpcRefuses ==
    ASSUME RpcMessage,
           \/ "unreadable" \in faults
           \/ "all-null" \notin faults /\ faults \cap {"unknown", "repeated"} # {}
    PROVE  RpcParse(sent).error # Blank
<1>1. ~StrictParams(sent)  BY DEF RpcMessage, RpcTrace, StrictParams
<1>2. RpcParse(sent) = Result("invalid", ZeroRequest)  BY <1>1 DEF RpcParse
<1>3. QED  BY <1>2, ResultIs

LEMMA ApiRefuses ==
    ASSUME ApiMessage
    PROVE  LET error == FromQuery(sent.query, sent.config).error IN
           /\ "no-resource" \in faults => error # Blank
           /\ intent.filter # <<>> /\ "filter-decoder" \in faults =>
                 error = IF sent.config.filter = "absent" /\ sent.config.resource # Blank
                         THEN "unsupported" ELSE "invalid"
           /\ intent.page # ZeroPage /\ "page-decoder" \in faults => error # Blank
<1> DEFINE onFilter == Refusal(sent.config.filter, sent.query.filter)
           onPage == Refusal(sent.config.page, sent.query.page)
           error == FromQuery(sent.query, sent.config).error
<1>1. error = IF sent.config.resource = Blank THEN "invalid" ELSE IF onFilter # Blank THEN onFilter ELSE onPage
  BY ResultIs DEF FromQuery
<1>2. sent.query.filter = intent.filter  BY DEF ApiMessage
<1>3. intent.filter # <<>> /\ "filter-decoder" \in faults =>
         onFilter = IF sent.config.filter = "absent" THEN "unsupported" ELSE "invalid"
  BY <1>2 DEF ApiMessage, Refusal, FamilyDecoded
<1>4. intent.page # ZeroPage /\ "page-decoder" \in faults => onPage # Blank
  <2> SUFFICES ASSUME intent.page # ZeroPage, "page-decoder" \in faults PROVE onPage # Blank  OBVIOUS
  <2>1. sent.query.page = <<intent.page>>  BY DEF ApiMessage
  <2>2. sent.query.page # <<>>  BY <2>1
  <2>3. sent.config.page \in {"absent", "fails"}  BY DEF ApiMessage
  <2>4. QED  BY <2>2, <2>3, ErrorsAreNotBlank DEF Refusal, FamilyDecoded
<1>5. "no-resource" \in faults => sent.config.resource = Blank  BY DEF ApiMessage
<1> HIDE DEF onFilter, onPage, error
<1>6. QED  BY <1>1, <1>3, <1>4, <1>5, ErrorsAreNotBlank DEF error

-----------------------------------------------------------------------------
\* What a client writes.

LEMMA FunctionIsSequence ==
    ASSUME NEW n \in Nat, NEW s, s = [i \in 1..n |-> s[i]]
    PROVE  s \in Seq(Range(s))
<1>1. DOMAIN s = 1..n  OBVIOUS
<1>2. \A i \in DOMAIN s : s[i] \in Range(s)  BY DEF Range
<1>3. QED  BY <1>1, <1>2

AreJoined(p, q, r) ==
    /\ r \in Seq(Range(r)) /\ DOMAIN p = 1..Len(p) /\ DOMAIN q = 1..Len(q)
    /\ Len(p) \in Nat /\ Len(q) \in Nat /\ DOMAIN r = 1..(Len(p) + Len(q))
    /\ Len(r) = Len(p) + Len(q)
    /\ \A i \in 1..Len(p) : r[i] = p[i]
    /\ \A i \in 1..Len(q) : r[Len(p) + i] = q[i]
    /\ \A i \in DOMAIN r : (i \in 1..Len(p)) \/ (\E j \in 1..Len(q) : i = Len(p) + j)

LEMMA SequencesJoin ==
    ASSUME NEW p, NEW q, p \in Seq(Range(p)), q \in Seq(Range(q))
    PROVE  AreJoined(p, q, p \o q)
<1> DEFINE S == Range(p) \cup Range(q)
           r == p \o q
<1>1. p \in Seq(S) /\ q \in Seq(S)
  <2>1. \A i \in DOMAIN p : p[i] \in S  BY DEF Range
  <2>2. \A i \in DOMAIN q : q[i] \in S  BY DEF Range
  <2> HIDE DEF S
  <2>3. QED  BY <2>1, <2>2
<1>2. /\ DOMAIN p = 1..Len(p) /\ DOMAIN q = 1..Len(q) /\ Len(p) \in Nat /\ Len(q) \in Nat
      /\ r \in Seq(S) /\ Len(r) = Len(p) + Len(q) /\ DOMAIN r = 1..(Len(p) + Len(q))
      /\ \A i \in 1..Len(p) : r[i] = p[i]
      /\ \A i \in 1..Len(q) : r[Len(p) + i] = q[i]
  <2> HIDE DEF S
  <2>1. QED  BY <1>1
<1> HIDE DEF S, r
<1>3. ASSUME NEW i \in DOMAIN r PROVE (i \in 1..Len(p)) \/ (\E j \in 1..Len(q) : i = Len(p) + j)
  <2>1. (i \in 1..Len(p)) \/ (i - Len(p) \in 1..Len(q) /\ i = Len(p) + (i - Len(p)))  BY <1>2, SMTT(30)
  <2>2. QED  BY <2>1
<1>4. r \in Seq(Range(r))
  <2>1. \A i \in DOMAIN r : r[i] \in Range(r)  BY DEF Range
  <2>2. QED  BY <1>2, <2>1
<1>5. AreJoined(p, q, r)  BY <1>2, <1>3, <1>4 DEF AreJoined
<1>6. QED  BY <1>5 DEF r

LEMMA PartsJoin ==
    ASSUME NEW p, NEW q
    PROVE  /\ AreParams(p) /\ AreParams(q) => AreParams(p \o q)
           /\ AreMembers(p) /\ AreMembers(q) => AreMembers(p \o q)
<1>1. ASSUME AreParams(p), AreParams(q) PROVE AreParams(p \o q)
  <2>1. p \in Seq(Range(p)) /\ q \in Seq(Range(q))  BY <1>1 DEF AreParams
  <2>2. \A i \in DOMAIN (p \o q) : IsParam((p \o q)[i])  BY <1>1, <2>1, SequencesJoin DEF AreParams, AreJoined
  <2>3. QED  BY <2>1, <2>2, SequencesJoin DEF AreParams, AreJoined
<1>2. ASSUME AreMembers(p), AreMembers(q) PROVE AreMembers(p \o q)
  <2>1. p \in Seq(Range(p)) /\ q \in Seq(Range(q))  BY <1>2 DEF AreMembers
  <2>2. \A i \in DOMAIN (p \o q) : IsMember((p \o q)[i])  BY <1>2, <2>1, SequencesJoin DEF AreMembers, AreJoined
  <2>3. QED  BY <2>1, <2>2, SequencesJoin DEF AreMembers, AreJoined
<1>3. QED  BY <1>1, <1>2

\* One part for a component that is there, none for one that is not.
LEMMA OptionalText ==
    ASSUME NEW o, IsOptional(o), NEW s, DOMAIN s = DOMAIN o, s = [i \in DOMAIN o |-> s[i]]
    PROVE  s \in Seq(Range(s))
<1>1. CASE o = <<>>
  <2>1. s = <<>>  BY <1>1
  <2>2. QED  BY <2>1
<1>2. CASE o # <<>>
  <2>1. o = <<o[1]>>  BY <1>2 DEF IsOptional
  <2>2. DOMAIN o = {1}
    <3>1. PICK v : v = o[1]  OBVIOUS
    <3>2. DOMAIN <<v>> = 1..1  OBVIOUS
    <3>3. QED  BY <2>1, <3>1, <3>2
  <2>3. s = [i \in 1..1 |-> s[1]]  BY <2>2
  <2>4. DOMAIN s = {1} /\ s[1] \in Range(s)  BY <2>3 DEF Range
  <2>5. QED  BY <2>3, <2>4
<1>3. QED  BY <1>1, <1>2

LEMMA WrittenAre ==
    ASSUME NEW o, IsOptional(o), NEW name, NEW s, s = [i \in DOMAIN o |-> Param(name, s[i].text)],
           name \in Lists => \A i \in DOMAIN o : s[i].text \in Seq(Range(s[i].text)) /\ s[i].text # <<>>
    PROVE  AreParams(s)
<1>1. DOMAIN s = DOMAIN o /\ \A i \in DOMAIN o : s[i] = Param(name, s[i].text)  OBVIOUS
<1>2. s = [i \in DOMAIN o |-> s[i]]  BY <1>1
<1>3. \A i \in DOMAIN o : IsParam(s[i])
  <2> SUFFICES ASSUME NEW i \in DOMAIN o PROVE IsParam(s[i])  OBVIOUS
  <2>1. PICK x : x = s[i].text  OBVIOUS
  <2>2. s[i] = [name |-> name, text |-> x, utf8 |-> TRUE]  BY <1>1, <2>1 DEF Param
  <2>3. name \in Lists => x \in Seq(Range(x)) /\ x # <<>>  BY <2>1
  <2>4. QED  BY <2>2, <2>3 DEF IsParam
<1>4. QED  BY <1>1, <1>2, <1>3, OptionalText DEF AreParams

LEMMA ListTextIs ==
    ASSUME NEW list, list \in Seq(Range(list))
    PROVE  ListText(list) \in Seq(Range(ListText(list))) /\ ListText(list) # <<>>
<1>1. CASE list = <<>>
  <2>1. PICK s : s = <<Empty>>  OBVIOUS
  <2>2. DOMAIN s = 1..1 /\ Len(s) = 1 /\ s[1] \in Range(s)  BY <2>1 DEF Range
  <2>3. s = [i \in 1..1 |-> s[1]]  BY <2>1, <2>2
  <2>4. s \in Seq(Range(s)) /\ s # <<>>  BY <2>2, <2>3
  <2>5. QED  BY <1>1, <2>1, <2>4 DEF ListText
<1>2. CASE list # <<>>  BY <1>2 DEF ListText
<1>3. QED  BY <1>1, <1>2

LEMMA SortTextIs ==
    ASSUME NEW terms, terms \in Seq(Range(terms))
    PROVE  SortText(terms) \in Seq(Range(SortText(terms))) /\ SortText(terms) # <<>>
<1> DEFINE list == [i \in DOMAIN terms |-> [terms[i].name EXCEPT
                      !.dashes = @ + IF terms[i].direction = "desc" THEN 1 ELSE 0]]
<1>1. DOMAIN terms = 1..Len(terms) /\ Len(terms) \in Nat  OBVIOUS
<1>2. DOMAIN list = 1..Len(terms) /\ list = [i \in 1..Len(terms) |-> list[i]]  BY <1>1
<1>3. SortText(terms) = ListText(list)  BY DEF SortText
<1> HIDE DEF list
<1>4. \A i \in DOMAIN list : list[i] \in Range(list)  BY DEF Range
<1>5. list \in Seq(Range(list))  BY <1>1, <1>2, <1>4
<1>6. QED  BY <1>3, <1>5, ListTextIs

LEMMA HttpTextIs ==
    ASSUME NEW r \in Intents
    PROVE  HttpText(r) = [fits |-> TRUE, params |-> HttpText(r).params] /\ AreParams(HttpText(r).params)
<1> DEFINE page == Given(r.page, ZeroPage)
           s1 == Written(r.revision, "schema_revision", LAMBDA v : <<v>>)
           s2 == Written(r.fields, "fields", ListText)
           s3 == Written(r.includes, "include", ListText)
           s4 == Written(r.filter, "filter", LAMBDA f : <<<<Given(f, ZeroFilter)>>>>)
           s5 == Written(r.sorts, "sort", SortText)
           t1 == Written(page.mode, "page[mode]", LAMBDA v : <<v>>)
           t2 == Written(page.size, "page[size]", LAMBDA v : <<v>>)
           t3 == Written(page.after, "page[after]", LAMBDA v : <<v>>)
           t4 == Written(page.before, "page[before]", LAMBDA v : <<v>>)
           t5 == Written(page.offset, "page[offset]", LAMBDA v : <<v>>)
           all == s1 \o s2 \o s3 \o s4 \o s5 \o t1 \o t2 \o t3 \o t4 \o t5
<1>1. HttpText(r) = [fits |-> TRUE, params |-> all]  BY DEF HttpText
<1>4. /\ IsOptional(r.revision) /\ IsOptional(r.filter)
      /\ IsOptionalList(r.fields) /\ IsOptionalList(r.includes) /\ IsOptionalList(r.sorts)
      /\ DOMAIN r.page = {"mode", "size", "after", "before", "offset"}
  BY TransportAssumption
<1>5. \A m \in {"mode", "size", "after", "before", "offset"} : IsOptional(page[m])
  <2> SUFFICES ASSUME NEW m \in {"mode", "size", "after", "before", "offset"} PROVE IsOptional(page[m])  OBVIOUS
  <2>1. page[m] = <<>> \/ page[m] = <<r.page[m]>>  BY <1>4 DEF Given
  <2>2. PICK v : v = r.page[m]  OBVIOUS
  <2>3. <<v>>[1] = v  OBVIOUS
  <2>4. QED  BY <2>1, <2>2, <2>3 DEF IsOptional
<1>6. /\ "schema_revision" \notin Lists /\ "filter" \notin Lists /\ "page[mode]" \notin Lists
      /\ "page[size]" \notin Lists /\ "page[after]" \notin Lists /\ "page[before]" \notin Lists
      /\ "page[offset]" \notin Lists
  BY DEF Lists
<1>7. AreParams(s1)
  <2>1. s1 = [i \in DOMAIN r.revision |-> Param("schema_revision", <<r.revision[i]>>)]  BY DEF Written
  <2> HIDE DEF s1
  <2>2. s1 = [i \in DOMAIN r.revision |-> Param("schema_revision", s1[i].text)]  BY <2>1 DEF Param
  <2>3. QED  BY <1>4, <1>6, <2>2, WrittenAre
<1>8. AreParams(s4)
  <2>1. s4 = [i \in DOMAIN r.filter |-> Param("filter", <<<<Given(r.filter[i], ZeroFilter)>>>>)]  BY DEF Written
  <2> HIDE DEF s4
  <2>2. s4 = [i \in DOMAIN r.filter |-> Param("filter", s4[i].text)]  BY <2>1 DEF Param
  <2>3. QED  BY <1>4, <1>6, <2>2, WrittenAre
<1>9. AreParams(s2)
  <2>1. s2 = [i \in DOMAIN r.fields |-> Param("fields", ListText(r.fields[i]))]  BY DEF Written
  <2> HIDE DEF s2
  <2>2. s2 = [i \in DOMAIN r.fields |-> Param("fields", s2[i].text)]  BY <2>1 DEF Param
  <2>3. ASSUME NEW i \in DOMAIN r.fields PROVE s2[i].text \in Seq(Range(s2[i].text)) /\ s2[i].text # <<>>
    <3>1. s2[i].text = ListText(r.fields[i])  BY <2>1 DEF Param
    <3>2. r.fields[i] \in Seq(Range(r.fields[i]))  BY <1>4 DEF IsOptionalList
    <3>3. QED  BY <3>1, <3>2, ListTextIs
  <2>4. QED  BY <1>4, <2>2, <2>3, WrittenAre DEF IsOptionalList
<1>10. AreParams(s3)
  <2>1. s3 = [i \in DOMAIN r.includes |-> Param("include", ListText(r.includes[i]))]  BY DEF Written
  <2> HIDE DEF s3
  <2>2. s3 = [i \in DOMAIN r.includes |-> Param("include", s3[i].text)]  BY <2>1 DEF Param
  <2>3. ASSUME NEW i \in DOMAIN r.includes PROVE s3[i].text \in Seq(Range(s3[i].text)) /\ s3[i].text # <<>>
    <3>1. s3[i].text = ListText(r.includes[i])  BY <2>1 DEF Param
    <3>2. r.includes[i] \in Seq(Range(r.includes[i]))  BY <1>4 DEF IsOptionalList
    <3>3. QED  BY <3>1, <3>2, ListTextIs
  <2>4. QED  BY <1>4, <2>2, <2>3, WrittenAre DEF IsOptionalList
<1>11. AreParams(s5)
  <2>1. s5 = [i \in DOMAIN r.sorts |-> Param("sort", SortText(r.sorts[i]))]  BY DEF Written
  <2> HIDE DEF s5
  <2>2. s5 = [i \in DOMAIN r.sorts |-> Param("sort", s5[i].text)]  BY <2>1 DEF Param
  <2>3. ASSUME NEW i \in DOMAIN r.sorts PROVE s5[i].text \in Seq(Range(s5[i].text)) /\ s5[i].text # <<>>
    <3>1. s5[i].text = SortText(r.sorts[i])  BY <2>1 DEF Param
    <3>2. r.sorts[i] \in Seq(Range(r.sorts[i]))  BY <1>4 DEF IsOptionalList
    <3>3. QED  BY <3>1, <3>2, SortTextIs
  <2>4. QED  BY <1>4, <2>2, <2>3, WrittenAre DEF IsOptionalList
<1>12. AreParams(t1)
  <2>1. t1 = [i \in DOMAIN page.mode |-> Param("page[mode]", <<page.mode[i]>>)]  BY DEF Written
  <2> HIDE DEF t1
  <2>2. t1 = [i \in DOMAIN page.mode |-> Param("page[mode]", t1[i].text)]  BY <2>1 DEF Param
  <2>3. QED  BY <1>5, <1>6, <2>2, WrittenAre
<1>13. AreParams(t2)
  <2>1. t2 = [i \in DOMAIN page.size |-> Param("page[size]", <<page.size[i]>>)]  BY DEF Written
  <2> HIDE DEF t2
  <2>2. t2 = [i \in DOMAIN page.size |-> Param("page[size]", t2[i].text)]  BY <2>1 DEF Param
  <2>3. QED  BY <1>5, <1>6, <2>2, WrittenAre
<1>14. AreParams(t3)
  <2>1. t3 = [i \in DOMAIN page.after |-> Param("page[after]", <<page.after[i]>>)]  BY DEF Written
  <2> HIDE DEF t3
  <2>2. t3 = [i \in DOMAIN page.after |-> Param("page[after]", t3[i].text)]  BY <2>1 DEF Param
  <2>3. QED  BY <1>5, <1>6, <2>2, WrittenAre
<1>15. AreParams(t4)
  <2>1. t4 = [i \in DOMAIN page.before |-> Param("page[before]", <<page.before[i]>>)]  BY DEF Written
  <2> HIDE DEF t4
  <2>2. t4 = [i \in DOMAIN page.before |-> Param("page[before]", t4[i].text)]  BY <2>1 DEF Param
  <2>3. QED  BY <1>5, <1>6, <2>2, WrittenAre
<1>16. AreParams(t5)
  <2>1. t5 = [i \in DOMAIN page.offset |-> Param("page[offset]", <<page.offset[i]>>)]  BY DEF Written
  <2> HIDE DEF t5
  <2>2. t5 = [i \in DOMAIN page.offset |-> Param("page[offset]", t5[i].text)]  BY <2>1 DEF Param
  <2>3. QED  BY <1>5, <1>6, <2>2, WrittenAre
<1> HIDE DEF s1, s2, s3, s4, s5, t1, t2, t3, t4, t5
<1>17. AreParams(s1 \o s2 \o s3 \o s4 \o s5)
  BY <1>7, <1>8, <1>9, <1>10, <1>11, PartsJoin
<1>18. AreParams(all)
  BY <1>12, <1>13, <1>14, <1>15, <1>16, <1>17, PartsJoin
<1>19. HttpText(r).params = all  BY <1>1
<1>20. QED  BY <1>1, <1>18, <1>19

MembersOf(o, name, v) == [i \in DOMAIN o |-> [name |-> name, alias |-> FALSE, value |-> v[i]]]

LEMMA MembersAre ==
    ASSUME NEW o, IsOptional(o), NEW name, NEW v
    PROVE  AreMembers(MembersOf(o, name, v))
<1>1. PICK s : s = MembersOf(o, name, v)  OBVIOUS
<1>2. /\ DOMAIN s = DOMAIN o
      /\ \A i \in DOMAIN o : s[i] = [name |-> name, alias |-> FALSE, value |-> v[i]]
  BY <1>1 DEF MembersOf
<1>3. s = [i \in DOMAIN o |-> s[i]]  BY <1>1, <1>2 DEF MembersOf
<1>4. \A i \in DOMAIN o : IsMember(s[i])
  <2> SUFFICES ASSUME NEW i \in DOMAIN o PROVE IsMember(s[i])  OBVIOUS
  <2>1. PICK x : x = v[i]  OBVIOUS
  <2>2. s[i] = [name |-> name, alias |-> FALSE, value |-> x]  BY <1>2, <2>1
  <2>3. QED  BY <2>2 DEF IsMember
<1>5. AreMembers(s)  BY <1>2, <1>3, <1>4, OptionalText DEF AreMembers
<1>6. QED  BY <1>1, <1>5

LEMMA RpcTextIs ==
    ASSUME NEW r \in Intents
    PROVE  RpcText(r) = [fits |-> TRUE, members |-> RpcText(r).members] /\ AreMembers(RpcText(r).members)
<1> DEFINE M(optional, name, Writes(_)) ==
               [i \in DOMAIN optional |->
                  [name |-> name, alias |-> FALSE, value |-> <<Writes(optional[i])>>]]
           page == IF r.page = ZeroPage THEN <<>> ELSE <<r.page>>
           s1 == M(r.revision, "schema_revision", LAMBDA v : v)
           s2 == M(r.fields, "fields", LAMBDA v : v)
           s3 == M(r.includes, "includes", LAMBDA v : v)
           s4 == M(r.sorts, "sorts", LAMBDA v : v)
           s5 == M(r.filter, "filter", LAMBDA f : Given(f, ZeroFilter))
           s6 == M(page, "page", LAMBDA p : Given(p, ZeroPage))
           all == s1 \o s2 \o s3 \o s4 \o s5 \o s6
<1>1. RpcText(r) = [fits |-> TRUE, members |-> all]  BY DEF RpcText
<1>2. /\ IsOptional(r.revision) /\ IsOptional(r.filter) /\ IsOptional(r.fields)
      /\ IsOptional(r.includes) /\ IsOptional(r.sorts)
  BY TransportAssumption DEF IsOptionalList
<1>3. IsOptional(page)
  <2>1. PICK v : v = r.page  OBVIOUS
  <2>2. <<v>>[1] = v  OBVIOUS
  <2>3. page = <<>> \/ page = <<v>>  BY <2>1
  <2>4. QED  BY <2>2, <2>3 DEF IsOptional
<1> HIDE DEF page
<1>4. AreMembers(s1)
  <2>1. PICK v : v = [i \in DOMAIN r.revision |-> <<r.revision[i]>>]  OBVIOUS
  <2>2. s1 = MembersOf(r.revision, "schema_revision", v)  BY <2>1 DEF MembersOf
  <2> HIDE DEF s1
  <2>3. QED  BY <1>2, <2>2, MembersAre, Zenon
<1>5. AreMembers(s2)
  <2>1. PICK v : v = [i \in DOMAIN r.fields |-> <<r.fields[i]>>]  OBVIOUS
  <2>2. s2 = MembersOf(r.fields, "fields", v)  BY <2>1 DEF MembersOf
  <2> HIDE DEF s2
  <2>3. QED  BY <1>2, <2>2, MembersAre, Zenon
<1>6. AreMembers(s3)
  <2>1. PICK v : v = [i \in DOMAIN r.includes |-> <<r.includes[i]>>]  OBVIOUS
  <2>2. s3 = MembersOf(r.includes, "includes", v)  BY <2>1 DEF MembersOf
  <2> HIDE DEF s3
  <2>3. QED  BY <1>2, <2>2, MembersAre, Zenon
<1>7. AreMembers(s4)
  <2>1. PICK v : v = [i \in DOMAIN r.sorts |-> <<r.sorts[i]>>]  OBVIOUS
  <2>2. s4 = MembersOf(r.sorts, "sorts", v)  BY <2>1 DEF MembersOf
  <2> HIDE DEF s4
  <2>3. QED  BY <1>2, <2>2, MembersAre, Zenon
<1>8. AreMembers(s5)
  <2>1. PICK v : v = [i \in DOMAIN r.filter |-> <<Given(r.filter[i], ZeroFilter)>>]  OBVIOUS
  <2>2. s5 = MembersOf(r.filter, "filter", v)  BY <2>1 DEF MembersOf
  <2> HIDE DEF s5
  <2>3. QED  BY <1>2, <2>2, MembersAre, Zenon
<1>9. AreMembers(s6)
  <2>1. PICK v : v = [i \in DOMAIN page |-> <<Given(page[i], ZeroPage)>>]  OBVIOUS
  <2>2. s6 = MembersOf(page, "page", v)  BY <2>1 DEF MembersOf
  <2> HIDE DEF s6
  <2>3. QED  BY <1>3, <2>2, MembersAre, Zenon
<1> HIDE DEF s1, s2, s3, s4, s5, s6
<1>10. AreMembers(all)  BY <1>4, <1>5, <1>6, <1>7, <1>8, <1>9, PartsJoin
<1>11. QED  BY <1>1, <1>10

-----------------------------------------------------------------------------
\* Spoilt messages of HTTP.

\* What a parameter shows of a fault, another shows too.
Shows(x, y) ==
    /\ y.name = x.name /\ (~x.utf8 => ~y.utf8)
    /\ x.name \in Lists /\ Len(x.text) > 1 /\ Contains(x.text, Empty) =>
          Len(y.text) > 1 /\ Contains(y.text, Empty)
    /\ x.name = "sort" /\ Contains(x.text, ListItem(1, Blank)) => Contains(y.text, ListItem(1, Blank))

LEMMA HttpTraceKept ==
    ASSUME NEW p, NEW q, NEW fits, NEW to, NEW fault, HttpTrace(fault, fits, p),
           \A i \in DOMAIN p : to[i] \in DOMAIN q /\ Shows(p[i], q[to[i]]),
           \A i, j \in DOMAIN p : to[i] = to[j] => i = j,
           fault = "malformed" => \A i \in DOMAIN p : p[i].text = <<>> => q[to[i]].text = <<>>
    PROVE  HttpTrace(fault, fits, q) /\ HttpTrace(fault, FALSE, q)
BY DEF HttpTrace, Shows

\* The parameters of one message in another: each shows what it did.
Carries(p, q, to) ==
    /\ \A i \in DOMAIN p : to[i] \in DOMAIN q /\ Shows(p[i], q[to[i]])
    /\ \A i, j \in DOMAIN p : to[i] = to[j] => i = j
StaysEmpty(p, q, to) == \A i \in DOMAIN p : p[i].text = <<>> => q[to[i]].text = <<>>

LEMMA HttpMessageKept ==
    ASSUME HttpMessage, NEW fits, NEW q, sent' = [fits |-> fits, params |-> q],
           fits = sent.fits \/ fits = FALSE, AreParams(q),
           NEW to, Carries(sent.params, q, to),
           NEW spoilt \in HttpFaults, faults' = faults \cup {spoilt}, HttpTrace(spoilt, fits, q),
           spoilt # "null" => StaysEmpty(sent.params, q, to)
    PROVE  HttpMessage'
<1>1. faults' \subseteq HttpFaults  BY DEF HttpMessage
<1>2. sent'.fits = fits /\ sent'.params = q  OBVIOUS
<1>3. ASSUME NEW fault \in faults'
      PROVE  HttpTrace(fault, fits, q) \/ (fault = "malformed" /\ "null" \in faults')
  <2>1. CASE fault = spoilt  BY <2>1
  <2>2. CASE fault # spoilt
    <3>1. fault \in faults  BY <2>2
    <3>2. HttpTrace(fault, sent.fits, sent.params) \/ (fault = "malformed" /\ "null" \in faults)
      BY <3>1 DEF HttpMessage
    <3>3. CASE fault = "malformed" /\ "null" \in faults'  BY <3>3
    <3>4. CASE ~(fault = "malformed" /\ "null" \in faults')
      <4>1. HttpTrace(fault, sent.fits, sent.params)  BY <3>2, <3>4
      <4>2. fault = "malformed" => spoilt # "null"  BY <3>4
      <4>3. HttpTrace(fault, sent.fits, q) /\ HttpTrace(fault, FALSE, q)
        BY <4>1, <4>2, HttpTraceKept DEF Carries, StaysEmpty
      <4>4. QED  BY <4>3
    <3>5. QED  BY <3>3, <3>4
  <2>3. QED  BY <2>1, <2>2
<1>4. QED  BY <1>1, <1>2, <1>3 DEF HttpMessage

\* One parameter in place of another.
LEMMA PartChanged ==
    ASSUME NEW p, p \in Seq(Range(p)), NEW i \in DOMAIN p, NEW e, NEW q, q = [p EXCEPT ![i] = e]
    PROVE  /\ DOMAIN q = DOMAIN p /\ q[i] = e /\ \A j \in DOMAIN p : j # i => q[j] = p[j]
           /\ q \in Seq(Range(q))
<1>1. DOMAIN q = DOMAIN p /\ q[i] = e /\ \A j \in DOMAIN p : j # i => q[j] = p[j]  OBVIOUS
<1>2. DOMAIN p = 1..Len(p) /\ Len(p) \in Nat  OBVIOUS
<1>3. q = [j \in 1..Len(p) |-> q[j]]  BY <1>1, <1>2
<1>4. q \in Seq(Range(q))  BY <1>2, <1>3, FunctionIsSequence
<1>5. QED  BY <1>1, <1>4

LEMMA ListGrows ==
    ASSUME NEW x, x \in Seq(Range(x)), NEW z
    PROVE  /\ x \o <<z>> \in Seq(Range(x \o <<z>>)) /\ <<z>> \o x \in Seq(Range(<<z>> \o x))
           /\ Len(x \o <<z>>) = Len(x) + 1 /\ Len(<<z>> \o x) = Len(x) + 1
           /\ x \o <<z>> # <<>> /\ <<z>> \o x # <<>>
           /\ Contains(x \o <<z>>, z) /\ Contains(<<z>> \o x, z)
           /\ \A e : Contains(x, e) => Contains(x \o <<z>>, e) /\ Contains(<<z>> \o x, e)
<1>1. PICK y : y = <<z>>  OBVIOUS
<1>2. Len(y) = 1 /\ y[1] = z /\ y \in Seq({z})  BY <1>1
<1>3. y \in Seq(Range(y))
  <2>1. y[1] \in Range(y) /\ DOMAIN y = 1..1  BY <1>2 DEF Range
  <2>2. QED  BY <1>2, <2>1
<1>4. /\ x \o y \in Seq(Range(x \o y)) /\ y \o x \in Seq(Range(y \o x))
      /\ Len(x \o y) = Len(x) + 1 /\ Len(y \o x) = Len(x) + 1 /\ Len(x) \in Nat
      /\ \A i \in 1..Len(x) : (x \o y)[i] = x[i] /\ (y \o x)[1 + i] = x[i]
      /\ (x \o y)[Len(x) + 1] = z /\ (y \o x)[1] = z
  <2>1. /\ x \o y \in Seq(Range(x \o y)) /\ Len(x) \in Nat /\ Len(x \o y) = Len(x) + Len(y)
        /\ \A i \in 1..Len(x) : (x \o y)[i] = x[i]
        /\ \A i \in 1..Len(y) : (x \o y)[Len(x) + i] = y[i]
    BY <1>3, SequencesJoin DEF AreJoined
  <2>2. /\ y \o x \in Seq(Range(y \o x)) /\ Len(y \o x) = Len(y) + Len(x)
        /\ \A i \in 1..Len(y) : (y \o x)[i] = y[i]
        /\ \A i \in 1..Len(x) : (y \o x)[Len(y) + i] = x[i]
    BY <1>3, SequencesJoin DEF AreJoined
  <2> DEFINE xy == x \o y
             yx == y \o x
  <2> HIDE DEF xy, yx
  <2>3. /\ Len(xy) = Len(x) + 1 /\ Len(yx) = 1 + Len(x)
        /\ \A i \in 1..Len(x) : xy[i] = x[i] /\ yx[1 + i] = x[i]
        /\ xy[Len(x) + 1] = z /\ yx[1] = z
    BY <1>2, <2>1, <2>2 DEF xy, yx
  <2>4. QED  BY <2>1, <2>2, <2>3 DEF xy, yx
<1>5. x \o y # <<>> /\ y \o x # <<>>  BY <1>4
<1>6. Contains(x \o y, z) /\ Contains(y \o x, z)
  <2>1. Len(x) + 1 \in 1..Len(x \o y) /\ 1 \in 1..Len(y \o x)  BY <1>4
  <2>2. QED  BY <1>4, <2>1 DEF Contains
<1>7. ASSUME NEW e, Contains(x, e) PROVE Contains(x \o y, e) /\ Contains(y \o x, e)
  <2>1. PICK i \in 1..Len(x) : x[i] = e  BY <1>7 DEF Contains
  <2>2. i \in 1..Len(x \o y) /\ 1 + i \in 1..Len(y \o x)  BY <1>4
  <2>3. QED  BY <1>4, <2>1, <2>2 DEF Contains
<1>8. QED  BY <1>1, <1>4, <1>5, <1>6, <1>7

\* A parameter written over: the others show what they did.
LEMMA ParamChanged ==
    ASSUME HttpMessage, NEW i \in DOMAIN sent.params, NEW e, IsParam(e), Shows(sent.params[i], e),
           sent' = [fits |-> sent.fits, params |-> [sent.params EXCEPT ![i] = e]],
           NEW spoilt \in HttpFaults, faults' = faults \cup {spoilt},
           \A q : q[i] = e /\ i \in DOMAIN q => HttpTrace(spoilt, sent.fits, q),
           spoilt # "null" /\ sent.params[i].text = <<>> => e.text = <<>>
    PROVE  HttpMessage'
<1>1. PICK p : p = sent.params  OBVIOUS
<1>2. PICK q : q = [p EXCEPT ![i] = e]  OBVIOUS
<1>3. AreParams(p) /\ p \in Seq(Range(p)) /\ i \in DOMAIN p  BY <1>1 DEF HttpMessage, AreParams
<1>4. /\ DOMAIN q = DOMAIN p /\ q[i] = e /\ \A j \in DOMAIN p : j # i => q[j] = p[j]
      /\ q \in Seq(Range(q))
  BY <1>2, <1>3, PartChanged
<1>5. AreParams(q)  BY <1>3, <1>4 DEF AreParams
<1>6. PICK to : to = [j \in DOMAIN p |-> j]  OBVIOUS
<1>7. \A j \in DOMAIN p : to[j] = j /\ Shows(p[j], q[j])
  <2>1. \A x : Shows(x, x)  BY DEF Shows
  <2>2. QED  BY <1>1, <1>4, <1>6, <2>1
<1>8. sent' = [fits |-> sent.fits, params |-> q]  BY <1>1, <1>2
<1>9. HttpTrace(spoilt, sent.fits, q)  BY <1>3, <1>4
<1>10. spoilt # "null" => StaysEmpty(p, q, to)
  BY <1>1, <1>4, <1>7 DEF StaysEmpty
<1>11. Carries(p, q, to)
  BY <1>4, <1>7 DEF Carries
<1>12. QED  BY <1>1, <1>5, <1>8, <1>9, <1>10, <1>11, HttpMessageKept

\* One part more than there were.
OneMore(p, q, e) ==
    /\ q \in Seq(Range(q)) /\ DOMAIN q = 1..(Len(p) + 1) /\ q[Len(p) + 1] = e
    /\ \A i \in 1..Len(p) : q[i] = p[i]
    /\ Len(p) \in Nat /\ DOMAIN p = 1..Len(p)

LEMMA AppendIs ==
    ASSUME NEW p, p \in Seq(Range(p)), NEW e, NEW q, q = Append(p, e)
    PROVE  OneMore(p, q, e)
<1>1. PICK S : S = Range(p) \cup {e}  OBVIOUS
<1>2. \A i \in DOMAIN p : p[i] \in S  BY <1>1 DEF Range
<1>3. p \in Seq(S) /\ e \in S  BY <1>1, <1>2
<1>4. /\ q \in Seq(S) /\ Len(q) = Len(p) + 1 /\ q[Len(p) + 1] = e
      /\ \A i \in 1..Len(p) : q[i] = p[i]
  BY <1>3
<1>5. DOMAIN q = 1..(Len(p) + 1) /\ q \in Seq(Range(q))
  <2>1. \A i \in DOMAIN q : q[i] \in Range(q)  BY DEF Range
  <2>2. QED  BY <1>4, <2>1
<1>6. Len(p) \in Nat /\ DOMAIN p = 1..Len(p)  OBVIOUS
<1>7. QED  BY <1>4, <1>5, <1>6 DEF OneMore

LEMMA SpoilHttpHolds == ASSUME HttpMessage, SpoilHttp PROVE HttpMessage' /\ UNCHANGED <<via, intent, got>>
<1>0. PICK p, fits : p = sent.params /\ fits = sent.fits  OBVIOUS
<1>1. /\ sent = [fits |-> fits, params |-> p] /\ AreParams(p)
      /\ p \in Seq(Range(p)) /\ DOMAIN p = 1..Len(p) /\ Len(p) \in Nat
  <2>1. sent = [fits |-> fits, params |-> p] /\ AreParams(p)  BY <1>0 DEF HttpMessage
  <2>2. p \in Seq(Range(p))  BY <2>1 DEF AreParams
  <2>3. QED  BY <2>1, <2>2
<1>2. \A x : Shows(x, x)  BY DEF Shows
<1>3. PICK same : same = [i \in DOMAIN p |-> i]  OBVIOUS
<1>4. \A i \in DOMAIN p : same[i] = i  BY <1>3
<1>5. CASE Spoil("unreadable", [sent EXCEPT !.fits = FALSE])
  <2>1. sent' = [fits |-> FALSE, params |-> p] /\ faults' = faults \cup {"unreadable"}
    BY <1>1, <1>5 DEF Spoil
  <2>2. HttpTrace("unreadable", FALSE, p) /\ "unreadable" \in HttpFaults  BY DEF HttpTrace, HttpFaults
  <2>3. Carries(p, p, same) /\ StaysEmpty(p, p, same)  BY <1>2, <1>4 DEF Carries, StaysEmpty
  <2>4. HttpMessage'
    BY <1>0, <1>1, <2>1, <2>2, <2>3, HttpMessageKept
  <2>5. QED  BY <1>5, <2>4 DEF Spoil
<1>6. CASE Spoil("unknown", [sent EXCEPT !.params = Append(@, Param("sql", <<"drop">>))])
  <2>1. PICK e : e = Param("sql", <<"drop">>)  OBVIOUS
  <2>2. PICK q : q = Append(p, e)  OBVIOUS
  <2>3. sent' = [fits |-> fits, params |-> q] /\ faults' = faults \cup {"unknown"}
    BY <1>1, <1>6, <2>1, <2>2 DEF Spoil
  <2>4. IsParam(e) /\ e.name \notin supported
    <3>1. e = [name |-> "sql", text |-> <<"drop">>, utf8 |-> TRUE]  BY <2>1 DEF Param
    <3>2. "sql" \notin supported /\ "sql" \notin Lists  BY DEF supported, Lists, Numbers, Words
    <3>3. PICK x : x = <<"drop">>  OBVIOUS
    <3>4. e = [name |-> "sql", text |-> x, utf8 |-> TRUE]  BY <3>1, <3>3
    <3>5. QED  BY <3>2, <3>4 DEF IsParam
  <2>5. /\ q \in Seq(Range(q)) /\ DOMAIN q = 1..(Len(p) + 1) /\ q[Len(p) + 1] = e
        /\ \A i \in 1..Len(p) : q[i] = p[i]
    <3>1. p \in Seq(Range(p))  BY <1>1
    <3>2. OneMore(p, q, e)  BY <2>2, <3>1, AppendIs, Zenon
    <3>3. QED  BY <3>2 DEF OneMore
  <2>6. AreParams(q)
    <3>1. \A i \in DOMAIN q : i \in 1..Len(p) \/ i = Len(p) + 1  BY <1>1, <2>5
    <3>2. QED  BY <1>1, <2>4, <2>5, <3>1 DEF AreParams
  <2>7. HttpTrace("unknown", fits, q) /\ "unknown" \in HttpFaults
    <3>1. Len(p) + 1 \in DOMAIN q  BY <1>1, <2>5
    <3>2. QED  BY <2>4, <2>5, <3>1 DEF HttpTrace, HttpFaults
  <2>8. \A i \in DOMAIN p : same[i] \in DOMAIN q /\ Shows(p[i], q[same[i]]) /\ q[same[i]] = p[i]
    BY <1>1, <1>2, <1>4, <2>5
  <2>9. HttpMessage'
    <3>1. Carries(p, q, same) /\ StaysEmpty(p, q, same)  BY <1>4, <2>8 DEF Carries, StaysEmpty
    <3>2. QED  BY <1>0, <2>3, <2>6, <2>7, <3>1, HttpMessageKept
  <2>10. QED  BY <1>6, <2>9 DEF Spoil
<1>7. ASSUME NEW i \in DOMAIN p, Spoil("repeated", [sent EXCEPT !.params = <<p[i]>> \o @])
      PROVE  HttpMessage' /\ UNCHANGED <<via, intent, got>>
  <2>1. PICK y : y = <<p[i]>>  OBVIOUS
  <2>2. PICK q : q = y \o p  OBVIOUS
  <2>3. sent' = [fits |-> fits, params |-> q] /\ faults' = faults \cup {"repeated"}
    BY <1>1, <1>7, <2>1, <2>2 DEF Spoil
  <2>4. Len(y) = 1 /\ y[1] = p[i] /\ y = [j \in 1..1 |-> y[j]] /\ DOMAIN y = 1..1  BY <2>1
  <2>5. y \in Seq(Range(y)) /\ AreParams(y)
    <3>1. y \in Seq(Range(y))  BY <2>4, FunctionIsSequence
    <3>2. QED  BY <1>1, <2>4, <3>1 DEF AreParams
  <2>6. /\ AreParams(q) /\ DOMAIN q = 1..(1 + Len(p)) /\ q[1] = p[i]
        /\ \A j \in 1..Len(p) : q[1 + j] = p[j]
    <3>1. AreParams(q)  BY <1>1, <2>2, <2>5, PartsJoin
    <3>2. /\ DOMAIN q = 1..(Len(y) + Len(p)) /\ \A j \in 1..Len(y) : q[j] = y[j]
          /\ \A j \in 1..Len(p) : q[Len(y) + j] = p[j]
      BY <1>1, <2>2, <2>5, SequencesJoin DEF AreJoined
    <3>3. QED  BY <2>4, <3>1, <3>2
  <2>7. PICK to : to = [j \in DOMAIN p |-> 1 + j]  OBVIOUS
  <2>8. \A j \in DOMAIN p : to[j] = 1 + j /\ to[j] \in DOMAIN q /\ Shows(p[j], q[to[j]]) /\ q[to[j]] = p[j]
    BY <1>1, <1>2, <2>6, <2>7
  <2>9. HttpTrace("repeated", fits, q) /\ "repeated" \in HttpFaults
    <3>1. 1 \in DOMAIN q /\ 1 + i \in DOMAIN q /\ 1 # 1 + i /\ q[1 + i] = p[i]  BY <1>1, <2>6
    <3>2. QED  BY <2>6, <3>1 DEF HttpTrace, HttpFaults
  <2>10. \A j, k \in DOMAIN p : to[j] = to[k] => j = k  BY <1>1, <2>8
  <2>11. HttpMessage'
    <3>1. Carries(p, q, to) /\ StaysEmpty(p, q, to)  BY <2>8, <2>10 DEF Carries, StaysEmpty
    <3>2. QED  BY <1>0, <2>3, <2>6, <2>9, <3>1, HttpMessageKept
  <2>12. QED  BY <1>7, <2>11 DEF Spoil
<1>8. ASSUME NEW i \in DOMAIN p, Spoil("not-UTF-8", [sent EXCEPT !.params[i].utf8 = FALSE])
      PROVE  HttpMessage' /\ UNCHANGED <<via, intent, got>>
  <2>1. PICK x, name, said, utf8 : x = p[i] /\ x = [name |-> name, text |-> said, utf8 |-> utf8]
    BY <1>1 DEF AreParams, IsParam
  <2>2. PICK new : new = FALSE  OBVIOUS
  <2>3. PICK e : e = [name |-> name, text |-> said, utf8 |-> new]  OBVIOUS
  <2>5. x.name = name /\ x.text = said /\ x.utf8 = utf8 /\ IsParam(x)
    <3>1. x = [name |-> name, text |-> said, utf8 |-> utf8]  BY <2>1
    <3>2. IsParam(x)  BY <1>1, <2>1, Zenon DEF AreParams
    <3>3. QED  BY <3>1, <3>2
  <2>4. sent' = [fits |-> fits, params |-> [p EXCEPT ![i] = e]] /\ faults' = faults \cup {"not-UTF-8"}
    <3>1. x = [name |-> name, text |-> said, utf8 |-> utf8]  BY <2>1
    <3>2. [x EXCEPT !.utf8 = new] = e  BY <2>3, <3>1
    <3>3. sent.params = p /\ sent.params[i] = x /\ x.text = said  BY <1>0, <2>1, <2>5, Zenon
    <3>4. [sent EXCEPT !.params[i].utf8 = FALSE] = [sent EXCEPT !.params = [p EXCEPT ![i] = e]]
      BY <2>2, <3>2, <3>3, Zenon
    <3>5. [sent EXCEPT !.params = [p EXCEPT ![i] = e]] = [fits |-> fits, params |-> [p EXCEPT ![i] = e]]
      BY <1>1
    <3>6. sent' = [sent EXCEPT !.params[i].utf8 = FALSE] /\ faults' = faults \cup {"not-UTF-8"}
      BY <1>8, Zenon DEF Spoil
    <3>7. QED  BY <3>4, <3>5, <3>6, Zenon
  <2>6. IsParam(e) /\ Shows(p[i], e)
    <3>1. IsParam(e)
      BY <2>3, <2>5 DEF IsParam
    <3>2. Shows(p[i], e)
      BY <2>1, <2>2, <2>3 DEF Shows
    <3>3. QED  BY <3>1, <3>2
  <2>7. "not-UTF-8" \in HttpFaults /\ \A q : q[i] = e /\ i \in DOMAIN q => HttpTrace("not-UTF-8", fits, q)
    BY <2>2, <2>3 DEF HttpFaults, HttpTrace
  <2>8. p[i].text = <<>> => e.text = <<>>  BY <2>1, <2>3
  <2>9. HttpMessage'  BY <1>0, <2>4, <2>6, <2>7, <2>8, ParamChanged
  <2>10. QED  BY <1>8, <2>9 DEF Spoil
<1>9. ASSUME NEW i \in DOMAIN p, p[i].name \in Lists, Spoil("empty-item", [sent EXCEPT !.params[i].text = @ \o <<Empty>>])
      PROVE  HttpMessage' /\ UNCHANGED <<via, intent, got>>
  <2>1. PICK x, name, said, utf8 : x = p[i] /\ x = [name |-> name, text |-> said, utf8 |-> utf8]
    BY <1>1 DEF AreParams, IsParam
  <2>2. PICK new : new = said \o <<Empty>>  OBVIOUS
  <2>3. PICK e : e = [name |-> name, text |-> new, utf8 |-> utf8]  OBVIOUS
  <2>5. x.name = name /\ x.text = said /\ x.utf8 = utf8 /\ IsParam(x)
    <3>1. x = [name |-> name, text |-> said, utf8 |-> utf8]  BY <2>1
    <3>2. IsParam(x)  BY <1>1, <2>1, Zenon DEF AreParams
    <3>3. QED  BY <3>1, <3>2
  <2>4. sent' = [fits |-> fits, params |-> [p EXCEPT ![i] = e]] /\ faults' = faults \cup {"empty-item"}
    <3>1. x = [name |-> name, text |-> said, utf8 |-> utf8]  BY <2>1
    <3>2. [x EXCEPT !.text = new] = e  BY <2>3, <3>1
    <3>3. sent.params = p /\ sent.params[i] = x /\ x.text = said  BY <1>0, <2>1, <2>5, Zenon
    <3>4. [sent EXCEPT !.params[i].text = @ \o <<Empty>>] = [sent EXCEPT !.params = [p EXCEPT ![i] = e]]
      BY <2>2, <3>2, <3>3, Zenon
    <3>5. [sent EXCEPT !.params = [p EXCEPT ![i] = e]] = [fits |-> fits, params |-> [p EXCEPT ![i] = e]]
      BY <1>1
    <3>6. sent' = [sent EXCEPT !.params[i].text = @ \o <<Empty>>] /\ faults' = faults \cup {"empty-item"}
      BY <1>9, Zenon DEF Spoil
    <3>7. QED  BY <3>4, <3>5, <3>6, Zenon
  <2>11. name \in Lists /\ said \in Seq(Range(said)) /\ said # <<>> /\ Len(said) \in Nat \ {0}
    <3>1. name \in Lists /\ said \in Seq(Range(said)) /\ said # <<>>
      BY <1>9, <2>1, <2>5 DEF IsParam, Lists
    <3>2. QED  BY <3>1
  <2>12. /\ new \in Seq(Range(new)) /\ new # <<>> /\ Len(new) = Len(said) + 1 /\ Contains(new, Empty)
         /\ \A z : Contains(said, z) => Contains(new, z)
    BY <2>2, <2>11, ListGrows
  <2>13. Len(new) > 1  BY <2>11, <2>12
  <2>6. IsParam(e) /\ Shows(p[i], e)
    <3>1. IsParam(e)
      BY <2>3, <2>12 DEF IsParam
    <3>2. Shows(p[i], e)
      BY <2>1, <2>3, <2>12, <2>13 DEF Shows
    <3>3. QED  BY <3>1, <3>2
  <2>7. "empty-item" \in HttpFaults /\ \A q : q[i] = e /\ i \in DOMAIN q => HttpTrace("empty-item", fits, q)
    BY <2>3, <2>11, <2>12, <2>13 DEF HttpFaults, HttpTrace
  <2>8. p[i].text = <<>> => e.text = <<>>  BY <2>1, <2>11
  <2>9. HttpMessage'  BY <1>0, <2>4, <2>6, <2>7, <2>8, ParamChanged
  <2>10. QED  BY <1>9, <2>9 DEF Spoil
<1>10. ASSUME NEW i \in DOMAIN p, p[i].name = "sort", Spoil("bare-dash", [sent EXCEPT !.params[i].text = <<ListItem(1, Blank)>> \o @])
      PROVE  HttpMessage' /\ UNCHANGED <<via, intent, got>>
  <2>1. PICK x, name, said, utf8 : x = p[i] /\ x = [name |-> name, text |-> said, utf8 |-> utf8]
    BY <1>1 DEF AreParams, IsParam
  <2>2. PICK new : new = <<ListItem(1, Blank)>> \o said  OBVIOUS
  <2>3. PICK e : e = [name |-> name, text |-> new, utf8 |-> utf8]  OBVIOUS
  <2>5. x.name = name /\ x.text = said /\ x.utf8 = utf8 /\ IsParam(x)
    <3>1. x = [name |-> name, text |-> said, utf8 |-> utf8]  BY <2>1
    <3>2. IsParam(x)  BY <1>1, <2>1, Zenon DEF AreParams
    <3>3. QED  BY <3>1, <3>2
  <2>4. sent' = [fits |-> fits, params |-> [p EXCEPT ![i] = e]] /\ faults' = faults \cup {"bare-dash"}
    <3>1. x = [name |-> name, text |-> said, utf8 |-> utf8]  BY <2>1
    <3>2. [x EXCEPT !.text = new] = e  BY <2>3, <3>1
    <3>3. sent.params = p /\ sent.params[i] = x /\ x.text = said  BY <1>0, <2>1, <2>5, Zenon
    <3>4. [sent EXCEPT !.params[i].text = <<ListItem(1, Blank)>> \o @] = [sent EXCEPT !.params = [p EXCEPT ![i] = e]]
      BY <2>2, <3>2, <3>3, Zenon
    <3>5. [sent EXCEPT !.params = [p EXCEPT ![i] = e]] = [fits |-> fits, params |-> [p EXCEPT ![i] = e]]
      BY <1>1
    <3>6. sent' = [sent EXCEPT !.params[i].text = <<ListItem(1, Blank)>> \o @] /\ faults' = faults \cup {"bare-dash"}
      BY <1>10, Zenon DEF Spoil
    <3>7. QED  BY <3>4, <3>5, <3>6, Zenon
  <2>11. name \in Lists /\ said \in Seq(Range(said)) /\ said # <<>> /\ Len(said) \in Nat \ {0}
    <3>1. name \in Lists /\ said \in Seq(Range(said)) /\ said # <<>>
      BY <1>10, <2>1, <2>5 DEF IsParam, Lists
    <3>2. QED  BY <3>1
  <2>12. /\ new \in Seq(Range(new)) /\ new # <<>> /\ Len(new) = Len(said) + 1 /\ Contains(new, ListItem(1, Blank))
         /\ \A z : Contains(said, z) => Contains(new, z)
    BY <2>2, <2>11, ListGrows
  <2>13. Len(new) > 1  BY <2>11, <2>12
  <2>6. IsParam(e) /\ Shows(p[i], e)
    <3>1. IsParam(e)
      BY <2>3, <2>12 DEF IsParam
    <3>2. Shows(p[i], e)
      BY <2>1, <2>3, <2>12, <2>13 DEF Shows
    <3>3. QED  BY <3>1, <3>2
  <2>7. "bare-dash" \in HttpFaults /\ \A q : q[i] = e /\ i \in DOMAIN q => HttpTrace("bare-dash", fits, q)
    BY <1>10, <2>1, <2>3, <2>11, <2>12 DEF HttpFaults, HttpTrace
  <2>8. p[i].text = <<>> => e.text = <<>>  BY <2>1, <2>11
  <2>9. HttpMessage'  BY <1>0, <2>4, <2>6, <2>7, <2>8, ParamChanged
  <2>10. QED  BY <1>10, <2>9 DEF Spoil
<1>11. ASSUME NEW i \in DOMAIN p, p[i].name \in Numbers \cup {"filter"}, Spoil("malformed", [sent EXCEPT !.params[i].text = <<>>])
      PROVE  HttpMessage' /\ UNCHANGED <<via, intent, got>>
  <2>1. PICK x, name, said, utf8 : x = p[i] /\ x = [name |-> name, text |-> said, utf8 |-> utf8]
    BY <1>1 DEF AreParams, IsParam
  <2>2. PICK new : new = <<>>  OBVIOUS
  <2>3. PICK e : e = [name |-> name, text |-> new, utf8 |-> utf8]  OBVIOUS
  <2>5. x.name = name /\ x.text = said /\ x.utf8 = utf8 /\ IsParam(x)
    <3>1. x = [name |-> name, text |-> said, utf8 |-> utf8]  BY <2>1
    <3>2. IsParam(x)  BY <1>1, <2>1, Zenon DEF AreParams
    <3>3. QED  BY <3>1, <3>2
  <2>4. sent' = [fits |-> fits, params |-> [p EXCEPT ![i] = e]] /\ faults' = faults \cup {"malformed"}
    <3>1. x = [name |-> name, text |-> said, utf8 |-> utf8]  BY <2>1
    <3>2. [x EXCEPT !.text = new] = e  BY <2>3, <3>1
    <3>3. sent.params = p /\ sent.params[i] = x /\ x.text = said  BY <1>0, <2>1, <2>5, Zenon
    <3>4. [sent EXCEPT !.params[i].text = <<>>] = [sent EXCEPT !.params = [p EXCEPT ![i] = e]]
      BY <2>2, <3>2, <3>3, Zenon
    <3>5. [sent EXCEPT !.params = [p EXCEPT ![i] = e]] = [fits |-> fits, params |-> [p EXCEPT ![i] = e]]
      BY <1>1
    <3>6. sent' = [sent EXCEPT !.params[i].text = <<>>] /\ faults' = faults \cup {"malformed"}
      BY <1>11, Zenon DEF Spoil
    <3>7. QED  BY <3>4, <3>5, <3>6, Zenon
  <2>11. name \notin Lists  BY <1>11, <2>1 DEF Lists, Numbers
  <2>6. IsParam(e) /\ Shows(p[i], e)
    <3>1. IsParam(e)
      BY <2>3, <2>11 DEF IsParam
    <3>2. Shows(p[i], e)
      BY <2>1, <2>3, <2>11 DEF Shows, Lists
    <3>3. QED  BY <3>1, <3>2
  <2>7. "malformed" \in HttpFaults /\ \A q : q[i] = e /\ i \in DOMAIN q => HttpTrace("malformed", fits, q)
    BY <1>11, <2>1, <2>2, <2>3 DEF HttpFaults, HttpTrace
  <2>8. p[i].text = <<>> => e.text = <<>>  BY <2>2, <2>3
  <2>9. HttpMessage'  BY <1>0, <2>4, <2>6, <2>7, <2>8, ParamChanged
  <2>10. QED  BY <1>11, <2>9 DEF Spoil
<1>12. ASSUME NEW i \in DOMAIN p, p[i].name = "filter", Spoil("null", [sent EXCEPT !.params[i].text = <<<<>>>>])
      PROVE  HttpMessage' /\ UNCHANGED <<via, intent, got>>
  <2>1. PICK x, name, said, utf8 : x = p[i] /\ x = [name |-> name, text |-> said, utf8 |-> utf8]
    BY <1>1 DEF AreParams, IsParam
  <2>2. PICK new : new = <<<<>>>>  OBVIOUS
  <2>3. PICK e : e = [name |-> name, text |-> new, utf8 |-> utf8]  OBVIOUS
  <2>5. x.name = name /\ x.text = said /\ x.utf8 = utf8 /\ IsParam(x)
    <3>1. x = [name |-> name, text |-> said, utf8 |-> utf8]  BY <2>1
    <3>2. IsParam(x)  BY <1>1, <2>1, Zenon DEF AreParams
    <3>3. QED  BY <3>1, <3>2
  <2>4. sent' = [fits |-> fits, params |-> [p EXCEPT ![i] = e]] /\ faults' = faults \cup {"null"}
    <3>1. x = [name |-> name, text |-> said, utf8 |-> utf8]  BY <2>1
    <3>2. [x EXCEPT !.text = new] = e  BY <2>3, <3>1
    <3>3. sent.params = p /\ sent.params[i] = x /\ x.text = said  BY <1>0, <2>1, <2>5, Zenon
    <3>4. [sent EXCEPT !.params[i].text = <<<<>>>>] = [sent EXCEPT !.params = [p EXCEPT ![i] = e]]
      BY <2>2, <3>2, <3>3, Zenon
    <3>5. [sent EXCEPT !.params = [p EXCEPT ![i] = e]] = [fits |-> fits, params |-> [p EXCEPT ![i] = e]]
      BY <1>1
    <3>6. sent' = [sent EXCEPT !.params[i].text = <<<<>>>>] /\ faults' = faults \cup {"null"}
      BY <1>12, Zenon DEF Spoil
    <3>7. QED  BY <3>4, <3>5, <3>6, Zenon
  <2>11. name \notin Lists  BY <1>12, <2>1 DEF Lists, Numbers
  <2>6. IsParam(e) /\ Shows(p[i], e)
    <3>1. IsParam(e)
      BY <2>3, <2>11 DEF IsParam
    <3>2. Shows(p[i], e)
      BY <2>1, <2>3, <2>11 DEF Shows, Lists
    <3>3. QED  BY <3>1, <3>2
  <2>7. "null" \in HttpFaults /\ \A q : q[i] = e /\ i \in DOMAIN q => HttpTrace("null", fits, q)
    BY DEF HttpFaults, HttpTrace
  <2>8. "null" = "null"  OBVIOUS
  <2>9. HttpMessage'  BY <1>0, <2>4, <2>6, <2>7, <2>8, ParamChanged
  <2>10. QED  BY <1>12, <2>9 DEF Spoil
<1>13. QED  BY <1>0, <1>5, <1>6, <1>7, <1>8, <1>9, <1>10, <1>11, <1>12 DEF SpoilHttp

-----------------------------------------------------------------------------
\* Spoilt messages of JSON-RPC.

LEMMA SpellingIs == \A x, y : Spelling(x) = Spelling(y) => x.name = y.name
BY DEF Spelling

\* The members of one message in another.
Spells(p, q, to) ==
    /\ \A i \in DOMAIN p : to[i] \in DOMAIN q /\ Spelling(q[to[i]]) = Spelling(p[i])
    /\ \A i, j \in DOMAIN p : to[i] = to[j] => i = j

LEMMA RpcTraceKept ==
    ASSUME NEW p, NEW q, NEW fits, NEW to, Spells(p, q, to), NEW fault, RpcTrace(fault, fits, p)
    PROVE  RpcTrace(fault, fits, q) /\ RpcTrace(fault, FALSE, q)
<1>1. fault = "unknown" => \E i \in DOMAIN q : q[i].name \notin DOMAIN NoParams
  <2> SUFFICES ASSUME NEW i \in DOMAIN p, p[i].name \notin DOMAIN NoParams
               PROVE  \E j \in DOMAIN q : q[j].name \notin DOMAIN NoParams
    BY DEF RpcTrace
  <2>1. to[i] \in DOMAIN q /\ Spelling(q[to[i]]) = Spelling(p[i])  BY DEF Spells
  <2>2. q[to[i]].name = p[i].name  BY <2>1, SpellingIs
  <2>3. QED  BY <2>1, <2>2
<1>2. fault = "repeated" => \E i, j \in DOMAIN q : i # j /\ Spelling(q[i]) = Spelling(q[j])
  <2> SUFFICES ASSUME NEW i \in DOMAIN p, NEW j \in DOMAIN p, i # j, Spelling(p[i]) = Spelling(p[j])
               PROVE  \E k, l \in DOMAIN q : k # l /\ Spelling(q[k]) = Spelling(q[l])
    BY DEF RpcTrace
  <2>1. to[i] \in DOMAIN q /\ to[j] \in DOMAIN q /\ to[i] # to[j]  BY DEF Spells
  <2>2. Spelling(q[to[i]]) = Spelling(q[to[j]])  BY DEF Spells
  <2>3. QED  BY <2>1, <2>2
<1>3. QED  BY <1>1, <1>2 DEF RpcTrace

LEMMA RpcMessageKept ==
    ASSUME RpcMessage, NEW fits, NEW q, sent' = [fits |-> fits, members |-> q],
           fits = sent.fits \/ fits = FALSE, AreMembers(q), NEW to, Spells(sent.members, q, to),
           NEW spoilt \in RpcFaults, faults' = faults \cup {spoilt}, RpcTrace(spoilt, fits, q)
    PROVE  RpcMessage'
<1>1. faults' \subseteq RpcFaults  BY DEF RpcMessage
<1>2. sent'.fits = fits /\ sent'.members = q  OBVIOUS
<1>3. ASSUME NEW fault \in faults'
      PROVE  RpcTrace(fault, fits, q) \/ (fault \in {"unknown", "repeated"} /\ "all-null" \in faults')
  <2>1. CASE fault = spoilt  BY <2>1
  <2>2. CASE fault # spoilt
    <3>1. fault \in faults  BY <2>2
    <3>2. \/ RpcTrace(fault, sent.fits, sent.members)
          \/ fault \in {"unknown", "repeated"} /\ "all-null" \in faults
      BY <3>1 DEF RpcMessage
    <3>3. CASE RpcTrace(fault, sent.fits, sent.members)
      <4>1. RpcTrace(fault, sent.fits, q) /\ RpcTrace(fault, FALSE, q)  BY <3>3, RpcTraceKept, Zenon
      <4>2. CASE fits = sent.fits  BY <4>1, <4>2
      <4>3. CASE fits = FALSE  BY <4>1, <4>3
      <4>4. QED  BY <4>2, <4>3
    <3>4. CASE fault \in {"unknown", "repeated"} /\ "all-null" \in faults
      <4>1. "all-null" \in faults'  BY <3>4
      <4>2. QED  BY <3>4, <4>1
    <3>5. QED  BY <3>2, <3>3, <3>4
  <2>3. QED  BY <2>1, <2>2
<1>4. QED  BY <1>1, <1>2, <1>3 DEF RpcMessage

\* One more member at the end.
LEMMA MemberAppended ==
    ASSUME RpcMessage, NEW e, IsMember(e),
           sent' = [fits |-> sent.fits, members |-> Append(sent.members, e)],
           NEW spoilt \in RpcFaults, faults' = faults \cup {spoilt},
           \/ spoilt \notin {"unreadable", "unknown", "repeated"}
           \/ spoilt = "unknown" /\ e.name \notin DOMAIN NoParams
           \/ spoilt = "repeated" /\ \E i \in DOMAIN sent.members : e = sent.members[i]
    PROVE  RpcMessage'
<1>1. PICK p, q, fits : p = sent.members /\ q = Append(p, e) /\ fits = sent.fits  OBVIOUS
<1>2. AreMembers(p) /\ p \in Seq(Range(p))  BY <1>1 DEF RpcMessage, AreMembers
<1>3. /\ q \in Seq(Range(q)) /\ DOMAIN q = 1..(Len(p) + 1) /\ q[Len(p) + 1] = e
      /\ \A i \in 1..Len(p) : q[i] = p[i]
      /\ Len(p) \in Nat /\ DOMAIN p = 1..Len(p)
  <2>1. OneMore(p, q, e)  BY <1>1, <1>2, AppendIs, Zenon
  <2>2. QED  BY <2>1 DEF OneMore
<1>4. AreMembers(q)
  <2>1. \A i \in DOMAIN q : i \in 1..Len(p) \/ i = Len(p) + 1  BY <1>3
  <2>2. \A i \in DOMAIN q : IsMember(q[i])  BY <1>2, <1>3, <2>1 DEF AreMembers
  <2>3. QED  BY <1>3, <2>2 DEF AreMembers
<1>5. PICK same : same = [i \in DOMAIN p |-> i]  OBVIOUS
<1>6. \A i \in DOMAIN p : same[i] = i /\ i \in DOMAIN q  BY <1>3, <1>5
<1>7. Spells(p, q, same)  BY <1>3, <1>6 DEF Spells
<1>8. RpcTrace(spoilt, fits, q)
  <2>1. Len(p) + 1 \in DOMAIN q /\ Len(p) + 1 \notin DOMAIN p  BY <1>3
  <2>2. CASE spoilt \notin {"unreadable", "unknown", "repeated"}  BY <2>2 DEF RpcTrace
  <2>3. CASE spoilt = "unknown" /\ e.name \notin DOMAIN NoParams  BY <1>3, <2>1, <2>3 DEF RpcTrace
  <2>4. CASE spoilt = "repeated" /\ \E i \in DOMAIN sent.members : e = sent.members[i]
    <3>1. PICK i \in DOMAIN p : e = p[i]  BY <1>1, <2>4
    <3>2. i \in DOMAIN q /\ q[i] = e /\ i # Len(p) + 1  BY <1>3, <1>6, <2>1, <3>1
    <3>3. QED  BY <1>3, <2>1, <2>4, <3>2 DEF RpcTrace
  <2>5. QED  BY <2>2, <2>3, <2>4
<1>9. sent' = [fits |-> fits, members |-> q]  BY <1>1
<1>10. QED  BY <1>1, <1>4, <1>7, <1>8, <1>9, RpcMessageKept

LEMMA SpoilRpcHolds == ASSUME RpcMessage, SpoilRpc PROVE RpcMessage' /\ UNCHANGED <<via, intent, got>>
<1>0. PICK p, fits : p = sent.members /\ fits = sent.fits  OBVIOUS
<1>1. sent = [fits |-> fits, members |-> p]  BY <1>0 DEF RpcMessage
<1>2. AreMembers(p)  BY <1>0 DEF RpcMessage
<1>3. p \in Seq(Range(p)) /\ \A i \in DOMAIN p : IsMember(p[i])  BY <1>2 DEF AreMembers
<1>4. \A q : [sent EXCEPT !.members = q] = [fits |-> fits, members |-> q]  BY <1>1
<1>5. PICK same : same = [i \in DOMAIN p |-> i]  OBVIOUS
<1>6. \A i \in DOMAIN p : same[i] = i  BY <1>5
<1>7. CASE Spoil("unreadable", [sent EXCEPT !.fits = FALSE])
  <2>1. sent' = [fits |-> FALSE, members |-> p] /\ faults' = faults \cup {"unreadable"}
    BY <1>1, <1>7 DEF Spoil
  <2>2. RpcTrace("unreadable", FALSE, p) /\ "unreadable" \in RpcFaults  BY DEF RpcTrace, RpcFaults
  <2>3. Spells(p, p, same)  BY <1>6 DEF Spells
  <2>4. RpcMessage'  BY <1>0, <1>2, <2>1, <2>2, <2>3, RpcMessageKept
  <2>5. QED  BY <1>7, <2>4 DEF Spoil
<1>8. CASE Spoil("all-null", [sent EXCEPT !.members = <<>>])
  <2>1. PICK none : none = <<>>  OBVIOUS
  <2>2. sent' = [fits |-> fits, members |-> none] /\ faults' = faults \cup {"all-null"}
    BY <1>4, <1>8, <2>1, Zenon DEF Spoil
  <2>3. AreMembers(none)  BY <2>1 DEF AreMembers
  <2>4. sent'.fits = fits /\ sent'.members = none  BY <2>2
  <2>5. faults' \subseteq RpcFaults  BY <2>2 DEF RpcMessage, RpcFaults
  <2>6. ASSUME NEW fault \in faults'
        PROVE  RpcTrace(fault, fits, none) \/ fault \in {"unknown", "repeated"}
    <3>1. fault = "unreadable" => ~fits  BY <1>0, <2>2 DEF RpcMessage, RpcTrace
    <3>2. QED  BY <3>1 DEF RpcTrace
  <2>7. RpcMessage'  BY <2>2, <2>3, <2>4, <2>5, <2>6 DEF RpcMessage
  <2>8. QED  BY <1>8, <2>7 DEF Spoil
<1>9. CASE Spoil("unknown", [sent EXCEPT !.members = Append(@, [name |-> "sql", alias |-> FALSE, value |-> <<>>])])
  <2>1. PICK e : e = [name |-> "sql", alias |-> FALSE, value |-> <<>>]  OBVIOUS
  <2>2. sent' = [fits |-> fits, members |-> Append(p, e)] /\ faults' = faults \cup {"unknown"}
    BY <1>0, <1>4, <1>9, <2>1, Zenon DEF Spoil
  <2>3. IsMember(e) /\ e.name \notin DOMAIN NoParams
    <3>1. "sql" \notin DOMAIN NoParams  BY DEF NoParams
    <3>2. QED  BY <2>1, <3>1 DEF IsMember
  <2>4. "unknown" \in RpcFaults  BY DEF RpcFaults
  <2>5. RpcMessage'  BY <1>0, <2>2, <2>3, <2>4, MemberAppended
  <2>6. QED  BY <1>9, <2>5 DEF Spoil
<1>10. ASSUME NEW i \in DOMAIN p, Spoil("repeated", [sent EXCEPT !.members = Append(@, p[i])])
       PROVE  RpcMessage' /\ UNCHANGED <<via, intent, got>>
  <2>1. PICK e : e = p[i]  OBVIOUS
  <2>2. sent' = [fits |-> fits, members |-> Append(p, e)] /\ faults' = faults \cup {"repeated"}
    BY <1>0, <1>4, <1>10, <2>1, Zenon DEF Spoil
  <2>3. IsMember(e) /\ \E j \in DOMAIN sent.members : e = sent.members[j]  BY <1>0, <1>3, <2>1
  <2>4. "repeated" \in RpcFaults  BY DEF RpcFaults
  <2>5. RpcMessage'  BY <1>0, <2>2, <2>3, <2>4, MemberAppended
  <2>6. QED  BY <1>10, <2>5 DEF Spoil
<1>11. ASSUME NEW i \in DOMAIN p, Spoil("null", [sent EXCEPT !.members[i].value = <<>>])
       PROVE  RpcMessage' /\ UNCHANGED <<via, intent, got>>
  <2>1. PICK x, name, alias, value : x = p[i] /\ x = [name |-> name, alias |-> alias, value |-> value]
    BY <1>3 DEF IsMember
  <2>2. PICK none : none = <<>>  OBVIOUS
  <2>3. PICK e : e = [name |-> name, alias |-> alias, value |-> none]  OBVIOUS
  <2>4. PICK q : q = [p EXCEPT ![i] = e]  OBVIOUS
  <2>5. sent' = [fits |-> fits, members |-> q] /\ faults' = faults \cup {"null"}
    <3>1. x = [name |-> name, alias |-> alias, value |-> value]  BY <2>1
    <3>2. [x EXCEPT !.value = none] = e  BY <2>3, <3>1
    <3>3. sent.members = p /\ sent.members[i] = x  BY <1>0, <2>1, Zenon
    <3>4. [sent EXCEPT !.members[i].value = <<>>] = [sent EXCEPT !.members = q]
      BY <2>2, <2>4, <3>2, <3>3, Zenon
    <3>5. sent' = [sent EXCEPT !.members[i].value = <<>>] /\ faults' = faults \cup {"null"}
      BY <1>11, Zenon DEF Spoil
    <3>6. QED  BY <1>4, <3>4, <3>5, Zenon
  <2>6. /\ DOMAIN q = DOMAIN p /\ q[i] = e /\ \A j \in DOMAIN p : j # i => q[j] = p[j]
        /\ q \in Seq(Range(q))
    BY <1>3, <2>4, PartChanged
  <2>7. IsMember(e)  BY <2>3 DEF IsMember
  <2>8. AreMembers(q)  BY <1>3, <2>6, <2>7 DEF AreMembers
  <2>9. Spelling(e) = Spelling(p[i])
    <3>1. x = [name |-> name, alias |-> alias, value |-> value]  BY <2>1
    <3>2. Spelling(e) = Spelling(x)  BY <2>3, <3>1 DEF Spelling
    <3>3. QED  BY <2>1, <3>2
  <2>10. Spells(p, q, same)  BY <1>6, <2>6, <2>9 DEF Spells
  <2>11. RpcTrace("null", fits, q) /\ "null" \in RpcFaults  BY DEF RpcTrace, RpcFaults
  <2>12. RpcMessage'  BY <1>0, <2>5, <2>8, <2>10, <2>11, RpcMessageKept
  <2>13. QED  BY <1>11, <2>12 DEF Spoil
<1>12. ASSUME NEW i \in DOMAIN p,
              Spoil("alias-null", [sent EXCEPT !.members = Append(@, [p[i] EXCEPT !.alias = TRUE, !.value = <<>>])])
       PROVE  RpcMessage' /\ UNCHANGED <<via, intent, got>>
  <2>1. PICK x, name, alias, value : x = p[i] /\ x = [name |-> name, alias |-> alias, value |-> value]
    BY <1>3 DEF IsMember
  <2>2. PICK yes, new : yes = TRUE /\ new = <<>>  OBVIOUS
  <2>3. PICK e : e = [name |-> name, alias |-> yes, value |-> new]  OBVIOUS
  <2>4. sent' = [fits |-> fits, members |-> Append(p, e)] /\ faults' = faults \cup {"alias-null"}
    <3>1. x = [name |-> name, alias |-> alias, value |-> value]  BY <2>1
    <3>2. [x EXCEPT !.alias = yes, !.value = new] = e
      <4>1. PICK y : y = [name |-> name, alias |-> yes, value |-> value]  OBVIOUS
      <4>2. [x EXCEPT !.alias = yes] = y  BY <3>1, <4>1
      <4>3. [y EXCEPT !.value = new] = e  BY <2>3, <4>1
      <4>4. QED  BY <4>2, <4>3, Zenon
    <3>3. [p[i] EXCEPT !.alias = TRUE, !.value = <<>>] = e  BY <2>1, <2>2, <3>2, Zenon
    <3>4. sent' = [sent EXCEPT !.members = Append(p, e)]  BY <1>0, <1>12, <3>3, Zenon DEF Spoil
    <3>5. faults' = faults \cup {"alias-null"}  BY <1>12 DEF Spoil
    <3>6. QED  BY <1>4, <3>4, <3>5, Zenon
  <2>5. IsMember(e)  BY <2>3 DEF IsMember
  <2>6. "alias-null" \in RpcFaults  BY DEF RpcFaults
  <2>7. RpcMessage'  BY <1>0, <2>4, <2>5, <2>6, MemberAppended
  <2>8. QED  BY <1>12, <2>7 DEF Spoil
<1>13. ASSUME NEW i \in DOMAIN p,
              Spoil("alias-page", [sent EXCEPT !.members = Append(@, [p[i] EXCEPT !.alias = TRUE, !.value = <<[Unset(ZeroPage) EXCEPT !.size = << 7 >>]>>])])
       PROVE  RpcMessage' /\ UNCHANGED <<via, intent, got>>
  <2>1. PICK x, name, alias, value : x = p[i] /\ x = [name |-> name, alias |-> alias, value |-> value]
    BY <1>3 DEF IsMember
  <2>2. PICK yes, new : yes = TRUE /\ new = <<[Unset(ZeroPage) EXCEPT !.size = << 7 >>]>>  OBVIOUS
  <2>3. PICK e : e = [name |-> name, alias |-> yes, value |-> new]  OBVIOUS
  <2>4. sent' = [fits |-> fits, members |-> Append(p, e)] /\ faults' = faults \cup {"alias-page"}
    <3>1. x = [name |-> name, alias |-> alias, value |-> value]  BY <2>1
    <3>2. [x EXCEPT !.alias = yes, !.value = new] = e
      <4>1. PICK y : y = [name |-> name, alias |-> yes, value |-> value]  OBVIOUS
      <4>2. [x EXCEPT !.alias = yes] = y  BY <3>1, <4>1
      <4>3. [y EXCEPT !.value = new] = e  BY <2>3, <4>1
      <4>4. QED  BY <4>2, <4>3, Zenon
    <3>3. [p[i] EXCEPT !.alias = TRUE, !.value = <<[Unset(ZeroPage) EXCEPT !.size = << 7 >>]>>] = e  BY <2>1, <2>2, <3>2, Zenon
    <3>4. sent' = [sent EXCEPT !.members = Append(p, e)]  BY <1>0, <1>13, <3>3, Zenon DEF Spoil
    <3>5. faults' = faults \cup {"alias-page"}  BY <1>13 DEF Spoil
    <3>6. QED  BY <1>4, <3>4, <3>5, Zenon
  <2>5. IsMember(e)  BY <2>3 DEF IsMember
  <2>6. "alias-page" \in RpcFaults  BY DEF RpcFaults
  <2>7. RpcMessage'  BY <1>0, <2>4, <2>5, <2>6, MemberAppended
  <2>8. QED  BY <1>13, <2>7 DEF Spoil
<1>14. QED  BY <1>0, <1>7, <1>8, <1>9, <1>10, <1>11, <1>12, <1>13 DEF SpoilRpc

-----------------------------------------------------------------------------
\* Spoilt queries of JSON:API.

LEMMA ApiMessageKept ==
    ASSUME ApiMessage, NEW q, NEW c, sent' = [query |-> q, config |-> c], intent' = intent,
           q = [fields |-> q.fields, include |-> q.include, sort |-> q.sort,
                filter |-> sent.query.filter, page |-> sent.query.page],
           c = [resource |-> c.resource, filter |-> c.filter, page |-> c.page],
           NEW spoilt \in ApiFaults, faults' = faults \cup {spoilt},
           c.resource = Blank \/ (spoilt # "no-resource" /\ c.resource = sent.config.resource),
           \/ c.filter \in {"absent", "fails", "nil"}
           \/ spoilt # "filter-decoder" /\ c.filter = sent.config.filter,
           c.page \in {"absent", "fails"} \/ (spoilt # "page-decoder" /\ c.page = sent.config.page)
    PROVE  ApiMessage'
<1>1. sent'.query = q /\ sent'.config = c  OBVIOUS
<1>2. q.filter = sent.query.filter /\ q.page = sent.query.page  OBVIOUS
<1>3. faults' \subseteq ApiFaults  BY DEF ApiMessage
<1>4. q.filter = intent'.filter /\ q.page = IF intent'.page = ZeroPage THEN <<>> ELSE <<intent'.page>>
  BY <1>2 DEF ApiMessage
<1>5. "no-resource" \in faults' => c.resource = Blank  BY DEF ApiMessage
<1>6. "filter-decoder" \in faults' => c.filter \in {"absent", "fails", "nil"}  BY DEF ApiMessage
<1>7. "page-decoder" \in faults' => c.page \in {"absent", "fails"}  BY DEF ApiMessage
<1>8. q = [fields |-> q.fields, include |-> q.include, sort |-> q.sort, filter |-> q.filter, page |-> q.page]
  BY <1>2
<1>9. QED  BY <1>1, <1>3, <1>4, <1>5, <1>6, <1>7, <1>8 DEF ApiMessage

LEMMA SpoilJsonApiHolds == ASSUME ApiMessage, SpoilJsonApi PROVE ApiMessage' /\ UNCHANGED <<via, intent, got>>
<1>1. PICK q, c : sent = [query |-> q, config |-> c] /\ q = sent.query /\ c = sent.config
  BY DEF ApiMessage
<1>2. PICK r, f, g : c = [resource |-> r, filter |-> f, page |-> g]  BY <1>1 DEF ApiMessage
<1>3. r = sent.config.resource /\ f = sent.config.filter /\ g = sent.config.page  BY <1>1, <1>2
<1>4. PICK fields, include, sort, filter, page :
         q = [fields |-> fields, include |-> include, sort |-> sort, filter |-> filter, page |-> page]
  BY <1>1 DEF ApiMessage
<1>5. filter = sent.query.filter /\ page = sent.query.page  BY <1>1, <1>4
<1>6. q = [fields |-> q.fields, include |-> q.include, sort |-> q.sort,
           filter |-> sent.query.filter, page |-> sent.query.page]
  BY <1>4, <1>5
<1>7. \A x : [sent EXCEPT !.config = x] = [query |-> q, config |-> x]  BY <1>1
<1>8. CASE Spoil("no-resource", [sent EXCEPT !.config.resource = Blank])
  <2>1. PICK d : d = [resource |-> Blank, filter |-> f, page |-> g]  OBVIOUS
  <2>2. [c EXCEPT !.resource = Blank] = d  BY <1>2, <2>1
  <2>3. sent' = [query |-> q, config |-> d]  BY <1>1, <1>7, <1>8, <2>2, Zenon DEF Spoil
  <2>4. faults' = faults \cup {"no-resource"} /\ intent' = intent /\ "no-resource" \in ApiFaults
    BY <1>8 DEF Spoil, ApiFaults
  <2>5. /\ d = [resource |-> d.resource, filter |-> d.filter, page |-> d.page]
        /\ d.resource = Blank /\ d.filter = f /\ d.page = g
    BY <2>1
  <2>6. ApiMessage'  BY <1>3, <1>6, <2>3, <2>4, <2>5, ApiMessageKept
  <2>7. QED  BY <1>8, <2>6 DEF Spoil
<1>9. CASE Spoil("other-fieldset", [sent EXCEPT !.query.fields = @ \cup {[resource |-> "lines", list |-> <<>>]}])
  <2>1. PICK more : more = fields \cup {[resource |-> "lines", list |-> <<>>]}  OBVIOUS
  <2>2. PICK e : e = [fields |-> more, include |-> include, sort |-> sort, filter |-> filter, page |-> page]
    OBVIOUS
  <2>3. [q EXCEPT !.fields = more] = e  BY <1>4, <2>2
  <2>4. q.fields = fields  BY <1>4
  <2>5. sent' = [sent EXCEPT !.query = e]  BY <1>1, <1>9, <2>1, <2>3, <2>4, Zenon DEF Spoil
  <2>6. sent' = [query |-> e, config |-> c]  BY <1>1, <2>5
  <2>7. e = [fields |-> e.fields, include |-> e.include, sort |-> e.sort,
             filter |-> sent.query.filter, page |-> sent.query.page]
    BY <1>5, <2>2
  <2>8. /\ faults' = faults \cup {"other-fieldset"} /\ intent' = intent
        /\ "other-fieldset" \in ApiFaults
    BY <1>9 DEF Spoil, ApiFaults
  <2>9. /\ c = [resource |-> c.resource, filter |-> c.filter, page |-> c.page]
        /\ c.resource = r /\ c.filter = f /\ c.page = g
    BY <1>2
  <2>10. ApiMessage'  BY <1>3, <2>6, <2>7, <2>8, <2>9, ApiMessageKept
  <2>11. QED  BY <1>9, <2>10 DEF Spoil
<1>10. ASSUME NEW decoder \in {"absent", "fails", "nil"},
              Spoil("filter-decoder", [sent EXCEPT !.config.filter = decoder])
       PROVE  ApiMessage' /\ UNCHANGED <<via, intent, got>>
  <2>1. PICK d : d = [resource |-> r, filter |-> decoder, page |-> g]  OBVIOUS
  <2>2. [c EXCEPT !.filter = decoder] = d  BY <1>2, <2>1
  <2>3. sent' = [query |-> q, config |-> d]  BY <1>1, <1>7, <1>10, <2>2, Zenon DEF Spoil
  <2>4. faults' = faults \cup {"filter-decoder"} /\ intent' = intent /\ "filter-decoder" \in ApiFaults
    BY <1>10 DEF Spoil, ApiFaults
  <2>5. /\ d = [resource |-> d.resource, filter |-> d.filter, page |-> d.page]
        /\ d.resource = r /\ d.filter = decoder /\ d.page = g
    BY <2>1
  <2>6. ApiMessage'  BY <1>3, <1>6, <2>3, <2>4, <2>5, ApiMessageKept
  <2>7. QED  BY <1>10, <2>6 DEF Spoil
<1>11. ASSUME NEW decoder \in {"absent", "fails"},
              Spoil("page-decoder", [sent EXCEPT !.config.page = decoder])
       PROVE  ApiMessage' /\ UNCHANGED <<via, intent, got>>
  <2>1. PICK d : d = [resource |-> r, filter |-> f, page |-> decoder]  OBVIOUS
  <2>2. [c EXCEPT !.page = decoder] = d  BY <1>2, <2>1
  <2>3. sent' = [query |-> q, config |-> d]  BY <1>1, <1>7, <1>11, <2>2, Zenon DEF Spoil
  <2>4. faults' = faults \cup {"page-decoder"} /\ intent' = intent /\ "page-decoder" \in ApiFaults
    BY <1>11 DEF Spoil, ApiFaults
  <2>5. /\ d = [resource |-> d.resource, filter |-> d.filter, page |-> d.page]
        /\ d.resource = r /\ d.filter = f /\ d.page = decoder
    BY <2>1
  <2>6. ApiMessage'  BY <1>3, <1>6, <2>3, <2>4, <2>5, ApiMessageKept
  <2>7. QED  BY <1>11, <2>6 DEF Spoil
<1>12. QED  BY <1>8, <1>9, <1>10, <1>11, Zenon DEF SpoilJsonApi

-----------------------------------------------------------------------------
\* Every message.

LEMMA TransportStarts == TransportInit => TransportInv
<1> SUFFICES ASSUME TransportInit PROVE TransportInv  OBVIOUS
<1>1. /\ via \in {"http", "rpc", "jsonapi"} /\ intent \in Intents /\ faults = {} /\ got = <<>>
      /\ via = "http" => sent = HttpText(intent)
      /\ via = "rpc" => sent = RpcText(intent)
      /\ via = "jsonapi" => sent = JsonApiQuery(intent)
  BY DEF TransportInit
<1>2. ASSUME via = "http" PROVE HttpMessage
  <2>1. sent = HttpText(intent)  BY <1>1, <1>2
  <2>2. sent = [fits |-> TRUE, params |-> sent.params] /\ AreParams(sent.params)
    BY <1>1, <2>1, HttpTextIs, Zenon
  <2>3. sent = [fits |-> sent.fits, params |-> sent.params]  BY <2>2
  <2>4. QED  BY <1>1, <2>2, <2>3 DEF HttpMessage
<1>3. ASSUME via = "rpc" PROVE RpcMessage
  <2>1. sent = RpcText(intent)  BY <1>1, <1>3
  <2>2. sent = [fits |-> TRUE, members |-> sent.members] /\ AreMembers(sent.members)
    BY <1>1, <2>1, RpcTextIs, Zenon
  <2>3. sent = [fits |-> sent.fits, members |-> sent.members]  BY <2>2
  <2>4. QED  BY <1>1, <2>2, <2>3 DEF RpcMessage
<1>4. ASSUME via = "jsonapi" PROVE ApiMessage
  <2>1. PICK fields, sort, page :
           /\ page = IF intent.page = ZeroPage THEN <<>> ELSE <<intent.page>>
           /\ sent = [query |-> [fields |-> fields, include |-> intent.includes, sort |-> sort,
                                 filter |-> intent.filter, page |-> page],
                      config |-> [resource |-> "orders", filter |-> "works", page |-> "works"]]
    BY <1>1, <1>4, Zenon DEF JsonApiQuery
  <2>2. PICK q, c :
           /\ q = [fields |-> fields, include |-> intent.includes, sort |-> sort,
                   filter |-> intent.filter, page |-> page]
           /\ c = [resource |-> "orders", filter |-> "works", page |-> "works"]
    OBVIOUS
  <2>3. sent = [query |-> q, config |-> c]  BY <2>1, <2>2
  <2>4. sent.query = q /\ sent.config = c  BY <2>3
  <2>5. q.filter = intent.filter /\ q.page = page  BY <2>2
  <2>6. q = [fields |-> q.fields, include |-> q.include, sort |-> q.sort, filter |-> q.filter, page |-> q.page]
    BY <2>2
  <2>7. c = [resource |-> c.resource, filter |-> c.filter, page |-> c.page]  BY <2>2
  <2>8. QED  BY <1>1, <2>1, <2>3, <2>4, <2>5, <2>6, <2>7 DEF ApiMessage
<1>5. QED  BY <1>1, <1>2, <1>3, <1>4 DEF TransportInv, Message

LEMMA TransportSteps == TransportInv /\ [TransportNext]_tvars => TransportInv'
<1> SUFFICES ASSUME TransportInv, [TransportNext]_tvars PROVE TransportInv'  OBVIOUS
<1>1. CASE SpoilHttp
  <2>1. via = "http" /\ got = <<>> /\ HttpMessage
    BY <1>1 DEF SpoilHttp, Spoil, TransportInv, Message
  <2>2. HttpMessage' /\ UNCHANGED <<via, intent, got>>  BY <1>1, <2>1, SpoilHttpHolds
  <2>3. via' = "http" /\ got' = <<>>  BY <2>1, <2>2
  <2>4. QED  BY <2>2, <2>3 DEF TransportInv, Message
<1>2. CASE SpoilRpc
  <2>1. via = "rpc" /\ got = <<>> /\ RpcMessage
    BY <1>2 DEF SpoilRpc, Spoil, TransportInv, Message
  <2>2. RpcMessage' /\ UNCHANGED <<via, intent, got>>  BY <1>2, <2>1, SpoilRpcHolds
  <2>3. via' = "rpc" /\ got' = <<>>  BY <2>1, <2>2
  <2>4. QED  BY <2>2, <2>3 DEF TransportInv, Message
<1>3. CASE SpoilJsonApi
  <2>1. via = "jsonapi" /\ got = <<>> /\ ApiMessage
    BY <1>3 DEF SpoilJsonApi, Spoil, TransportInv, Message
  <2>2. ApiMessage' /\ UNCHANGED <<via, intent, got>>  BY <1>3, <2>1, SpoilJsonApiHolds
  <2>3. via' = "jsonapi" /\ got' = <<>>  BY <2>1, <2>2
  <2>4. QED  BY <2>2, <2>3 DEF TransportInv, Message
<1>4. ASSUME UNCHANGED <<via, intent, sent, faults>> PROVE Message' /\ Answer' = Answer
  <2>1. HttpMessage => HttpMessage'  BY <1>4 DEF HttpMessage
  <2>2. RpcMessage => RpcMessage'  BY <1>4 DEF RpcMessage
  <2>3. ApiMessage => ApiMessage'  BY <1>4 DEF ApiMessage
  <2>4. Message'  BY <1>4, <2>1, <2>2, <2>3 DEF TransportInv, Message
  <2>5. Answer' = Answer  BY <1>4 DEF Answer
  <2>6. QED  BY <2>4, <2>5
<1>5. CASE Parse
  <2>1. UNCHANGED <<via, intent, sent, faults>> /\ got' = <<Answer>>  BY <1>5 DEF Parse, Answer
  <2>2. QED  BY <1>4, <2>1, Zenon DEF TransportInv
<1>6. CASE UNCHANGED tvars
  <2>1. UNCHANGED <<via, intent, sent, faults>> /\ got' = got  BY <1>6 DEF tvars
  <2>2. Message' /\ Answer' = Answer  BY <1>4, <2>1
  <2>3. QED  BY <2>1, <2>2, Zenon DEF TransportInv
<1>7. QED  BY <1>1, <1>2, <1>3, <1>5, <1>6 DEF TransportNext

LEMMA TransportRejects == TransportInv => Rejected
<1> SUFFICES ASSUME TransportInv PROVE Rejected  OBVIOUS
<1> DEFINE refused == {"unreadable", "unknown", "repeated", "not-UTF-8", "empty-item", "bare-dash", "no-resource"}
           counted == refused \ IF "all-null" \in faults THEN {"unknown", "repeated"} ELSE {}
<1>1. SUFFICES ASSUME NEW i \in DOMAIN got
               PROVE  /\ got[i].error # Blank => got[i].request = ZeroRequest
                      /\ faults \cap counted # {} => got[i].error # Blank
                      /\ via = "http" /\ "malformed" \in faults /\ "null" \notin faults => got[i].error # Blank
                      /\ via = "jsonapi" /\ intent.filter # <<>> /\ "filter-decoder" \in faults =>
                            got[i].error = IF sent.config.filter = "absent" /\ sent.config.resource # Blank
                                           THEN "unsupported" ELSE "invalid"
                      /\ via = "jsonapi" /\ intent.page # ZeroPage /\ "page-decoder" \in faults =>
                            got[i].error # Blank
  BY Zenon DEF Rejected
<1>2. got[i] = Answer
  <2>1. got = <<Answer>>  BY DEF TransportInv
  <2>2. PICK a : a = Answer  OBVIOUS
  <2>3. got = <<a>>  BY <2>1, <2>2
  <2>4. DOMAIN got = {1} /\ got[1] = a  BY <2>3
  <2>5. QED  BY <2>2, <2>4
<1>3. CASE via = "http"
  <2>1. HttpMessage /\ got[i] = HttpParse(sent)  BY <1>2, <1>3 DEF TransportInv, Message, Answer
  <2>2. got[i].error # Blank => got[i].request = ZeroRequest
    <3>1. PICK error, request : got[i] = Result(error, request)  BY <2>1, Zenon DEF HttpParse
    <3>2. QED  BY <3>1, ResultIs
  <2>3. faults \subseteq HttpFaults  BY <2>1 DEF HttpMessage
  <2>4. faults \cap counted # {} =>
           faults \cap {"unreadable", "unknown", "repeated", "not-UTF-8", "empty-item", "bare-dash"} # {}
    BY <2>3 DEF HttpFaults
  <2>5. QED  BY <1>3, <2>1, <2>2, <2>4, HttpRefuses
<1>4. CASE via = "rpc"
  <2>1. RpcMessage /\ got[i] = RpcParse(sent)  BY <1>2, <1>4 DEF TransportInv, Message, Answer
  <2>2. got[i].error # Blank => got[i].request = ZeroRequest
    <3>1. PICK error, request : got[i] = Result(error, request)  BY <2>1, Zenon DEF RpcParse
    <3>2. QED  BY <3>1, ResultIs
  <2>3. faults \subseteq RpcFaults  BY <2>1 DEF RpcMessage
  <2>4. faults \cap counted # {} =>
           \/ "unreadable" \in faults
           \/ "all-null" \notin faults /\ faults \cap {"unknown", "repeated"} # {}
    BY <2>3 DEF RpcFaults
  <2>5. QED  BY <1>4, <2>1, <2>2, <2>4, RpcRefuses
<1>5. CASE via = "jsonapi"
  <2>1. ApiMessage /\ got[i] = FromQuery(sent.query, sent.config)
    BY <1>2, <1>5 DEF TransportInv, Message, Answer
  <2>2. got[i].error # Blank => got[i].request = ZeroRequest
    <3>1. PICK error, request : got[i] = Result(error, request)  BY <2>1, Zenon DEF FromQuery
    <3>2. QED  BY <3>1, ResultIs
  <2>3. faults \subseteq ApiFaults  BY <2>1 DEF ApiMessage
  <2>4. faults \cap counted # {} => "no-resource" \in faults  BY <2>3 DEF ApiFaults
  <2>5. QED  BY <1>5, <2>1, <2>2, <2>4, ApiRefuses
<1>6. QED  BY <1>3, <1>4, <1>5 DEF TransportInv, Message

\* Every message of the three transports keeps the trace of how it was spoilt until
\* it is parsed, and is answered once, by its adapter.
THEOREM MessageInvariant == TransportSpec => []TransportInv
BY TransportStarts, TransportSteps, PTL DEF TransportSpec

\* What the documents say is rejected is rejected, whatever else the message says, and
\* a rejected message hands out no request (src/docs/http.md:19-21,
\* src/docs/openrpc.md:8-9, src/docs/jsonapi.md:12-17).
THEOREM FaultsAreRejected == TransportSpec => []Rejected
BY MessageInvariant, TransportRejects, PTL

-----------------------------------------------------------------------------
\* A request that is written and read back.

\* A text that is optional component by component is read back as what was given.
LEMMA GivenMerged ==
    ASSUME NEW r, NEW zero, r = [m \in DOMAIN zero |-> r[m]]
    PROVE  Merged(zero, Given(r, zero)) = r
<1> DEFINE given == Given(r, zero)
<1>1. DOMAIN given = DOMAIN r /\ DOMAIN r = DOMAIN zero  BY DEF Given
<1>2. ASSUME NEW m \in DOMAIN zero
      PROVE  (IF given[m] = <<>> THEN zero[m] ELSE given[m][1]) = r[m]
  <2>1. PICK v : v = r[m]  OBVIOUS
  <2>2. <<v>> # <<>> /\ <<v>>[1] = v  OBVIOUS
  <2>3. given[m] = IF r[m] = zero[m] THEN <<>> ELSE <<v>>  BY <1>1, <2>1 DEF Given
  <2>4. QED  BY <2>1, <2>2, <2>3
<1> HIDE DEF given
<1>3. [m \in DOMAIN zero |-> IF given[m] = <<>> THEN zero[m] ELSE given[m][1]] = [m \in DOMAIN zero |-> r[m]]
  BY <1>2
<1>4. QED  BY <1>3 DEF Merged, given

\* A comma-separated list of names that are not empty is read as what it was written from.
LEMMA ListReadBack ==
    ASSUME NEW list, ~Contains(list, Empty)
    PROVE  commaList(ListText(list)) = <<list>>
<1>1. CASE list = <<>>  BY <1>1 DEF commaList, ListText
<1>2. CASE list # <<>>
  <2>1. ListText(list) = list  BY <1>2 DEF ListText
  <2>2. list # <<Empty>>
    <3>1. SUFFICES ASSUME list = <<Empty>> PROVE FALSE  OBVIOUS
    <3>2. PICK e : e = Empty  OBVIOUS
    <3>3. Len(<<e>>) = 1 /\ <<e>>[1] = e  OBVIOUS
    <3>4. Contains(<<e>>, e)  BY <3>3 DEF Contains
    <3>5. QED  BY <3>1, <3>2, <3>4, Zenon
  <2>3. QED  BY <2>1, <2>2 DEF commaList
<1>3. QED  BY <1>1, <1>2

DashedItem(t) == [t.name EXCEPT !.dashes = @ + IF t.direction = "desc" THEN 1 ELSE 0]

LEMMA SortTermReadBack ==
    ASSUME NEW t, IsSortTerm(t)
    PROVE  DashedItem(t) # Empty /\ SortTerm(DashedItem(t)) = t
<1>1. PICK dashes, name, direction :
         /\ t = [name |-> [dashes |-> dashes, name |-> name], direction |-> direction]
         /\ dashes \in Nat /\ (direction = "desc" \/ (direction = "asc" /\ dashes = 0))
  BY DEF IsSortTerm, ListItem
<1>2. PICK blank : blank = Blank  OBVIOUS
<1>3. Empty = [dashes |-> 0, name |-> blank]  BY <1>2 DEF Empty, ListItem
<1>4. t.name = [dashes |-> dashes, name |-> name] /\ t.direction = direction  BY <1>1
<1>5. CASE direction = "asc"
  <2>1. DashedItem(t) = [dashes |-> dashes, name |-> name]  BY <1>1, <1>4, <1>5 DEF DashedItem
  <2>2. SortTerm(DashedItem(t)) = [name |-> [dashes |-> dashes, name |-> name], direction |-> "asc"]
    BY <1>1, <1>5, <2>1 DEF SortTerm
  <2>3. QED  BY <1>1, <1>4, <1>5, <2>1, <2>2 DEF IsSortTerm
<1>6. CASE direction = "desc"
  <2>1. DashedItem(t) = [dashes |-> dashes + 1, name |-> name]  BY <1>1, <1>4, <1>6 DEF DashedItem
  <2>2. (dashes + 1) - 1 = dashes /\ dashes + 1 # 0  BY <1>1
  <2>3. SortTerm(DashedItem(t)) = [name |-> [dashes |-> dashes, name |-> name], direction |-> "desc"]
    <3>1. PICK item : item = [dashes |-> dashes + 1, name |-> name]  OBVIOUS
    <3>2. item.dashes # 0 /\ [item EXCEPT !.dashes = @ - 1] = [dashes |-> dashes, name |-> name]  BY <2>2, <3>1
    <3>3. SortTerm(item) = [name |-> [dashes |-> dashes, name |-> name], direction |-> "desc"]  BY <3>2 DEF SortTerm
    <3>4. QED  BY <2>1, <3>1, <3>3
  <2>4. DashedItem(t) # Empty
    <3>1. DashedItem(t).dashes = dashes + 1 /\ Empty.dashes = 0  BY <1>3, <2>1
    <3>2. QED  BY <2>2, <3>1
  <2>5. QED  BY <1>1, <1>6, <2>3, <2>4
<1>7. QED  BY <1>1, <1>5, <1>6

LEMMA SortReadBack ==
    ASSUME NEW terms, terms \in Seq(Range(terms)), \A i \in DOMAIN terms : IsSortTerm(terms[i])
    PROVE  sortList(SortText(terms)) = <<terms>>
<1> DEFINE list == [i \in DOMAIN terms |-> DashedItem(terms[i])]
           back == [i \in DOMAIN list |-> SortTerm(list[i])]
<1>0. DOMAIN terms = 1..Len(terms) /\ Len(terms) \in Nat  OBVIOUS
<1>1. SortText(terms) = ListText(list)  BY DEF SortText, DashedItem
<1>2. \A i \in DOMAIN terms : list[i] # Empty /\ SortTerm(list[i]) = terms[i]  BY SortTermReadBack
<1>3. DOMAIN list = DOMAIN terms  OBVIOUS
<1>4. ~Contains(list, Empty)
  <2>1. list = [i \in 1..Len(terms) |-> list[i]]  BY <1>0
  <2> HIDE DEF list
  <2>2. Len(list) = Len(terms)  BY <1>0, <1>3
  <2>3. QED  BY <1>0, <1>2, <2>2 DEF Contains
<1>5. commaList(SortText(terms)) = <<list>>  BY <1>1, <1>4, ListReadBack
<1> HIDE DEF list
<1>6. back = [i \in DOMAIN terms |-> terms[i]]  BY <1>2, <1>3
<1>7. back = terms  BY <1>0, <1>6
<1>8. \A i \in DOMAIN back : back[i].name # Empty
  <2>1. \A i \in DOMAIN terms : terms[i].name # Empty  BY DEF IsSortTerm
  <2>2. QED  BY <1>7, <2>1
<1>9. <<list>> # <<>> /\ <<list>>[1] = list  OBVIOUS
<1>10. sortList(SortText(terms)) = <<back>>  BY <1>5, <1>8, <1>9 DEF sortList
<1>11. QED  BY <1>7, <1>10, Zenon

\* The parameters p tell the components S of w: one parameter for each that is there.
Tells(p, S, w) ==
    /\ p \in Seq(Range(p))
    /\ \A i \in DOMAIN p : /\ p[i].utf8 /\ p[i].name \in S
                           /\ w[p[i].name] # <<>> /\ p[i].text = w[p[i].name][1]
    /\ \A i, j \in DOMAIN p : p[i].name = p[j].name => i = j
    /\ \A n \in S : w[n] # <<>> => \E i \in DOMAIN p : p[i].name = n

LEMMA TellsOne ==
    ASSUME NEW o, IsOptional(o), NEW name, NEW s, NEW w,
           s = [i \in DOMAIN o |-> Param(name, s[i].text)], w[name] = [i \in DOMAIN o |-> s[i].text]
    PROVE  Tells(s, {name}, w)
<1>1. CASE o = <<>>
  <2>1. s = <<>> /\ w[name] = <<>>  BY <1>1
  <2>2. QED  BY <2>1 DEF Tells
<1>2. CASE o # <<>>
  <2>1. DOMAIN o = {1}
    <3>1. PICK v : v = o[1]  OBVIOUS
    <3>2. DOMAIN <<v>> = 1..1  OBVIOUS
    <3>3. o = <<v>>  BY <1>2, <3>1 DEF IsOptional
    <3>4. QED  BY <3>2, <3>3
  <2>2. PICK x : x = s[1].text  OBVIOUS
  <2>3. DOMAIN s = {1} /\ s[1] = [name |-> name, text |-> x, utf8 |-> TRUE]  BY <2>1, <2>2 DEF Param
  <2>4. s = [i \in 1..1 |-> s[i]]  BY <2>1
  <2>5. s \in Seq(Range(s))  BY <2>4, FunctionIsSequence
  <2>6. w[name] # <<>> /\ w[name][1] = x  BY <2>1, <2>2
  <2>7. QED  BY <2>3, <2>5, <2>6 DEF Tells
<1>3. QED  BY <1>1, <1>2

LEMMA TellsBoth ==
    ASSUME NEW p, NEW q, NEW S, NEW T, NEW w, Tells(p, S, w), Tells(q, T, w), S \cap T = {}
    PROVE  Tells(p \o q, S \cup T, w)
<1> DEFINE r == p \o q
<1>1. p \in Seq(Range(p)) /\ q \in Seq(Range(q))  BY DEF Tells
<1>0. AreJoined(p, q, r)  BY <1>1, SequencesJoin
<1> HIDE DEF r
<1>2. /\ r \in Seq(Range(r)) /\ DOMAIN p = 1..Len(p) /\ DOMAIN q = 1..Len(q)
      /\ Len(p) \in Nat /\ Len(q) \in Nat /\ DOMAIN r = 1..(Len(p) + Len(q))
      /\ \A i \in 1..Len(p) : r[i] = p[i]
      /\ \A i \in 1..Len(q) : r[Len(p) + i] = q[i]
      /\ \A i \in DOMAIN r : (i \in 1..Len(p)) \/ (\E j \in 1..Len(q) : i = Len(p) + j)
  BY <1>0 DEF AreJoined
<1>3. \A i \in DOMAIN r : \/ i \in DOMAIN p /\ r[i] = p[i] /\ p[i].name \in S
                          \/ \E j \in DOMAIN q : i = Len(p) + j /\ r[i] = q[j] /\ q[j].name \in T
  <2>1. (\A i \in DOMAIN p : p[i].name \in S) /\ (\A j \in DOMAIN q : q[j].name \in T)  BY DEF Tells
  <2> SUFFICES ASSUME NEW i \in DOMAIN r
               PROVE  \/ i \in DOMAIN p /\ r[i] = p[i] /\ p[i].name \in S
                      \/ \E j \in DOMAIN q : i = Len(p) + j /\ r[i] = q[j] /\ q[j].name \in T
    OBVIOUS
  <2>2. CASE i \in 1..Len(p)  BY <1>2, <2>1, <2>2
  <2>3. CASE \E j \in 1..Len(q) : i = Len(p) + j
    <3>1. PICK j \in 1..Len(q) : i = Len(p) + j  BY <2>3
    <3>2. j \in DOMAIN q /\ r[i] = q[j] /\ q[j].name \in T  BY <1>2, <2>1, <3>1
    <3>3. QED  BY <3>1, <3>2
  <2>4. QED  BY <1>2, <2>2, <2>3
<1>4. \A i \in DOMAIN r : /\ r[i].utf8 /\ r[i].name \in S \cup T
                          /\ w[r[i].name] # <<>> /\ r[i].text = w[r[i].name][1]
  BY <1>3 DEF Tells
<1>5. ASSUME NEW i \in DOMAIN r, NEW j \in DOMAIN r, r[i].name = r[j].name PROVE i = j
  <2>1. CASE i \in DOMAIN p /\ r[i] = p[i] /\ p[i].name \in S
    <3>1. j \in DOMAIN p /\ r[j] = p[j]  BY <1>3, <1>5, <2>1
    <3>2. QED  BY <1>5, <2>1, <3>1 DEF Tells
  <2>2. CASE \E k \in DOMAIN q : i = Len(p) + k /\ r[i] = q[k] /\ q[k].name \in T
    <3>1. PICK k \in DOMAIN q : i = Len(p) + k /\ r[i] = q[k] /\ q[k].name \in T  BY <2>2
    <3>2. PICK l \in DOMAIN q : j = Len(p) + l /\ r[j] = q[l]  BY <1>3, <1>5, <3>1
    <3>3. k = l  BY <1>5, <3>1, <3>2 DEF Tells
    <3>4. QED  BY <3>1, <3>2, <3>3
  <2>3. QED  BY <1>3, <2>1, <2>2
<1>6. ASSUME NEW n \in S \cup T, w[n] # <<>> PROVE \E i \in DOMAIN r : r[i].name = n
  <2>1. CASE n \in S
    <3>1. PICK i \in DOMAIN p : p[i].name = n  BY <1>6, <2>1 DEF Tells
    <3>2. i \in DOMAIN r /\ r[i] = p[i]  BY <1>2
    <3>3. QED  BY <3>1, <3>2
  <2>2. CASE n \in T
    <3>1. PICK i \in DOMAIN q : q[i].name = n  BY <1>6, <2>2 DEF Tells
    <3>2. Len(p) + i \in DOMAIN r /\ r[Len(p) + i] = q[i]  BY <1>2
    <3>3. QED  BY <3>1, <3>2
  <2>3. QED  BY <1>6, <2>1, <2>2
<1>7. QED  BY <1>2, <1>4, <1>5, <1>6 DEF Tells, r

\* Each is read from the one parameter that bears its name.
LEMMA TellsRead ==
    ASSUME NEW p, NEW S, NEW w, Tells(p, S, w), NEW n \in S
    PROVE  /\ w[n] = <<>> => ~One(p, n) /\ Read(p, n) = <<>>
           /\ w[n] # <<>> => One(p, n) /\ Read(p, n) = Reads(n, w[n][1])
           /\ \A i \in DOMAIN p : p[i].name = n => EntriesOf(p, n) = {i}
<1>1. \A i \in DOMAIN p : p[i].name = n => EntriesOf(p, n) = {i}  BY DEF Tells, EntriesOf
<1>2. CASE w[n] = <<>>
  <2>1. \A i \in DOMAIN p : p[i].name # n  BY <1>2 DEF Tells
  <2>2. ~One(p, n)  BY <2>1 DEF One, EntriesOf
  <2>3. QED  BY <1>1, <1>2, <2>2 DEF Read
<1>3. CASE w[n] # <<>>
  <2>1. PICK i \in DOMAIN p : p[i].name = n  BY <1>3 DEF Tells
  <2>2. EntriesOf(p, n) = {i}  BY <1>1, <2>1
  <2>3. Min({i}) = i
    <3>1. i \in Nat
      <4>1. p \in Seq(Range(p))  BY DEF Tells
      <4>2. QED  BY <4>1
    <3>2. i <= i  BY <3>1
    <3>3. QED  BY <3>2 DEF Min
  <2>4. TextOf(p, n) = w[n][1]  BY <2>1, <2>2, <2>3 DEF TextOf, Tells
  <2>5. One(p, n)  BY <2>2 DEF One
  <2>6. QED  BY <1>1, <1>3, <2>4, <2>5 DEF Read
<1>4. QED  BY <1>2, <1>3

\* What a request has a text for, component by component.
TextsOf(o, Writes(_)) == [i \in DOMAIN o |-> Writes(o[i])]

HttpWords(r) ==
    LET page == Given(r.page, ZeroPage)
        Word(o) == TextsOf(o, LAMBDA v : <<v>>) IN
    [n \in supported |->
        CASE n = "schema_revision" -> Word(r.revision)
          [] n = "fields" -> TextsOf(r.fields, ListText)
          [] n = "include" -> TextsOf(r.includes, ListText)
          [] n = "filter" -> TextsOf(r.filter, LAMBDA f : <<<<Given(f, ZeroFilter)>>>>)
          [] n = "sort" -> TextsOf(r.sorts, SortText)
          [] n = "page[mode]" -> Word(page.mode)
          [] n = "page[size]" -> Word(page.size)
          [] n = "page[after]" -> Word(page.after)
          [] n = "page[before]" -> Word(page.before)
          [] n = "page[offset]" -> Word(page.offset)]

LEMMA OptionalIs ==
    ASSUME NEW o, IsOptional(o), NEW t, t = [i \in DOMAIN o |-> t[i]]
    PROVE  /\ o = <<>> => t = <<>>
           /\ o # <<>> => t # <<>> /\ DOMAIN o = {1} /\ o = <<o[1]>>
<1>1. CASE o = <<>>  BY <1>1
<1>2. CASE o # <<>>
  <2>1. PICK v : v = o[1]  OBVIOUS
  <2>2. DOMAIN <<v>> = 1..1  OBVIOUS
  <2>3. o = <<v>>  BY <1>2, <2>1 DEF IsOptional
  <2>4. DOMAIN o = {1}  BY <2>2, <2>3
  <2>5. t # <<>>  BY <2>4
  <2>6. QED  BY <1>2, <2>1, <2>3, <2>4, <2>5
<1>3. QED  BY <1>1, <1>2

\* The components of a page that are not zero are each there or not.
LEMMA PageGiven ==
    ASSUME NEW r \in Intents
    PROVE  LET page == Given(r.page, ZeroPage) IN
           /\ page = [mode |-> page.mode, size |-> page.size, after |-> page.after,
                      before |-> page.before, offset |-> page.offset]
           /\ \A m \in {"mode", "size", "after", "before", "offset"} : IsOptional(page[m])
           /\ Merged(ZeroPage, page) = r.page
<1> DEFINE page == Given(r.page, ZeroPage)
           five == {"mode", "size", "after", "before", "offset"}
<1>1. DOMAIN r.page = five /\ r.page = [m \in DOMAIN r.page |-> r.page[m]]
  BY TransportAssumption, SayableAssumption
<1>2. DOMAIN ZeroPage = five
  <2>1. PICK blank : blank = Blank  OBVIOUS
  <2>2. ZeroPage = [mode |-> blank, size |-> 0, after |-> blank, before |-> blank, offset |-> 0]
    BY <2>1 DEF ZeroPage
  <2>3. QED  BY <2>2
<1>3. Merged(ZeroPage, page) = r.page  BY <1>1, <1>2, GivenMerged
<1>4. page = [m \in five |-> page[m]]  BY <1>1 DEF Given
<1>5. \A m \in five : IsOptional(page[m])
  <2> SUFFICES ASSUME NEW m \in five PROVE IsOptional(page[m])  OBVIOUS
  <2>1. PICK v : v = r.page[m]  OBVIOUS
  <2>2. page[m] = <<>> \/ page[m] = <<v>>  BY <1>1, <2>1 DEF Given
  <2>3. <<v>>[1] = v  OBVIOUS
  <2>4. QED  BY <2>2, <2>3 DEF IsOptional
<1>6. page = [mode |-> page.mode, size |-> page.size, after |-> page.after,
              before |-> page.before, offset |-> page.offset]
  <2> HIDE DEF page
  <2>1. QED  BY <1>4
<1>7. QED  BY <1>3, <1>5, <1>6

LEMMA HttpTells ==
    ASSUME NEW r \in Intents
    PROVE  Tells(HttpText(r).params, supported, HttpWords(r))
<1> DEFINE page == Given(r.page, ZeroPage)
           w == HttpWords(r)
           s1 == Written(r.revision, "schema_revision", LAMBDA v : <<v>>)
           s2 == Written(r.fields, "fields", ListText)
           s3 == Written(r.includes, "include", ListText)
           s4 == Written(r.filter, "filter", LAMBDA f : <<<<Given(f, ZeroFilter)>>>>)
           s5 == Written(r.sorts, "sort", SortText)
           t1 == Written(page.mode, "page[mode]", LAMBDA v : <<v>>)
           t2 == Written(page.size, "page[size]", LAMBDA v : <<v>>)
           t3 == Written(page.after, "page[after]", LAMBDA v : <<v>>)
           t4 == Written(page.before, "page[before]", LAMBDA v : <<v>>)
           t5 == Written(page.offset, "page[offset]", LAMBDA v : <<v>>)
           all == s1 \o s2 \o s3 \o s4 \o s5 \o t1 \o t2 \o t3 \o t4 \o t5
<1>1. HttpText(r).params = all
  <2>1. HttpText(r) = [fits |-> TRUE, params |-> all]  BY DEF HttpText
  <2> HIDE DEF all
  <2>2. QED  BY <2>1
<1>2. /\ IsOptional(r.revision) /\ IsOptional(r.filter) /\ IsOptional(r.fields)
      /\ IsOptional(r.includes) /\ IsOptional(r.sorts)
  BY TransportAssumption DEF IsOptionalList
<1>3. /\ IsOptional(page.mode) /\ IsOptional(page.size) /\ IsOptional(page.after)
      /\ IsOptional(page.before) /\ IsOptional(page.offset)
  BY PageGiven
<1> HIDE DEF page
<1>4. /\ w["schema_revision"] = [i \in DOMAIN r.revision |-> <<r.revision[i]>>]
      /\ w["fields"] = [i \in DOMAIN r.fields |-> ListText(r.fields[i])]
      /\ w["include"] = [i \in DOMAIN r.includes |-> ListText(r.includes[i])]
      /\ w["filter"] = [i \in DOMAIN r.filter |-> <<<<Given(r.filter[i], ZeroFilter)>>>>]
      /\ w["sort"] = [i \in DOMAIN r.sorts |-> SortText(r.sorts[i])]
      /\ w["page[mode]"] = [i \in DOMAIN page.mode |-> <<page.mode[i]>>]
      /\ w["page[size]"] = [i \in DOMAIN page.size |-> <<page.size[i]>>]
      /\ w["page[after]"] = [i \in DOMAIN page.after |-> <<page.after[i]>>]
      /\ w["page[before]"] = [i \in DOMAIN page.before |-> <<page.before[i]>>]
      /\ w["page[offset]"] = [i \in DOMAIN page.offset |-> <<page.offset[i]>>]
  BY DEF HttpWords, TextsOf, supported, Lists, Numbers, Words, page
<1>5. /\ s1 = [i \in DOMAIN r.revision |-> Param("schema_revision", <<r.revision[i]>>)]
      /\ s2 = [i \in DOMAIN r.fields |-> Param("fields", ListText(r.fields[i]))]
      /\ s3 = [i \in DOMAIN r.includes |-> Param("include", ListText(r.includes[i]))]
      /\ s4 = [i \in DOMAIN r.filter |-> Param("filter", <<<<Given(r.filter[i], ZeroFilter)>>>>)]
      /\ s5 = [i \in DOMAIN r.sorts |-> Param("sort", SortText(r.sorts[i]))]
      /\ t1 = [i \in DOMAIN page.mode |-> Param("page[mode]", <<page.mode[i]>>)]
      /\ t2 = [i \in DOMAIN page.size |-> Param("page[size]", <<page.size[i]>>)]
      /\ t3 = [i \in DOMAIN page.after |-> Param("page[after]", <<page.after[i]>>)]
      /\ t4 = [i \in DOMAIN page.before |-> Param("page[before]", <<page.before[i]>>)]
      /\ t5 = [i \in DOMAIN page.offset |-> Param("page[offset]", <<page.offset[i]>>)]
  BY DEF Written
<1> HIDE DEF w, s1, s2, s3, s4, s5, t1, t2, t3, t4, t5
<1>6. Tells(s1, {"schema_revision"}, w)
  <2>1. /\ s1 = [i \in DOMAIN r.revision |-> Param("schema_revision", s1[i].text)]
        /\ w["schema_revision"] = [i \in DOMAIN r.revision |-> s1[i].text]
    BY <1>4, <1>5 DEF Param
  <2>2. QED  BY <1>2, <2>1, TellsOne
<1>7. Tells(s2, {"fields"}, w)
  <2>1. /\ s2 = [i \in DOMAIN r.fields |-> Param("fields", s2[i].text)]
        /\ w["fields"] = [i \in DOMAIN r.fields |-> s2[i].text]
    BY <1>4, <1>5 DEF Param
  <2>2. QED  BY <1>2, <2>1, TellsOne
<1>8. Tells(s3, {"include"}, w)
  <2>1. /\ s3 = [i \in DOMAIN r.includes |-> Param("include", s3[i].text)]
        /\ w["include"] = [i \in DOMAIN r.includes |-> s3[i].text]
    BY <1>4, <1>5 DEF Param
  <2>2. QED  BY <1>2, <2>1, TellsOne
<1>9. Tells(s4, {"filter"}, w)
  <2>1. /\ s4 = [i \in DOMAIN r.filter |-> Param("filter", s4[i].text)]
        /\ w["filter"] = [i \in DOMAIN r.filter |-> s4[i].text]
    BY <1>4, <1>5 DEF Param
  <2>2. QED  BY <1>2, <2>1, TellsOne
<1>10. Tells(s5, {"sort"}, w)
  <2>1. /\ s5 = [i \in DOMAIN r.sorts |-> Param("sort", s5[i].text)]
        /\ w["sort"] = [i \in DOMAIN r.sorts |-> s5[i].text]
    BY <1>4, <1>5 DEF Param
  <2>2. QED  BY <1>2, <2>1, TellsOne
<1>11. Tells(t1, {"page[mode]"}, w)
  <2>1. /\ t1 = [i \in DOMAIN page.mode |-> Param("page[mode]", t1[i].text)]
        /\ w["page[mode]"] = [i \in DOMAIN page.mode |-> t1[i].text]
    BY <1>4, <1>5 DEF Param
  <2>2. QED  BY <1>3, <2>1, TellsOne
<1>12. Tells(t2, {"page[size]"}, w)
  <2>1. /\ t2 = [i \in DOMAIN page.size |-> Param("page[size]", t2[i].text)]
        /\ w["page[size]"] = [i \in DOMAIN page.size |-> t2[i].text]
    BY <1>4, <1>5 DEF Param
  <2>2. QED  BY <1>3, <2>1, TellsOne
<1>13. Tells(t3, {"page[after]"}, w)
  <2>1. /\ t3 = [i \in DOMAIN page.after |-> Param("page[after]", t3[i].text)]
        /\ w["page[after]"] = [i \in DOMAIN page.after |-> t3[i].text]
    BY <1>4, <1>5 DEF Param
  <2>2. QED  BY <1>3, <2>1, TellsOne
<1>14. Tells(t4, {"page[before]"}, w)
  <2>1. /\ t4 = [i \in DOMAIN page.before |-> Param("page[before]", t4[i].text)]
        /\ w["page[before]"] = [i \in DOMAIN page.before |-> t4[i].text]
    BY <1>4, <1>5 DEF Param
  <2>2. QED  BY <1>3, <2>1, TellsOne
<1>15. Tells(t5, {"page[offset]"}, w)
  <2>1. /\ t5 = [i \in DOMAIN page.offset |-> Param("page[offset]", t5[i].text)]
        /\ w["page[offset]"] = [i \in DOMAIN page.offset |-> t5[i].text]
    BY <1>4, <1>5 DEF Param
  <2>2. QED  BY <1>3, <2>1, TellsOne
<1> DEFINE A2 == {"schema_revision"} \cup {"fields"}
           A3 == A2 \cup {"include"}
           A4 == A3 \cup {"filter"}
           A5 == A4 \cup {"sort"}
           A6 == A5 \cup {"page[mode]"}
           A7 == A6 \cup {"page[size]"}
           A8 == A7 \cup {"page[after]"}
           A9 == A8 \cup {"page[before]"}
<1>16. /\ {"schema_revision"} \cap {"fields"} = {} /\ A2 \cap {"include"} = {}
       /\ A3 \cap {"filter"} = {} /\ A4 \cap {"sort"} = {} /\ A5 \cap {"page[mode]"} = {}
       /\ A6 \cap {"page[size]"} = {} /\ A7 \cap {"page[after]"} = {}
       /\ A8 \cap {"page[before]"} = {} /\ A9 \cap {"page[offset]"} = {}
       /\ A9 \cup {"page[offset]"} = supported
  BY DEF supported, Lists, Numbers, Words
<1>17. Tells(s1 \o s2, A2, w)  BY <1>6, <1>7, <1>16, TellsBoth
<1> HIDE DEF A2
<1>18. Tells(s1 \o s2 \o s3, A3, w)  BY <1>8, <1>16, <1>17, TellsBoth
<1> HIDE DEF A3
<1>19. Tells(s1 \o s2 \o s3 \o s4, A4, w)  BY <1>9, <1>16, <1>18, TellsBoth
<1> HIDE DEF A4
<1>20. Tells(s1 \o s2 \o s3 \o s4 \o s5, A5, w)  BY <1>10, <1>16, <1>19, TellsBoth
<1> HIDE DEF A5
<1>21. Tells(s1 \o s2 \o s3 \o s4 \o s5 \o t1, A6, w)  BY <1>11, <1>16, <1>20, TellsBoth
<1> HIDE DEF A6
<1>22. Tells(s1 \o s2 \o s3 \o s4 \o s5 \o t1 \o t2, A7, w)  BY <1>12, <1>16, <1>21, TellsBoth
<1> HIDE DEF A7
<1>23. Tells(s1 \o s2 \o s3 \o s4 \o s5 \o t1 \o t2 \o t3, A8, w)  BY <1>13, <1>16, <1>22, TellsBoth
<1> HIDE DEF A8
<1>24. Tells(s1 \o s2 \o s3 \o s4 \o s5 \o t1 \o t2 \o t3 \o t4, A9, w)
  BY <1>14, <1>16, <1>23, TellsBoth
<1> HIDE DEF A9
<1>25. Tells(all, A9 \cup {"page[offset]"}, w)  BY <1>15, <1>16, <1>24, TellsBoth
<1>26. QED  BY <1>1, <1>16, <1>25 DEF w

\* Over HTTP a request arrives as it was meant.
LEMMA HttpReadBack ==
    ASSUME NEW r \in Intents
    PROVE  HttpParse(HttpText(r)) = Result(Blank, r)
<1> DEFINE p == HttpText(r).params
           w == HttpWords(r)
           page == Given(r.page, ZeroPage)
<1>1. Tells(p, supported, w)  BY HttpTells
<1>2. HttpText(r).fits
  <2>1. PICK all : HttpText(r) = [fits |-> TRUE, params |-> all]  BY DEF HttpText
  <2>2. QED  BY <2>1
<1> HIDE DEF p
<1>3. \A n \in supported : /\ w[n] = <<>> => ~One(p, n) /\ Read(p, n) = <<>>
                           /\ w[n] # <<>> => One(p, n) /\ Read(p, n) = Reads(n, w[n][1])
  BY <1>1, TellsRead
<1>4. Shaped(p)
  <2>1. \A i \in DOMAIN p : p[i].name \in supported /\ p[i].utf8  BY <1>1 DEF Tells
  <2>2. \A i \in DOMAIN p : EntriesOf(p, p[i].name) = {i}  BY <1>1, <2>1, TellsRead
  <2>3. QED  BY <2>1, <2>2 DEF Shaped
<1>5. /\ w["schema_revision"] = [i \in DOMAIN r.revision |-> <<r.revision[i]>>]
      /\ w["fields"] = [i \in DOMAIN r.fields |-> ListText(r.fields[i])]
      /\ w["include"] = [i \in DOMAIN r.includes |-> ListText(r.includes[i])]
      /\ w["filter"] = [i \in DOMAIN r.filter |-> <<<<Given(r.filter[i], ZeroFilter)>>>>]
      /\ w["sort"] = [i \in DOMAIN r.sorts |-> SortText(r.sorts[i])]
      /\ w["page[mode]"] = [i \in DOMAIN page.mode |-> <<page.mode[i]>>]
      /\ w["page[size]"] = [i \in DOMAIN page.size |-> <<page.size[i]>>]
      /\ w["page[after]"] = [i \in DOMAIN page.after |-> <<page.after[i]>>]
      /\ w["page[before]"] = [i \in DOMAIN page.before |-> <<page.before[i]>>]
      /\ w["page[offset]"] = [i \in DOMAIN page.offset |-> <<page.offset[i]>>]
  BY DEF HttpWords, TextsOf, supported, Lists, Numbers, Words
<1>6. /\ IsOptional(r.revision) /\ IsOptional(r.filter) /\ IsOptional(r.fields)
      /\ IsOptional(r.includes) /\ IsOptional(r.sorts)
  BY TransportAssumption DEF IsOptionalList
<1>7. /\ IsOptional(page.mode) /\ IsOptional(page.size) /\ IsOptional(page.after)
      /\ IsOptional(page.before) /\ IsOptional(page.offset)
      /\ page = [mode |-> page.mode, size |-> page.size, after |-> page.after,
                 before |-> page.before, offset |-> page.offset]
      /\ Merged(ZeroPage, page) = r.page
  BY PageGiven
<1> HIDE DEF w, page
\* A word is read as it is.
<1>8. ASSUME NEW o, IsOptional(o), NEW n \in supported, n \in Words \cup Numbers,
             w[n] = [i \in DOMAIN o |-> <<o[i]>>]
      PROVE  Read(p, n) = o /\ ~Unreadable(p, n)
  <2>1. o = <<>> => w[n] = <<>>  BY <1>8, OptionalIs
  <2>2. o # <<>> => w[n] # <<>> /\ DOMAIN o = {1} /\ o = <<o[1]>>  BY <1>8, OptionalIs
  <2>3. o # <<>> => w[n] # <<>> /\ w[n][1] = o  BY <1>8, <2>2
  <2>4. Reads(n, w[n][1]) = w[n][1]  BY <1>8 DEF Reads, Words, Numbers
  <2>5. QED  BY <1>3, <2>1, <2>3, <2>4 DEF Unreadable
\* What is read is what was written.
<1>9. ASSUME NEW o, IsOptional(o), NEW n \in supported, NEW t,
             w[n] = [i \in DOMAIN o |-> t[i]], o # <<>> => Reads(n, t[1]) = <<o[1]>>
      PROVE  Read(p, n) = o /\ ~Unreadable(p, n)
  <2>1. o = <<>> => w[n] = <<>>  BY <1>9, OptionalIs
  <2>2. o # <<>> => w[n] # <<>> /\ DOMAIN o = {1} /\ o = <<o[1]>>  BY <1>9, OptionalIs
  <2>3. o # <<>> => w[n] # <<>> /\ Reads(n, w[n][1]) = o /\ o # <<>>  BY <1>9, <2>2
  <2>4. QED  BY <1>3, <2>1, <2>3 DEF Unreadable
<1>10. Read(p, "fields") = r.fields /\ ~Unreadable(p, "fields")
  <2>1. PICK t : t = [i \in DOMAIN r.fields |-> ListText(r.fields[i])]  OBVIOUS
  <2>2. r.fields # <<>> => Reads("fields", t[1]) = <<r.fields[1]>>
    <3>1. SUFFICES ASSUME r.fields # <<>> PROVE Reads("fields", t[1]) = <<r.fields[1]>>  OBVIOUS
    <3>2. 1 \in DOMAIN r.fields  BY <1>6, <2>1, <3>1, OptionalIs
    <3>3. ~Contains(r.fields[1], Empty)  BY <3>2, SayableAssumption
    <3>4. t[1] = ListText(r.fields[1])  BY <2>1, <3>2
    <3>5. commaList(t[1]) = <<r.fields[1]>>  BY <3>3, <3>4, ListReadBack
    <3>6. QED  BY <3>5 DEF Reads
  <2>3. "fields" \in supported /\ w["fields"] = [i \in DOMAIN r.fields |-> t[i]]
    BY <1>5, <2>1 DEF supported, Lists
  <2>4. QED  BY <1>6, <1>9, <2>2, <2>3
<1>11. Read(p, "include") = r.includes /\ ~Unreadable(p, "include")
  <2>1. PICK t : t = [i \in DOMAIN r.includes |-> ListText(r.includes[i])]  OBVIOUS
  <2>2. r.includes # <<>> => Reads("include", t[1]) = <<r.includes[1]>>
    <3>1. SUFFICES ASSUME r.includes # <<>> PROVE Reads("include", t[1]) = <<r.includes[1]>>  OBVIOUS
    <3>2. 1 \in DOMAIN r.includes  BY <1>6, <2>1, <3>1, OptionalIs
    <3>3. ~Contains(r.includes[1], Empty)  BY <3>2, SayableAssumption
    <3>4. t[1] = ListText(r.includes[1])  BY <2>1, <3>2
    <3>5. commaList(t[1]) = <<r.includes[1]>>  BY <3>3, <3>4, ListReadBack
    <3>6. QED  BY <3>5 DEF Reads
  <2>3. "include" \in supported /\ w["include"] = [i \in DOMAIN r.includes |-> t[i]]
    BY <1>5, <2>1 DEF supported, Lists
  <2>4. QED  BY <1>6, <1>9, <2>2, <2>3
<1>12. Read(p, "sort") = r.sorts /\ ~Unreadable(p, "sort")
  <2>1. PICK t : t = [i \in DOMAIN r.sorts |-> SortText(r.sorts[i])]  OBVIOUS
  <2>2. r.sorts # <<>> => Reads("sort", t[1]) = <<r.sorts[1]>>
    <3>1. SUFFICES ASSUME r.sorts # <<>> PROVE Reads("sort", t[1]) = <<r.sorts[1]>>  OBVIOUS
    <3>2. 1 \in DOMAIN r.sorts  BY <1>6, <2>1, <3>1, OptionalIs
    <3>3. r.sorts[1] \in Seq(Range(r.sorts[1])) /\ \A j \in DOMAIN r.sorts[1] : IsSortTerm(r.sorts[1][j])
      BY <3>2, TransportAssumption, SayableAssumption DEF IsOptionalList
    <3>4. t[1] = SortText(r.sorts[1])  BY <2>1, <3>2
    <3>5. sortList(t[1]) = <<r.sorts[1]>>  BY <3>3, <3>4, SortReadBack
    <3>6. QED  BY <3>5 DEF Reads
  <2>3. "sort" \in supported /\ w["sort"] = [i \in DOMAIN r.sorts |-> t[i]]
    BY <1>5, <2>1 DEF supported, Lists
  <2>4. QED  BY <1>6, <1>9, <2>2, <2>3
<1>13. Read(p, "filter") = r.filter /\ ~Unreadable(p, "filter")
  <2>1. PICK t : t = [i \in DOMAIN r.filter |-> <<<<Given(r.filter[i], ZeroFilter)>>>>]  OBVIOUS
  <2>2. r.filter # <<>> => Reads("filter", t[1]) = <<r.filter[1]>>
    <3>1. SUFFICES ASSUME r.filter # <<>> PROVE Reads("filter", t[1]) = <<r.filter[1]>>  OBVIOUS
    <3>2. 1 \in DOMAIN r.filter  BY <1>6, <2>1, <3>1, OptionalIs
    <3>3. PICK f : f = r.filter[1]  OBVIOUS
    <3>4. f = [m \in DOMAIN ZeroFilter |-> f[m]]  BY <3>2, <3>3, SayableAssumption
    <3>5. Merged(ZeroFilter, Given(f, ZeroFilter)) = f  BY <3>4, GivenMerged
    <3>6. PICK given : given = Given(f, ZeroFilter)  OBVIOUS
    <3>7. t[1] = <<<<given>>>>  BY <2>1, <3>2, <3>3, <3>6
    <3>8. t[1] # <<>> /\ t[1][1] # <<>> /\ t[1][1][1] = given  BY <3>7
    <3>9. HttpFilter(t[1]) = <<Merged(ZeroFilter, given)>>  BY <3>8 DEF HttpFilter
    <3>10. HttpFilter(t[1]) = <<f>>  BY <3>5, <3>6, <3>9
    <3>11. QED  BY <3>3, <3>10 DEF Reads
  <2>3. "filter" \in supported /\ w["filter"] = [i \in DOMAIN r.filter |-> t[i]]
    BY <1>5, <2>1 DEF supported
  <2>4. QED  BY <1>6, <1>9, <2>2, <2>3
<1>14. Words \cup Numbers \subseteq supported  BY DEF supported
<1>15. /\ "schema_revision" \in Words /\ "page[mode]" \in Words /\ "page[after]" \in Words
       /\ "page[before]" \in Words /\ "page[size]" \in Numbers /\ "page[offset]" \in Numbers
  BY DEF Words, Numbers
<1>16. Read(p, "schema_revision") = r.revision /\ ~Unreadable(p, "schema_revision")
  BY <1>5, <1>6, <1>8, <1>14, <1>15
<1>17. Read(p, "page[mode]") = page.mode /\ ~Unreadable(p, "page[mode]")
  BY <1>5, <1>7, <1>8, <1>14, <1>15
<1>18. Read(p, "page[size]") = page.size /\ ~Unreadable(p, "page[size]")
  BY <1>5, <1>7, <1>8, <1>14, <1>15
<1>19. Read(p, "page[after]") = page.after /\ ~Unreadable(p, "page[after]")
  BY <1>5, <1>7, <1>8, <1>14, <1>15
<1>20. Read(p, "page[before]") = page.before /\ ~Unreadable(p, "page[before]")
  BY <1>5, <1>7, <1>8, <1>14, <1>15
<1>21. Read(p, "page[offset]") = page.offset /\ ~Unreadable(p, "page[offset]")
  BY <1>5, <1>7, <1>8, <1>14, <1>15
<1>22. \A n \in supported : ~Unreadable(p, n)
  BY <1>10, <1>11, <1>12, <1>13, <1>16, <1>17, <1>18, <1>19, <1>20, <1>21 DEF supported, Lists, Numbers, Words
<1>23. parsePage(p) = r.page
  <2>1. parsePage(p) = Merged(ZeroPage, page)
    BY <1>7, <1>17, <1>18, <1>19, <1>20, <1>21, Zenon DEF parsePage
  <2>2. QED  BY <1>7, <2>1
<1>24. HttpParse(HttpText(r)) =
          Result(Blank, [revision |-> Read(p, "schema_revision"), fields |-> Read(p, "fields"),
                         includes |-> Read(p, "include"), filter |-> Read(p, "filter"),
                         sorts |-> Read(p, "sort"), page |-> parsePage(p)])
  BY <1>2, <1>4, <1>22 DEF HttpParse, p
<1>25. r = [revision |-> r.revision, fields |-> r.fields, includes |-> r.includes,
            filter |-> r.filter, sorts |-> r.sorts, page |-> r.page]
  BY SayableAssumption
<1>26. QED  BY <1>10, <1>11, <1>12, <1>13, <1>16, <1>23, <1>24, <1>25, Zenon

-----------------------------------------------------------------------------
\* The members p hold the components S of w: one member for each that is there.
Fills(p, S, w) ==
    /\ p \in Seq(Range(p))
    /\ \A i \in DOMAIN p : /\ IsMember(p[i]) /\ p[i].name \in S /\ p[i].value # <<>>
                           /\ w[p[i].name] # <<>> /\ MemberInto(NoParams, p[i])[p[i].name] = w[p[i].name]
    /\ \A i, j \in DOMAIN p : p[i].name = p[j].name => i = j
    /\ \A n \in S : w[n] # <<>> => \E i \in DOMAIN p : p[i].name = n

LEMMA FillsOne ==
    ASSUME NEW o, IsOptional(o), NEW name, NEW v, NEW w, w[name] = o,
           o # <<>> => /\ v[1] # <<>>
                       /\ \A m : IsMember(m) /\ m.name = name /\ m.value = v[1] =>
                             MemberInto(NoParams, m)[name] = o
    PROVE  Fills(MembersOf(o, name, v), {name}, w)
<1>1. PICK s : s = MembersOf(o, name, v)  OBVIOUS
<1>2. CASE o = <<>>
  <2>1. s = <<>>  BY <1>1, <1>2 DEF MembersOf
  <2>2. Fills(s, {name}, w)  BY <1>2, <2>1 DEF Fills
  <2>3. QED  BY <1>1, <2>2, Zenon
<1>3. CASE o # <<>>
  <2>1. DOMAIN o = {1}
    <3>1. PICK x : x = o[1]  OBVIOUS
    <3>2. DOMAIN <<x>> = 1..1  OBVIOUS
    <3>3. o = <<x>>  BY <1>3, <3>1 DEF IsOptional
    <3>4. QED  BY <3>2, <3>3
  <2>2. PICK x : x = v[1]  OBVIOUS
  <2>3. DOMAIN s = {1} /\ s[1] = [name |-> name, alias |-> FALSE, value |-> x]
    BY <1>1, <2>1, <2>2 DEF MembersOf
  <2>4. s = [i \in 1..1 |-> s[i]]  BY <1>1, <2>1 DEF MembersOf
  <2>5. s \in Seq(Range(s))  BY <2>4, FunctionIsSequence
  <2>6. IsMember(s[1]) /\ s[1].name = name /\ s[1].value = x  BY <2>3 DEF IsMember
  <2>7. MemberInto(NoParams, s[1])[name] = o  BY <1>3, <2>2, <2>6
  <2>8. Fills(s, {name}, w)  BY <1>3, <2>2, <2>3, <2>5, <2>6, <2>7 DEF Fills
  <2>9. QED  BY <1>1, <2>8, Zenon
<1>4. QED  BY <1>2, <1>3

LEMMA FillsBoth ==
    ASSUME NEW p, NEW q, NEW S, NEW T, NEW w, Fills(p, S, w), Fills(q, T, w), S \cap T = {}
    PROVE  Fills(p \o q, S \cup T, w)
<1> DEFINE r == p \o q
<1>1. p \in Seq(Range(p)) /\ q \in Seq(Range(q))  BY DEF Fills
<1>0. AreJoined(p, q, r)  BY <1>1, SequencesJoin
<1> HIDE DEF r
<1>2. /\ r \in Seq(Range(r)) /\ DOMAIN p = 1..Len(p) /\ DOMAIN q = 1..Len(q)
      /\ Len(p) \in Nat /\ Len(q) \in Nat /\ DOMAIN r = 1..(Len(p) + Len(q))
      /\ \A i \in 1..Len(p) : r[i] = p[i]
      /\ \A i \in 1..Len(q) : r[Len(p) + i] = q[i]
      /\ \A i \in DOMAIN r : (i \in 1..Len(p)) \/ (\E j \in 1..Len(q) : i = Len(p) + j)
  BY <1>0 DEF AreJoined
<1>3. \A i \in DOMAIN r : \/ i \in DOMAIN p /\ r[i] = p[i] /\ p[i].name \in S
                          \/ \E j \in DOMAIN q : i = Len(p) + j /\ r[i] = q[j] /\ q[j].name \in T
  <2>1. (\A i \in DOMAIN p : p[i].name \in S) /\ (\A j \in DOMAIN q : q[j].name \in T)  BY DEF Fills
  <2> SUFFICES ASSUME NEW i \in DOMAIN r
               PROVE  \/ i \in DOMAIN p /\ r[i] = p[i] /\ p[i].name \in S
                      \/ \E j \in DOMAIN q : i = Len(p) + j /\ r[i] = q[j] /\ q[j].name \in T
    OBVIOUS
  <2>2. CASE i \in 1..Len(p)  BY <1>2, <2>1, <2>2
  <2>3. CASE \E j \in 1..Len(q) : i = Len(p) + j
    <3>1. PICK j \in 1..Len(q) : i = Len(p) + j  BY <2>3
    <3>2. j \in DOMAIN q /\ r[i] = q[j] /\ q[j].name \in T  BY <1>2, <2>1, <3>1
    <3>3. QED  BY <3>1, <3>2
  <2>4. QED  BY <1>2, <2>2, <2>3
<1>4. \A i \in DOMAIN r :
         /\ IsMember(r[i]) /\ r[i].name \in S \cup T /\ r[i].value # <<>>
         /\ w[r[i].name] # <<>> /\ MemberInto(NoParams, r[i])[r[i].name] = w[r[i].name]
  BY <1>3 DEF Fills
<1>5. ASSUME NEW i \in DOMAIN r, NEW j \in DOMAIN r, r[i].name = r[j].name PROVE i = j
  <2>1. CASE i \in DOMAIN p /\ r[i] = p[i] /\ p[i].name \in S
    <3>1. j \in DOMAIN p /\ r[j] = p[j]  BY <1>3, <1>5, <2>1
    <3>2. QED  BY <1>5, <2>1, <3>1 DEF Fills
  <2>2. CASE \E k \in DOMAIN q : i = Len(p) + k /\ r[i] = q[k] /\ q[k].name \in T
    <3>1. PICK k \in DOMAIN q : i = Len(p) + k /\ r[i] = q[k] /\ q[k].name \in T  BY <2>2
    <3>2. PICK l \in DOMAIN q : j = Len(p) + l /\ r[j] = q[l]  BY <1>3, <1>5, <3>1
    <3>3. k = l  BY <1>5, <3>1, <3>2 DEF Fills
    <3>4. QED  BY <3>1, <3>2, <3>3
  <2>3. QED  BY <1>3, <2>1, <2>2
<1>6. ASSUME NEW n \in S \cup T, w[n] # <<>> PROVE \E i \in DOMAIN r : r[i].name = n
  <2>1. CASE n \in S
    <3>1. PICK i \in DOMAIN p : p[i].name = n  BY <1>6, <2>1 DEF Fills
    <3>2. i \in DOMAIN r /\ r[i] = p[i]  BY <1>2
    <3>3. QED  BY <3>1, <3>2
  <2>2. CASE n \in T
    <3>1. PICK i \in DOMAIN q : q[i].name = n  BY <1>6, <2>2 DEF Fills
    <3>2. Len(p) + i \in DOMAIN r /\ r[Len(p) + i] = q[i]  BY <1>2
    <3>3. QED  BY <3>1, <3>2
  <2>3. QED  BY <1>6, <2>1, <2>2
<1>7. QED  BY <1>2, <1>4, <1>5, <1>6 DEF Fills, r

\* The components that the members D have filled in.
Filled(p, w, D) ==
    [n \in DOMAIN NoParams |-> IF \E i \in D : p[i].name = n THEN w[n] ELSE <<>>]

\* A member fills in a component that none before it has.
LEMMA FillOne ==
    ASSUME NEW p, NEW w, Fills(p, DOMAIN NoParams, w),
           NEW D \in SUBSET DOMAIN p, NEW k \in D
    PROVE  MemberInto(Filled(p, w, D \ {k}), p[k]) = Filled(p, w, D)
<1> DEFINE m == p[k]
           g == Filled(p, w, D \ {k})
           h == Filled(p, w, D)
           New(params) == LET Into(zero) == Merged(IF params[m.name] = <<>> THEN zero ELSE params[m.name][1], m.value[1]) IN
               IF m.value = <<>> THEN <<>>
               ELSE CASE m.name = "page" -> <<Into(ZeroPage)>>
                      [] m.name = "filter" -> <<Into(ZeroFilter)>>
                      [] OTHER -> m.value
<1>1. \A params : MemberInto(params, m) = [params EXCEPT ![m.name] = New(params)]
  BY DEF MemberInto
<1>2. m.name \in DOMAIN NoParams /\ MemberInto(NoParams, m)[m.name] = w[m.name]  BY DEF Fills
<1>3. DOMAIN g = DOMAIN NoParams /\ DOMAIN h = DOMAIN NoParams  BY DEF Filled
<1>4. \A i \in D \ {k} : p[i].name # m.name
  <2> SUFFICES ASSUME NEW i \in D \ {k}, p[i].name = m.name PROVE FALSE  OBVIOUS
  <2>1. i \in DOMAIN p /\ k \in DOMAIN p /\ i # k  OBVIOUS
  <2>2. QED  BY <2>1 DEF Fills
<1>5. g[m.name] = <<>>  BY <1>2, <1>4 DEF Filled
<1>6. NoParams[m.name] = <<>>  BY <1>2 DEF NoParams
<1>7. New(g) = New(NoParams)  BY <1>5, <1>6
<1> HIDE DEF New
<1>8. New(NoParams) = w[m.name]
  <2>1. PICK v : v = New(NoParams)  OBVIOUS
  <2>2. MemberInto(NoParams, m) = [NoParams EXCEPT ![m.name] = v]  BY <1>1, <2>1
  <2>3. [NoParams EXCEPT ![m.name] = v][m.name] = v  BY <1>2
  <2>4. QED  BY <1>2, <2>1, <2>2, <2>3
<1>9. PICK v : v = w[m.name]  OBVIOUS
<1>10. MemberInto(g, m) = [g EXCEPT ![m.name] = v]  BY <1>1, <1>7, <1>8, <1>9
<1>11. ASSUME NEW n \in DOMAIN NoParams PROVE [g EXCEPT ![m.name] = v][n] = h[n]
  <2>1. CASE n = m.name
    <3>1. h[n] = w[n]  BY <2>1 DEF Filled
    <3>2. [g EXCEPT ![m.name] = v][n] = v  BY <1>3, <2>1
    <3>3. QED  BY <1>9, <2>1, <3>1, <3>2
  <2>2. CASE n # m.name
    <3>1. (\E i \in D : p[i].name = n) <=> (\E i \in D \ {k} : p[i].name = n)  BY <2>2
    <3>2. h[n] = g[n]  BY <3>1 DEF Filled
    <3>3. [g EXCEPT ![m.name] = v][n] = g[n]  BY <1>3, <2>2
    <3>4. QED  BY <3>2, <3>3
  <2>3. QED  BY <2>1, <2>2
<1>12. h = [n \in DOMAIN NoParams |-> h[n]]  BY DEF Filled
<1>13. g = [n \in DOMAIN NoParams |-> g[n]]  BY DEF Filled
<1> HIDE DEF g, h
<1>14. PICK e : e = [g EXCEPT ![m.name] = v]  OBVIOUS
<1>15. e = [n \in DOMAIN NoParams |-> e[n]]  BY <1>3, <1>13, <1>14
<1>16. \A n \in DOMAIN NoParams : e[n] = h[n]  BY <1>11, <1>14
<1>17. e = h  BY <1>12, <1>15, <1>16
<1>18. QED  BY <1>10, <1>14, <1>17 DEF g, h

LEMMA MembersFold ==
    ASSUME NEW p, NEW w, Fills(p, DOMAIN NoParams, w)
    PROVE  FoldLeft(MemberInto, NoParams, p) = Filled(p, w, DOMAIN p)
<1> DEFINE N == Len(p)
           Goes(h) == h = [D \in SUBSET (1..N) |->
                              IF D = {} THEN NoParams ELSE MemberInto(h[D \ {Top(D)}], p[Top(D)])]
           F == CHOOSE h : Goes(h)
           g == [D \in SUBSET (1..N) |-> Filled(p, w, D)]
<1>0. N \in Nat /\ DOMAIN p = 1..N
  <2>1. p \in Seq(Range(p))  BY DEF Fills
  <2>2. QED  BY <2>1
<1>1. FoldLeft(MemberInto, NoParams, p) = F[1..N]
  BY <1>0 DEF FoldLeft, MapThenFoldSet, Top
<1> HIDE DEF N
<1>2. Filled(p, w, {}) = NoParams
  <2>1. NoParams = [n \in DOMAIN NoParams |-> <<>>]  BY DEF NoParams
  <2>2. Filled(p, w, {}) = [n \in DOMAIN NoParams |-> <<>>]  BY DEF Filled
  <2>3. QED  BY <2>1, <2>2
<1>3. ASSUME NEW D \in SUBSET (1..N), D # {}
      PROVE  Top(D) \in D /\ Filled(p, w, D) = MemberInto(Filled(p, w, D \ {Top(D)}), p[Top(D)])
  <2>1. Top(D) \in D  BY <1>0, <1>3, Topmost
  <2>2. QED  BY <1>0, <2>1, FillOne
<1>4. Goes(g)
  <2>1. ASSUME NEW D \in SUBSET (1..N)
        PROVE  g[D] = IF D = {} THEN NoParams ELSE MemberInto(g[D \ {Top(D)}], p[Top(D)])
    <3>1. CASE D = {}  BY <1>2, <3>1
    <3>2. CASE D # {}
      <4>1. D \ {Top(D)} \in SUBSET (1..N)  OBVIOUS
      <4>2. g[D] = Filled(p, w, D) /\ g[D \ {Top(D)}] = Filled(p, w, D \ {Top(D)})  BY <4>1
      <4> HIDE DEF g
      <4>3. QED  BY <1>3, <3>2, <4>2
    <3>3. QED  BY <3>1, <3>2
  <2>2. DOMAIN g = SUBSET (1..N) /\ g = [D \in SUBSET (1..N) |-> g[D]]  OBVIOUS
  <2> HIDE DEF g
  <2>3. [D \in SUBSET (1..N) |-> g[D]] =
           [D \in SUBSET (1..N) |-> IF D = {} THEN NoParams ELSE MemberInto(g[D \ {Top(D)}], p[Top(D)])]
    BY <2>1
  <2>4. QED  BY <2>2, <2>3
<1>5. Goes(F)
  <2> HIDE DEF Goes
  <2>1. QED  BY <1>4
<1> HIDE DEF F
<1>6. \A D \in SUBSET (1..N) :
         F[D] = IF D = {} THEN NoParams ELSE MemberInto(F[D \ {Top(D)}], p[Top(D)])
  BY <1>5
<1> DEFINE G == {k \in 0..N : F[1..k] = Filled(p, w, 1..k)}
<1>7. 0 \in G
  <2>1. 1..0 = {} /\ {} \in SUBSET (1..N)  OBVIOUS
  <2>2. F[{}] = NoParams  BY <1>6, <2>1
  <2>3. F[1..0] = Filled(p, w, 1..0)  BY <1>2, <2>1, <2>2
  <2>4. 0 \in 0..N  BY <1>0
  <2>5. QED  BY <2>3, <2>4
<1>8. ASSUME NEW k \in 0..(N - 1), k \in G PROVE k + 1 \in G
  <2>1. k + 1 \in Nat \ {0} /\ (k + 1) - 1 = k /\ k + 1 \in 0..N  BY <1>0
  <2>2. Top(1..(k + 1)) = k + 1 /\ (1..(k + 1)) \ {Top(1..(k + 1))} = 1..k
    <3>1. Top(1..(k + 1)) = k + 1 /\ (1..(k + 1)) \ {Top(1..(k + 1))} = 1..((k + 1) - 1)
      BY <2>1, TopOfInterval
    <3>2. QED  BY <2>1, <3>1
  <2>3. 1..(k + 1) \in SUBSET (1..N) /\ 1..(k + 1) # {}
    <3>1. k + 1 \in 1..(k + 1) /\ 1..(k + 1) \subseteq 1..N  BY <1>0
    <3>2. QED  BY <3>1
  <2>4. F[1..(k + 1)] = MemberInto(F[1..k], p[k + 1])  BY <1>6, <2>2, <2>3
  <2>5. Filled(p, w, 1..(k + 1)) = MemberInto(Filled(p, w, 1..k), p[k + 1])  BY <1>3, <2>2, <2>3
  <2>6. F[1..k] = Filled(p, w, 1..k)  BY <1>8
  <2>7. QED  BY <2>1, <2>4, <2>5, <2>6
<1>9. 0..N \subseteq G
  <2> HIDE DEF G
  <2>1. QED  BY <1>0, <1>7, <1>8, Climb
<1>10. N \in 0..N  BY <1>0
<1>11. QED  BY <1>0, <1>1, <1>9, <1>10

\* What a request holds, component by component.
RpcComponents(r) ==
    [n \in DOMAIN NoParams |->
        CASE n = "schema_revision" -> r.revision
          [] n = "fields" -> r.fields
          [] n = "includes" -> r.includes
          [] n = "filter" -> r.filter
          [] n = "sorts" -> r.sorts
          [] n = "page" -> IF r.page = ZeroPage THEN <<>> ELSE <<r.page>>]

\* What one member is decoded into.
LEMMA MemberDecoded ==
    ASSUME NEW m, m.value # <<>>, NEW v, m.value[1] = v
    PROVE  /\ m.name \in {"schema_revision", "fields", "includes", "sorts"} =>
                 MemberInto(NoParams, m)[m.name] = m.value
           /\ m.name = "filter" => MemberInto(NoParams, m)[m.name] = <<Merged(ZeroFilter, v)>>
           /\ m.name = "page" => MemberInto(NoParams, m)[m.name] = <<Merged(ZeroPage, v)>>
<1> DEFINE names == {"schema_revision", "fields", "includes", "filter", "sorts", "page"}
<1>1. DOMAIN NoParams = names /\ \A n \in names : NoParams[n] = <<>>  BY DEF NoParams
<1>2. SUFFICES ASSUME m.name \in names
               PROVE  /\ m.name \in {"schema_revision", "fields", "includes", "sorts"} =>
                            MemberInto(NoParams, m)[m.name] = m.value
                      /\ m.name = "filter" => MemberInto(NoParams, m)[m.name] = <<Merged(ZeroFilter, v)>>
                      /\ m.name = "page" => MemberInto(NoParams, m)[m.name] = <<Merged(ZeroPage, v)>>
  OBVIOUS
<1>3. NoParams[m.name] = <<>>  BY <1>1, <1>2
<1> DEFINE new == CASE m.name = "page" -> <<Merged(ZeroPage, v)>>
                    [] m.name = "filter" -> <<Merged(ZeroFilter, v)>>
                    [] OTHER -> m.value
<1>4. MemberInto(NoParams, m) = [NoParams EXCEPT ![m.name] = new]  BY <1>3 DEF MemberInto
<1>5. /\ m.name \in {"schema_revision", "fields", "includes", "sorts"} => new = m.value
      /\ m.name = "filter" => new = <<Merged(ZeroFilter, v)>>
      /\ m.name = "page" => new = <<Merged(ZeroPage, v)>>
  OBVIOUS
<1> HIDE DEF new
<1>6. MemberInto(NoParams, m)[m.name] = new  BY <1>1, <1>2, <1>4
<1>7. QED  BY <1>5, <1>6

LEMMA RpcFills ==
    ASSUME NEW r \in Intents
    PROVE  Fills(RpcText(r).members, DOMAIN NoParams, RpcComponents(r))
<1> DEFINE M(optional, name, Writes(_)) ==
               [i \in DOMAIN optional |->
                  [name |-> name, alias |-> FALSE, value |-> <<Writes(optional[i])>>]]
           page == IF r.page = ZeroPage THEN <<>> ELSE <<r.page>>
           w == RpcComponents(r)
           s1 == M(r.revision, "schema_revision", LAMBDA v : v)
           s2 == M(r.fields, "fields", LAMBDA v : v)
           s3 == M(r.includes, "includes", LAMBDA v : v)
           s4 == M(r.sorts, "sorts", LAMBDA v : v)
           s5 == M(r.filter, "filter", LAMBDA f : Given(f, ZeroFilter))
           s6 == M(page, "page", LAMBDA p : Given(p, ZeroPage))
           all == s1 \o s2 \o s3 \o s4 \o s5 \o s6
<1>1. RpcText(r).members = all
  <2>1. RpcText(r) = [fits |-> TRUE, members |-> all]  BY DEF RpcText
  <2> HIDE DEF all
  <2>2. QED  BY <2>1
<1>2. /\ IsOptional(r.revision) /\ IsOptional(r.filter) /\ IsOptional(r.fields)
      /\ IsOptional(r.includes) /\ IsOptional(r.sorts)
  BY TransportAssumption DEF IsOptionalList
<1>3. IsOptional(page)
  <2>1. PICK v : v = r.page  OBVIOUS
  <2>2. <<v>>[1] = v  OBVIOUS
  <2>3. page = <<>> \/ page = <<v>>  BY <2>1
  <2>4. QED  BY <2>2, <2>3 DEF IsOptional
<1>4. /\ w["schema_revision"] = r.revision /\ w["fields"] = r.fields /\ w["includes"] = r.includes
      /\ w["sorts"] = r.sorts /\ w["filter"] = r.filter /\ w["page"] = page
  BY DEF RpcComponents, NoParams
<1> HIDE DEF w
<1>5. page # <<>> => page[1] = r.page
  <2>1. PICK v : v = r.page  OBVIOUS
  <2>2. <<v>>[1] = v  OBVIOUS
  <2>3. page = <<>> \/ page = <<v>>  BY <2>1
  <2>4. QED  BY <2>1, <2>2, <2>3
<1> HIDE DEF page
<1>6. ASSUME NEW o, IsOptional(o), NEW name \in {"schema_revision", "fields", "includes", "sorts"}, w[name] = o
      PROVE  Fills(MembersOf(o, name, [i \in DOMAIN o |-> <<o[i]>>]), {name}, w)
  <2>1. PICK v : v = [i \in DOMAIN o |-> <<o[i]>>]  OBVIOUS
  <2>2. ASSUME o # <<>>
        PROVE  /\ v[1] # <<>>
               /\ \A m : IsMember(m) /\ m.name = name /\ m.value = v[1] => MemberInto(NoParams, m)[name] = o
    <3>1. DOMAIN o = {1} /\ o = <<o[1]>>  BY <1>6, <2>1, <2>2, OptionalIs
    <3>2. v[1] = o  BY <2>1, <3>1
    <3>3. ASSUME NEW m, m.name = name, m.value = o PROVE MemberInto(NoParams, m)[name] = o
      <4>1. PICK x : x = m.value[1]  OBVIOUS
      <4>2. QED  BY <1>6, <2>2, <3>3, <4>1, MemberDecoded
    <3>4. QED  BY <2>2, <3>2, <3>3
  <2>3. Fills(MembersOf(o, name, v), {name}, w)  BY <1>6, <2>2, FillsOne
  <2>4. QED  BY <2>1, <2>3, Zenon
<1>7. Fills(s1, {"schema_revision"}, w)
  <2>1. s1 = MembersOf(r.revision, "schema_revision", [i \in DOMAIN r.revision |-> <<r.revision[i]>>])
    BY DEF MembersOf
  <2> HIDE DEF s1
  <2>2. QED  BY <1>2, <1>4, <1>6, <2>1
<1>8. Fills(s2, {"fields"}, w)
  <2>1. s2 = MembersOf(r.fields, "fields", [i \in DOMAIN r.fields |-> <<r.fields[i]>>])
    BY DEF MembersOf
  <2> HIDE DEF s2
  <2>2. QED  BY <1>2, <1>4, <1>6, <2>1
<1>9. Fills(s3, {"includes"}, w)
  <2>1. s3 = MembersOf(r.includes, "includes", [i \in DOMAIN r.includes |-> <<r.includes[i]>>])
    BY DEF MembersOf
  <2> HIDE DEF s3
  <2>2. QED  BY <1>2, <1>4, <1>6, <2>1
<1>10. Fills(s4, {"sorts"}, w)
  <2>1. s4 = MembersOf(r.sorts, "sorts", [i \in DOMAIN r.sorts |-> <<r.sorts[i]>>])
    BY DEF MembersOf
  <2> HIDE DEF s4
  <2>2. QED  BY <1>2, <1>4, <1>6, <2>1
<1>11. Fills(s5, {"filter"}, w)
  <2>1. PICK o : o = r.filter  OBVIOUS
  <2>2. PICK v : v = [i \in DOMAIN o |-> <<Given(o[i], ZeroFilter)>>]  OBVIOUS
  <2>3. s5 = MembersOf(o, "filter", v)  BY <2>1, <2>2 DEF MembersOf
  <2>4. ASSUME o # <<>>
        PROVE  /\ v[1] # <<>>
               /\ \A m : IsMember(m) /\ m.name = "filter" /\ m.value = v[1] => MemberInto(NoParams, m)["filter"] = o
    <3>1. DOMAIN o = {1} /\ o = <<o[1]>>  BY <1>2, <2>1, <2>2, <2>4, OptionalIs
    <3>2. PICK given : given = Given(o[1], ZeroFilter)  OBVIOUS
    <3>3. v[1] = <<given>> /\ <<given>> # <<>> /\ <<given>>[1] = given  BY <2>2, <3>1, <3>2
    <3>4. o[1] = [m \in DOMAIN ZeroFilter |-> o[1][m]]  BY <2>1, <3>1, SayableAssumption
    <3>5. Merged(ZeroFilter, given) = o[1]  BY <3>2, <3>4, GivenMerged
    <3>6. ASSUME NEW m, m.name = "filter", m.value = v[1] PROVE MemberInto(NoParams, m)["filter"] = o
      <4>1. MemberInto(NoParams, m)["filter"] = <<Merged(ZeroFilter, given)>>  BY <3>3, <3>6, MemberDecoded
      <4>2. QED  BY <3>1, <3>5, <4>1, Zenon
    <3>7. QED  BY <3>3, <3>6
  <2>5. Fills(MembersOf(o, "filter", v), {"filter"}, w)  BY <1>2, <1>4, <2>1, <2>4, FillsOne
  <2> HIDE DEF s5
  <2>6. QED  BY <2>3, <2>5, Zenon
<1>12. Fills(s6, {"page"}, w)
  <2>1. PICK o : o = page  OBVIOUS
  <2>2. PICK v : v = [i \in DOMAIN o |-> <<Given(o[i], ZeroPage)>>]  OBVIOUS
  <2>3. s6 = MembersOf(o, "page", v)  BY <2>1, <2>2 DEF MembersOf
  <2>4. ASSUME o # <<>>
        PROVE  /\ v[1] # <<>>
               /\ \A m : IsMember(m) /\ m.name = "page" /\ m.value = v[1] => MemberInto(NoParams, m)["page"] = o
    <3>1. DOMAIN o = {1} /\ o = <<o[1]>>  BY <1>3, <2>1, <2>2, <2>4, OptionalIs
    <3>2. PICK given : given = Given(o[1], ZeroPage)  OBVIOUS
    <3>3. v[1] = <<given>> /\ <<given>> # <<>> /\ <<given>>[1] = given  BY <2>2, <3>1, <3>2
    <3>4. o[1] = r.page  BY <1>5, <2>1, <2>4
    <3>5. Merged(ZeroPage, given) = o[1]  BY <3>2, <3>4, PageGiven
    <3>6. ASSUME NEW m, m.name = "page", m.value = v[1] PROVE MemberInto(NoParams, m)["page"] = o
      <4>1. MemberInto(NoParams, m)["page"] = <<Merged(ZeroPage, given)>>  BY <3>3, <3>6, MemberDecoded
      <4>2. QED  BY <3>1, <3>5, <4>1, Zenon
    <3>7. QED  BY <3>3, <3>6
  <2>5. Fills(MembersOf(o, "page", v), {"page"}, w)  BY <1>3, <1>4, <2>1, <2>4, FillsOne
  <2> HIDE DEF s6
  <2>6. QED  BY <2>3, <2>5, Zenon
<1> HIDE DEF s1, s2, s3, s4, s5, s6
<1> DEFINE A2 == {"schema_revision"} \cup {"fields"}
           A3 == A2 \cup {"includes"}
           A4 == A3 \cup {"sorts"}
           A5 == A4 \cup {"filter"}
<1>13. /\ {"schema_revision"} \cap {"fields"} = {} /\ A2 \cap {"includes"} = {}
       /\ A3 \cap {"sorts"} = {} /\ A4 \cap {"filter"} = {} /\ A5 \cap {"page"} = {}
       /\ A5 \cup {"page"} = DOMAIN NoParams
  BY DEF NoParams
<1>14. Fills(s1 \o s2, A2, w)  BY <1>7, <1>8, <1>13, FillsBoth
<1> HIDE DEF A2
<1>15. Fills(s1 \o s2 \o s3, A3, w)  BY <1>9, <1>13, <1>14, FillsBoth
<1> HIDE DEF A3
<1>16. Fills(s1 \o s2 \o s3 \o s4, A4, w)  BY <1>10, <1>13, <1>15, FillsBoth
<1> HIDE DEF A4
<1>17. Fills(s1 \o s2 \o s3 \o s4 \o s5, A5, w)  BY <1>11, <1>13, <1>16, FillsBoth
<1> HIDE DEF A5
<1>18. Fills(all, A5 \cup {"page"}, w)  BY <1>12, <1>13, <1>17, FillsBoth
<1>19. QED  BY <1>1, <1>13, <1>18 DEF w

\* Over JSON-RPC a request arrives as it was meant.
LEMMA RpcReadBack ==
    ASSUME NEW r \in Intents
    PROVE  RpcParse(RpcText(r)) = Result(Blank, r)
<1> DEFINE p == RpcText(r).members
           w == RpcComponents(r)
           page == IF r.page = ZeroPage THEN <<>> ELSE <<r.page>>
<1>1. Fills(p, DOMAIN NoParams, w)  BY RpcFills
<1>2. RpcText(r).fits
  <2>1. PICK all : RpcText(r) = [fits |-> TRUE, members |-> all]  BY DEF RpcText
  <2>2. QED  BY <2>1
<1> HIDE DEF p
<1>3. StrictParams(RpcText(r))
  <2>1. \A i \in DOMAIN p : p[i].name \in DOMAIN NoParams  BY <1>1 DEF Fills
  <2>2. \A i, j \in DOMAIN p : Spelling(p[i]) = Spelling(p[j]) => i = j
    BY <1>1, SpellingIs DEF Fills
  <2>3. QED  BY <1>2, <2>1, <2>2 DEF StrictParams, p
<1>4. FoldLeft(MemberInto, NoParams, p) = Filled(p, w, DOMAIN p)  BY <1>1, MembersFold
<1>5. /\ w["schema_revision"] = r.revision /\ w["fields"] = r.fields /\ w["includes"] = r.includes
      /\ w["sorts"] = r.sorts /\ w["filter"] = r.filter /\ w["page"] = page
  BY DEF RpcComponents, NoParams
<1> HIDE DEF w
<1>6. PICK f : f = Filled(p, w, DOMAIN p)  OBVIOUS
<1>7. \A n \in DOMAIN NoParams : f[n] = w[n]
  <2> SUFFICES ASSUME NEW n \in DOMAIN NoParams PROVE f[n] = w[n]  OBVIOUS
  <2>1. f[n] = IF \E i \in DOMAIN p : p[i].name = n THEN w[n] ELSE <<>>  BY <1>6 DEF Filled
  <2>2. w[n] # <<>> => \E i \in DOMAIN p : p[i].name = n  BY <1>1 DEF Fills
  <2>3. QED  BY <2>1, <2>2
<1>8. DOMAIN NoParams = {"schema_revision", "fields", "includes", "filter", "sorts", "page"}  BY DEF NoParams
<1>9. (IF page = <<>> THEN ZeroPage ELSE page[1]) = r.page
  <2>1. PICK v : v = r.page  OBVIOUS
  <2>2. <<v>> # <<>> /\ <<v>>[1] = v  OBVIOUS
  <2>3. CASE v = ZeroPage  BY <2>1, <2>3
  <2>4. CASE v # ZeroPage  BY <2>1, <2>2, <2>4
  <2>5. QED  BY <2>3, <2>4
<1> HIDE DEF page
<1>10. RpcRequest(f) = [revision |-> r.revision, fields |-> r.fields, includes |-> r.includes,
                        filter |-> r.filter, sorts |-> r.sorts, page |-> r.page]
  <2>1. /\ f["schema_revision"] = r.revision /\ f["fields"] = r.fields /\ f["includes"] = r.includes
        /\ f["filter"] = r.filter /\ f["sorts"] = r.sorts /\ f["page"] = page
    BY <1>5, <1>7, <1>8
  <2>2. QED  BY <1>9, <2>1, Zenon DEF RpcRequest
<1>11. r = [revision |-> r.revision, fields |-> r.fields, includes |-> r.includes,
            filter |-> r.filter, sorts |-> r.sorts, page |-> r.page]
  BY SayableAssumption
<1>12. RpcRequest(f) = r  BY <1>10, <1>11, Zenon
<1>13. RpcParse(RpcText(r)) = Result(Blank, RpcRequest(FoldLeft(MemberInto, NoParams, p)))
  BY <1>3 DEF RpcParse, p
<1>14. QED  BY <1>4, <1>6, <1>12, <1>13, Zenon

-----------------------------------------------------------------------------
\* JSON:API: fieldsets of other resources are not looked at.
Others == {[resource |-> "lines", list |-> <<>>]}

LEMMA SortsReadBack ==
    ASSUME NEW r \in Intents, NEW sort, sort = [i \in DOMAIN r.sorts |-> Terms(r.sorts[i])]
    PROVE  [i \in DOMAIN sort |->
              [j \in DOMAIN sort[i] |->
                 [name |-> sort[i][j].name,
                  direction |-> IF sort[i][j].descending THEN "desc" ELSE "asc"]]] = r.sorts
<1> DEFINE Back(list) == [j \in DOMAIN list |->
                            [name |-> list[j].name,
                             direction |-> IF list[j].descending THEN "desc" ELSE "asc"]]
<1>1. IsOptionalList(r.sorts)  BY TransportAssumption
<1>2. ASSUME NEW i \in DOMAIN r.sorts PROVE Back(sort[i]) = r.sorts[i]
  <2>1. PICK list : list = r.sorts[i]  OBVIOUS
  <2>2. list = [j \in DOMAIN list |-> list[j]]
    <3>1. list \in Seq(Range(list))  BY <1>1, <2>1 DEF IsOptionalList
    <3>2. QED  BY <3>1
  <2>3. sort[i] = [j \in DOMAIN list |-> [name |-> list[j].name, descending |-> list[j].direction = "desc"]]
    BY <2>1 DEF Terms
  <2>4. ASSUME NEW j \in DOMAIN list
        PROVE  [name |-> sort[i][j].name,
                direction |-> IF sort[i][j].descending THEN "desc" ELSE "asc"] = list[j]
    <3>1. IsSortTerm(list[j])  BY <2>1, SayableAssumption
    <3>2. PICK name, direction : /\ list[j] = [name |-> name, direction |-> direction]
                                 /\ direction = "desc" \/ direction = "asc"
      BY <3>1 DEF IsSortTerm
    <3>3. PICK d \in BOOLEAN : d <=> direction = "desc"  OBVIOUS
    <3>4. sort[i][j].name = name /\ sort[i][j].descending = d
      <4>1. list[j].name = name /\ list[j].direction = direction  BY <3>2
      <4>2. (list[j].direction = "desc") = d
        <5>1. CASE direction = "desc"  BY <3>3, <4>1, <5>1, Zenon
        <5>2. CASE direction # "desc"  BY <3>3, <4>1, <5>2, Zenon
        <5>3. QED  BY <5>1, <5>2
      <4>3. sort[i][j] = [name |-> list[j].name, descending |-> list[j].direction = "desc"]  BY <2>3
      <4>4. sort[i][j] = [name |-> name, descending |-> d]  BY <4>1, <4>2, <4>3, Zenon
      <4>5. QED  BY <4>4
    <3>5. (IF sort[i][j].descending THEN "desc" ELSE "asc") = direction  BY <3>2, <3>3, <3>4
    <3>6. QED  BY <3>2, <3>4, <3>5
  <2>5. DOMAIN sort[i] = DOMAIN list  BY <2>3
  <2>6. Back(sort[i]) = [j \in DOMAIN list |-> list[j]]  BY <2>4, <2>5
  <2>7. QED  BY <2>1, <2>2, <2>6
<1>3. DOMAIN sort = DOMAIN r.sorts  OBVIOUS
<1> HIDE DEF Back
<1>4. [i \in DOMAIN sort |-> Back(sort[i])] = [i \in DOMAIN r.sorts |-> r.sorts[i]]  BY <1>2, <1>3
<1>5. r.sorts = [i \in DOMAIN r.sorts |-> r.sorts[i]]
  <2>1. PICK t : t = [i \in DOMAIN r.sorts |-> r.sorts[i]]  OBVIOUS
  <2>2. t = [i \in DOMAIN r.sorts |-> t[i]]  BY <2>1
  <2>3. CASE r.sorts = <<>>  BY <2>1, <2>3
  <2>4. CASE r.sorts # <<>>
    <3>1. DOMAIN r.sorts = {1} /\ r.sorts = <<r.sorts[1]>>  BY <1>1, <2>2, <2>4, OptionalIs DEF IsOptionalList
    <3>2. PICK x : x = r.sorts[1]  OBVIOUS
    <3>3. <<x>> = [i \in {1} |-> x]  OBVIOUS
    <3>4. t = [i \in {1} |-> x]  BY <2>1, <3>1, <3>2
    <3>5. QED  BY <2>1, <3>1, <3>2, <3>3, <3>4
  <2>5. QED  BY <2>3, <2>4
<1>6. QED  BY <1>4, <1>5 DEF Back

LEMMA ApiReadBack ==
    ASSUME NEW r \in Intents, r.revision = <<>>, NEW query, NEW config,
           config = JsonApiQuery(r).config,
           \E fields : /\ query = [JsonApiQuery(r).query EXCEPT !.fields = fields]
                       /\ fields = JsonApiQuery(r).query.fields \/ fields = JsonApiQuery(r).query.fields \cup Others
    PROVE  FromQuery(query, config) = Result(Blank, r)
<1> DEFINE own == {[resource |-> "orders", list |-> r.fields[i]] : i \in DOMAIN r.fields}
           page == IF r.page = ZeroPage THEN <<>> ELSE <<r.page>>
           sort == [i \in DOMAIN r.sorts |-> Terms(r.sorts[i])]
<1>1. PICK fields :
         /\ query = [fields |-> fields, include |-> r.includes, sort |-> sort, filter |-> r.filter, page |-> page]
         /\ fields = own \/ fields = own \cup Others
         /\ config = [resource |-> "orders", filter |-> "works", page |-> "works"]
  <2>1. PICK given : given = [fields |-> own, include |-> r.includes, sort |-> sort, filter |-> r.filter, page |-> page]
    OBVIOUS
  <2>2. JsonApiQuery(r) = [query |-> given, config |-> [resource |-> "orders", filter |-> "works", page |-> "works"]]
    BY <2>1 DEF JsonApiQuery
  <2> HIDE DEF own, page, sort
  <2>3. JsonApiQuery(r).query = given /\ given.fields = own  BY <2>1, <2>2
  <2>4. PICK fields : /\ query = [given EXCEPT !.fields = fields]
                      /\ fields = own \/ fields = own \cup Others
    BY <2>3
  <2>5. query = [fields |-> fields, include |-> r.includes, sort |-> sort, filter |-> r.filter, page |-> page]
    BY <2>1, <2>4
  <2>6. config = [resource |-> "orders", filter |-> "works", page |-> "works"]  BY <2>2
  <2>7. QED  BY <2>4, <2>5, <2>6
<1>2. /\ config.resource = "orders" /\ config.filter = "works" /\ config.page = "works"
      /\ query.fields = fields /\ query.include = r.includes /\ query.sort = sort
      /\ query.filter = r.filter /\ query.page = page
  <2> HIDE DEF sort, page, own
  <2>1. QED  BY <1>1
<1>3. "orders" # Blank  BY Zenon DEF Blank
<1>4. FamilyDecoded(config.filter, query.filter) = r.filter /\ FamilyDecoded(config.page, query.page) = page
  BY <1>2 DEF FamilyDecoded
<1>5. Refusal(config.filter, query.filter) = Blank /\ Refusal(config.page, query.page) = Blank
  <2>1. config.filter # "absent" /\ config.page # "absent"  BY <1>2
  <2> HIDE DEF page
  <2>2. QED  BY <1>2, <1>4, <2>1 DEF Refusal
<1>6. IsOptional(r.fields)  BY TransportAssumption DEF IsOptionalList
<1>7. Selected(query, config) = own
  <2>1. \A f \in own : f.resource = "orders"  OBVIOUS
  <2>2. \A f \in Others : f.resource = "lines"  BY DEF Others
  <2> HIDE DEF own, sort, page
  <2>3. QED  BY <1>1, <1>2, <2>1, <2>2 DEF Selected
<1>8. (IF own = {} THEN <<>> ELSE <<(CHOOSE f \in own : TRUE).list>>) = r.fields
  <2>1. CASE r.fields = <<>>  BY <2>1
  <2>2. CASE r.fields # <<>>
    <3>1. PICK t : t = [i \in DOMAIN r.fields |-> r.fields[i]]  OBVIOUS
    <3>2. t = [i \in DOMAIN r.fields |-> t[i]]  BY <3>1
    <3>3. DOMAIN r.fields = {1} /\ r.fields = <<r.fields[1]>>  BY <1>6, <2>2, <3>2, OptionalIs
    <3>4. PICK x : x = r.fields[1]  OBVIOUS
    <3>5. PICK f : f = [resource |-> "orders", list |-> x]  OBVIOUS
    <3>6. own = {f}  BY <3>3, <3>4, <3>5
    <3>7. (CHOOSE g \in own : TRUE) = f  BY <3>6
    <3>8. own # {} /\ f.list = x  BY <3>5, <3>6
    <3> HIDE DEF own
    <3>9. QED  BY <3>3, <3>4, <3>7, <3>8
  <2>3. QED  BY <2>1, <2>2
<1>9. (IF page = <<>> THEN ZeroPage ELSE page[1]) = r.page
  <2>1. PICK v : v = r.page  OBVIOUS
  <2>2. <<v>> # <<>> /\ <<v>>[1] = v  OBVIOUS
  <2>3. CASE v = ZeroPage  BY <2>1, <2>3
  <2>4. CASE v # ZeroPage  BY <2>1, <2>2, <2>4
  <2>5. QED  BY <2>3, <2>4
<1> DEFINE terms == [i \in DOMAIN query.sort |->
                       [j \in DOMAIN query.sort[i] |->
                          [name |-> query.sort[i][j].name,
                           direction |-> IF query.sort[i][j].descending THEN "desc" ELSE "asc"]]]
<1>10. terms = r.sorts  BY <1>2, SortsReadBack
<1> HIDE DEF own, page, sort, terms
<1> DEFINE request == [ZeroRequest EXCEPT !.fields = IF Selected(query, config) = {} THEN <<>>
                                          ELSE <<(CHOOSE f \in Selected(query, config) : TRUE).list>>,
                               !.includes = query.include, !.sorts = terms,
                               !.filter = FamilyDecoded(config.filter, query.filter),
                               !.page = IF FamilyDecoded(config.page, query.page) = <<>> THEN ZeroPage
                                        ELSE FamilyDecoded(config.page, query.page)[1]]
<1>11. FromQuery(query, config) =
          Result(IF config.resource = Blank THEN "invalid"
                 ELSE IF Refusal(config.filter, query.filter) # Blank
                      THEN Refusal(config.filter, query.filter)
                      ELSE Refusal(config.page, query.page), request)
  BY DEF FromQuery, terms
<1>12. request = r
  <2>1. request = [ZeroRequest EXCEPT !.fields = r.fields, !.includes = r.includes, !.sorts = r.sorts,
                                      !.filter = r.filter, !.page = r.page]
    <3>1. (IF Selected(query, config) = {} THEN <<>>
           ELSE <<(CHOOSE f \in Selected(query, config) : TRUE).list>>) = r.fields
      BY <1>7, <1>8
    <3>2. (IF FamilyDecoded(config.page, query.page) = <<>> THEN ZeroPage
           ELSE FamilyDecoded(config.page, query.page)[1]) = r.page
      BY <1>4, <1>9
    <3>3. FamilyDecoded(config.filter, query.filter) = r.filter /\ query.include = r.includes  BY <1>2, <1>4
    <3>4. QED  BY <1>10, <3>1, <3>2, <3>3, Zenon
  <2> HIDE DEF request
  <2>2. PICK zero : ZeroRequest = [revision |-> <<>>, fields |-> <<>>, includes |-> <<>>,
                                   filter |-> <<>>, sorts |-> <<>>, page |-> zero]
    BY DEF ZeroRequest
  <2>3. request = [revision |-> <<>>, fields |-> r.fields, includes |-> r.includes,
                   filter |-> r.filter, sorts |-> r.sorts, page |-> r.page]
    BY <2>1, <2>2
  <2>4. r = [revision |-> r.revision, fields |-> r.fields, includes |-> r.includes,
             filter |-> r.filter, sorts |-> r.sorts, page |-> r.page]
    BY SayableAssumption
  <2>5. QED  BY <2>3, <2>4, Zenon
<1>13. QED  BY <1>2, <1>3, <1>5, <1>11, <1>12, Zenon

-----------------------------------------------------------------------------
\* The same request over every transport.

\* A message that no one has spoilt is what the client wrote; a fieldset of another
\* resource is all that "other-fieldset" adds to a query.
AsWritten ==
    /\ intent \in Intents /\ (via = "jsonapi" => intent.revision = <<>>)
    /\ via = "http" /\ faults = {} => sent = HttpText(intent)
    /\ via = "rpc" /\ faults = {} => sent = RpcText(intent)
    /\ via = "jsonapi" /\ faults \subseteq {"other-fieldset"} =>
          LET q == JsonApiQuery(intent).query IN
          /\ sent.config = JsonApiQuery(intent).config
          /\ \/ faults = {} /\ sent.query = q
             \/ /\ faults # {}
                /\ \E fields : fields = q.fields \cup Others /\ sent.query = [q EXCEPT !.fields = fields]

LEMMA WrittenAtFirst == TransportInit => AsWritten
<1> SUFFICES ASSUME TransportInit PROVE AsWritten  OBVIOUS
<1>1. /\ intent \in Intents /\ (via = "jsonapi" => intent.revision = <<>>) /\ faults = {}
      /\ via = "http" => sent = HttpText(intent)
      /\ via = "rpc" => sent = RpcText(intent)
      /\ via = "jsonapi" => sent = JsonApiQuery(intent)
  BY DEF TransportInit
<1>2. QED  BY <1>1 DEF AsWritten

LEMMA WrittenStays == TransportInv /\ AsWritten /\ [TransportNext]_tvars => AsWritten'
<1> SUFFICES ASSUME TransportInv, AsWritten, [TransportNext]_tvars PROVE AsWritten'  OBVIOUS
<1>1. ASSUME NEW fault, NEW spoilt, Spoil(fault, spoilt)
      PROVE  /\ UNCHANGED <<via, intent>> /\ fault \in faults' /\ fault \notin faults
             /\ faults' = faults \cup {fault} /\ sent' = spoilt
  BY <1>1 DEF Spoil
<1>2. CASE SpoilHttp
  <2>1. via = "http" /\ \E fault, spoilt : Spoil(fault, spoilt)  BY <1>2, Zenon DEF SpoilHttp
  <2>2. UNCHANGED <<via, intent>> /\ faults' # {}  BY <1>1, <2>1
  <2>3. via' # "rpc" /\ via' # "jsonapi"  BY <2>1, <2>2
  <2>4. QED  BY <2>2, <2>3 DEF AsWritten
<1>3. CASE SpoilRpc
  <2>1. via = "rpc" /\ \E fault, spoilt : Spoil(fault, spoilt)  BY <1>3, Zenon DEF SpoilRpc
  <2>2. UNCHANGED <<via, intent>> /\ faults' # {}  BY <1>1, <2>1
  <2>3. via' # "http" /\ via' # "jsonapi"  BY <2>1, <2>2
  <2>4. QED  BY <2>2, <2>3 DEF AsWritten
<1>4. CASE SpoilJsonApi
  <2>1. via = "jsonapi" /\ \E fault, spoilt : Spoil(fault, spoilt)  BY <1>4, Zenon DEF SpoilJsonApi
  <2>2. UNCHANGED <<via, intent>> /\ faults' # {}  BY <1>1, <2>1
  <2>3. via' = "jsonapi" /\ intent' = intent  BY <2>1, <2>2
  <2>4. SUFFICES ASSUME faults' \subseteq {"other-fieldset"}
                 PROVE  LET q == JsonApiQuery(intent).query IN
                        /\ sent'.config = JsonApiQuery(intent).config
                        /\ \E fields : fields = q.fields \cup Others /\ sent'.query = [q EXCEPT !.fields = fields]
    BY <2>2, <2>3, Zenon DEF AsWritten
  <2>5. Spoil("other-fieldset", [sent EXCEPT !.query.fields = @ \cup {[resource |-> "lines", list |-> <<>>]}])
    <3>1. PICK fault, spoilt : /\ Spoil(fault, spoilt)
                               /\ \/ fault \in {"no-resource", "filter-decoder", "page-decoder"}
                                  \/ /\ fault = "other-fieldset"
                                     /\ spoilt = [sent EXCEPT !.query.fields = @ \cup {[resource |-> "lines", list |-> <<>>]}]
      <4>1. CASE Spoil("no-resource", [sent EXCEPT !.config.resource = Blank])  BY <4>1
      <4>2. CASE Spoil("other-fieldset", [sent EXCEPT !.query.fields = @ \cup {[resource |-> "lines", list |-> <<>>]}])
        BY <4>2
      <4>3. ASSUME NEW d, Spoil("filter-decoder", [sent EXCEPT !.config.filter = d])
            PROVE  \E fault, spoilt : Spoil(fault, spoilt) /\ fault \in {"no-resource", "filter-decoder", "page-decoder"}
        BY <4>3
      <4>4. ASSUME NEW d, Spoil("page-decoder", [sent EXCEPT !.config.page = d])
            PROVE  \E fault, spoilt : Spoil(fault, spoilt) /\ fault \in {"no-resource", "filter-decoder", "page-decoder"}
        BY <4>4
      <4>5. QED  BY <1>4, <4>1, <4>2, <4>3, <4>4, Zenon DEF SpoilJsonApi
    <3>2. fault = "other-fieldset"  BY <1>1, <2>4, <3>1
    <3>3. QED  BY <3>1, <3>2
  <2>6. faults = {}
    <3>1. faults' = faults \cup {"other-fieldset"} /\ "other-fieldset" \notin faults  BY <1>1, <2>5
    <3>2. QED  BY <2>4, <3>1
  <2>7. sent.query = JsonApiQuery(intent).query /\ sent.config = JsonApiQuery(intent).config
    BY <2>1, <2>6 DEF AsWritten
  <2>8. PICK q, c : sent = [query |-> q, config |-> c]  BY <2>1 DEF TransportInv, Message, ApiMessage
  <2>9. PICK fields, include, sort, filter, page :
           q = [fields |-> fields, include |-> include, sort |-> sort, filter |-> filter, page |-> page]
    <3>1. ApiMessage /\ sent.query = q  BY <2>1, <2>8 DEF TransportInv, Message
    <3>2. QED  BY <3>1 DEF ApiMessage
  <2>10. PICK more : more = fields \cup {[resource |-> "lines", list |-> <<>>]}  OBVIOUS
  <2>11. PICK e : e = [q EXCEPT !.fields = more]  OBVIOUS
  <2>12. [sent EXCEPT !.query.fields = @ \cup {[resource |-> "lines", list |-> <<>>]}] = [query |-> e, config |-> c]
    <3>1. [sent EXCEPT !.query = e] = [query |-> e, config |-> c]  BY <2>8
    <3>2. sent.query = q /\ q.fields = fields  BY <2>8, <2>9
    <3>3. QED  BY <2>10, <2>11, <3>1, <3>2, Zenon
  <2>13. sent' = [query |-> e, config |-> c]  BY <1>1, <2>5, <2>12, Zenon
  <2>14. sent'.query = e /\ sent'.config = c /\ q.fields = fields /\ sent.query = q /\ sent.config = c
    BY <2>8, <2>9, <2>13
  <2>15. more = q.fields \cup Others  BY <2>10, <2>14 DEF Others
  <2>16. QED  BY <2>7, <2>11, <2>14, <2>15
<1>5. ASSUME UNCHANGED <<via, intent, sent, faults>> PROVE AsWritten'  BY <1>5 DEF AsWritten
<1>6. CASE Parse  BY <1>5, <1>6 DEF Parse
<1>7. CASE UNCHANGED tvars  BY <1>5, <1>7 DEF tvars
<1>8. QED  BY <1>2, <1>3, <1>4, <1>6, <1>7 DEF TransportNext

LEMMA ArrivesAsWritten == TransportInv /\ AsWritten => SameRequestEveryWay
<1> SUFFICES ASSUME TransportInv, AsWritten, faults \subseteq {"other-fieldset"}, NEW i \in DOMAIN got
             PROVE  got[i].error = Blank /\ got[i].request = intent
  BY DEF SameRequestEveryWay
<1>1. got[i] = Answer
  <2>1. got = <<Answer>>  BY DEF TransportInv
  <2>2. PICK a : a = Answer  OBVIOUS
  <2>3. got = <<a>>  BY <2>1, <2>2
  <2>4. DOMAIN got = {1} /\ got[1] = a  BY <2>3
  <2>5. QED  BY <2>2, <2>4
<1>2. Result(Blank, intent).error = Blank /\ Result(Blank, intent).request = intent  BY DEF Result
<1>3. intent \in Intents  BY DEF AsWritten
<1>4. CASE via = "http"
  <2>1. HttpMessage  BY <1>4 DEF TransportInv, Message
  <2>2. faults = {}  BY <2>1 DEF HttpMessage, HttpFaults
  <2>3. sent = HttpText(intent)  BY <1>4, <2>2 DEF AsWritten
  <2>4. Answer = HttpParse(HttpText(intent))  BY <1>4, <2>3 DEF Answer
  <2>5. QED  BY <1>1, <1>2, <1>3, <2>4, HttpReadBack
<1>5. CASE via = "rpc"
  <2>1. RpcMessage  BY <1>5 DEF TransportInv, Message
  <2>2. faults = {}  BY <2>1 DEF RpcMessage, RpcFaults
  <2>3. sent = RpcText(intent)  BY <1>5, <2>2 DEF AsWritten
  <2>4. Answer = RpcParse(RpcText(intent))  BY <1>5, <2>3 DEF Answer
  <2>5. QED  BY <1>1, <1>2, <1>3, <2>4, RpcReadBack
<1>6. CASE via = "jsonapi"
  <2> DEFINE q == JsonApiQuery(intent).query
  <2>1. /\ intent.revision = <<>> /\ sent.config = JsonApiQuery(intent).config
        /\ \/ sent.query = q
           \/ \E fields : fields = q.fields \cup Others /\ sent.query = [q EXCEPT !.fields = fields]
    BY <1>6 DEF AsWritten
  <2>2. PICK own, include, sort, filter, page :
           q = [fields |-> own, include |-> include, sort |-> sort, filter |-> filter, page |-> page]
    <3>1. PICK own, sort, page :
             JsonApiQuery(intent) =
                [query |-> [fields |-> own, include |-> intent.includes, sort |-> sort,
                            filter |-> intent.filter, page |-> page],
                 config |-> [resource |-> "orders", filter |-> "works", page |-> "works"]]
      BY Zenon DEF JsonApiQuery
    <3>2. PICK given, config :
             /\ given = [fields |-> own, include |-> intent.includes, sort |-> sort,
                         filter |-> intent.filter, page |-> page]
             /\ JsonApiQuery(intent) = [query |-> given, config |-> config]
      BY <3>1, Zenon
    <3>3. q = given  BY <3>2
    <3> HIDE DEF q
    <3>4. QED  BY <3>2, <3>3
  <2> HIDE DEF q
  <2>3. q = [q EXCEPT !.fields = q.fields]  BY <2>2
  <2>4. \E fields : /\ sent.query = [q EXCEPT !.fields = fields]
                    /\ fields = q.fields \/ fields = q.fields \cup Others
    BY <2>1, <2>3
  <2>5. FromQuery(sent.query, sent.config) = Result(Blank, intent)
    BY <1>3, <2>1, <2>4, ApiReadBack DEF q
  <2>6. Answer = FromQuery(sent.query, sent.config)  BY <1>6 DEF Answer
  <2>7. QED  BY <1>1, <1>2, <2>5, <2>6
<1>7. QED  BY <1>4, <1>5, <1>6 DEF TransportInv, Message

\* A request that every transport has a text for arrives over each of them as the
\* client meant it: absent stays absent, empty stays empty, a sort keeps its name and
\* direction, and a fieldset of another resource changes nothing (http.go:40-75,
\* jsonrpc.go:49-67, jsonapi.go:59-97; src/docs/http.md:15-17).
THEOREM RequestsArriveAsMeant == TransportSpec => []SameRequestEveryWay
BY MessageInvariant, WrittenAtFirst, WrittenStays, ArrivesAsWritten, PTL DEF TransportSpec

-----------------------------------------------------------------------------
\* JSON-RPC members that are repeated under an alias, or null.

\* The values that the members p may give a component.
GivenBy(p) == {Blank, 0} \cup
             {p[i].value[1][m][1] : i \in DOMAIN p, m \in DOMAIN ZeroPage \cup DOMAIN ZeroFilter}

Wrapped(S) == {<<>>} \cup {<<x>> : x \in S}

ParamsOf(p) ==
    {f \in [DOMAIN NoParams -> Wrapped([DOMAIN ZeroPage -> GivenBy(p)]) \cup
                               Wrapped([DOMAIN ZeroFilter -> GivenBy(p)]) \cup {p[i].value : i \in DOMAIN p}] :
        /\ f["page"] \in Wrapped([DOMAIN ZeroPage -> GivenBy(p)])
        /\ f["filter"] \in Wrapped([DOMAIN ZeroFilter -> GivenBy(p)])}

LEMMA ZerosAre ==
    /\ DOMAIN ZeroPage = {"mode", "size", "after", "before", "offset"}
    /\ DOMAIN ZeroFilter = {"predicate", "logic"}
    /\ DOMAIN NoParams = {"schema_revision", "fields", "includes", "filter", "sorts", "page"}
    /\ NoParams = [n \in DOMAIN NoParams |-> <<>>]
    /\ \A p : /\ ZeroPage \in [DOMAIN ZeroPage -> GivenBy(p)]
              /\ ZeroFilter \in [DOMAIN ZeroFilter -> GivenBy(p)]
<1>1. PICK blank : blank = Blank  OBVIOUS
<1>2. ZeroPage = [mode |-> blank, size |-> 0, after |-> blank, before |-> blank, offset |-> 0]
  BY <1>1 DEF ZeroPage
<1>3. ZeroFilter = [predicate |-> blank, logic |-> blank]  BY <1>1 DEF ZeroFilter
<1>4. \A p : blank \in GivenBy(p) /\ 0 \in GivenBy(p)  BY <1>1 DEF GivenBy
<1>5. DOMAIN ZeroPage = {"mode", "size", "after", "before", "offset"}  BY <1>2
<1>6. DOMAIN ZeroFilter = {"predicate", "logic"}  BY <1>3
<1>7. \A p : ZeroPage \in [DOMAIN ZeroPage -> GivenBy(p)]
  <2> SUFFICES ASSUME NEW p PROVE ZeroPage \in [DOMAIN ZeroPage -> GivenBy(p)]  OBVIOUS
  <2>1. \A m \in DOMAIN ZeroPage : ZeroPage[m] \in GivenBy(p)  BY <1>2, <1>4
  <2>2. ZeroPage = [m \in DOMAIN ZeroPage |-> ZeroPage[m]]  BY <1>2
  <2>3. QED  BY <2>1, <2>2
<1>8. \A p : ZeroFilter \in [DOMAIN ZeroFilter -> GivenBy(p)]
  <2> SUFFICES ASSUME NEW p PROVE ZeroFilter \in [DOMAIN ZeroFilter -> GivenBy(p)]  OBVIOUS
  <2>1. \A m \in DOMAIN ZeroFilter : ZeroFilter[m] \in GivenBy(p)  BY <1>3, <1>4
  <2>2. ZeroFilter = [m \in DOMAIN ZeroFilter |-> ZeroFilter[m]]  BY <1>3
  <2>3. QED  BY <2>1, <2>2
<1>9. /\ DOMAIN NoParams = {"schema_revision", "fields", "includes", "filter", "sorts", "page"}
      /\ NoParams = [n \in DOMAIN NoParams |-> <<>>]
  BY DEF NoParams
<1>10. QED  BY <1>5, <1>6, <1>7, <1>8, <1>9

\* A record that members are merged into keeps its shape.
LEMMA MergedIs ==
    ASSUME NEW p, NEW i \in DOMAIN p, NEW zero, zero = ZeroPage \/ zero = ZeroFilter,
           NEW prior \in [DOMAIN zero -> GivenBy(p)]
    PROVE  Merged(prior, p[i].value[1]) \in [DOMAIN zero -> GivenBy(p)]
<1> DEFINE given == p[i].value[1]
<1>1. \A m \in DOMAIN zero : given[m][1] \in GivenBy(p)  BY DEF GivenBy
<1>2. Merged(prior, given) = [m \in DOMAIN zero |-> IF given[m] = <<>> THEN prior[m] ELSE given[m][1]]
  BY DEF Merged
<1> HIDE DEF given
<1>3. \A m \in DOMAIN zero : (IF given[m] = <<>> THEN prior[m] ELSE given[m][1]) \in GivenBy(p)  BY <1>1
<1>4. QED  BY <1>2, <1>3 DEF given

\* What a component that another member has set is afterwards.
LEMMA MemberSets ==
    ASSUME NEW p, NEW i \in DOMAIN p, p[i].name \in DOMAIN NoParams, NEW f \in ParamsOf(p)
    PROVE  /\ MemberInto(f, p[i]) \in ParamsOf(p)
           /\ \A n \in DOMAIN NoParams \ {p[i].name} : MemberInto(f, p[i])[n] = f[n]
           /\ p[i].value = <<>> => MemberInto(f, p[i])[p[i].name] = <<>>
<1> DEFINE m == p[i]
           prior == f[m.name]
           Into(zero) == Merged(IF prior = <<>> THEN zero ELSE prior[1], m.value[1])
           new == IF m.value = <<>> THEN <<>>
                  ELSE CASE m.name = "page" -> <<Into(ZeroPage)>>
                         [] m.name = "filter" -> <<Into(ZeroFilter)>>
                         [] OTHER -> m.value
           Pages == Wrapped([DOMAIN ZeroPage -> GivenBy(p)])
           Filters == Wrapped([DOMAIN ZeroFilter -> GivenBy(p)])
           V == Pages \cup Filters \cup {p[j].value : j \in DOMAIN p}
<1>1. MemberInto(f, m) = [f EXCEPT ![m.name] = new]  BY DEF MemberInto
<1>2. m.value = <<>> => new = <<>>  OBVIOUS
<1>3. f \in [DOMAIN NoParams -> V] /\ f["page"] \in Pages /\ f["filter"] \in Filters  BY DEF ParamsOf
<1>4. ASSUME NEW zero, zero = ZeroPage \/ zero = ZeroFilter,
             prior \in Wrapped([DOMAIN zero -> GivenBy(p)])
      PROVE  <<Into(zero)>> \in Wrapped([DOMAIN zero -> GivenBy(p)])
  <2>1. zero \in [DOMAIN zero -> GivenBy(p)]  BY <1>4, ZerosAre
  <2>2. (IF prior = <<>> THEN zero ELSE prior[1]) \in [DOMAIN zero -> GivenBy(p)]
    <3>1. CASE prior = <<>>  BY <2>1, <3>1
    <3>2. CASE prior # <<>>
      <4> HIDE DEF prior
      <4>1. PICK x \in [DOMAIN zero -> GivenBy(p)] : prior = <<x>>  BY <1>4, <3>2 DEF Wrapped
      <4>2. prior[1] = x  BY <4>1
      <4>3. QED  BY <3>2, <4>1, <4>2
    <3>3. QED  BY <3>1, <3>2
  <2> HIDE DEF prior
  <2>3. Into(zero) \in [DOMAIN zero -> GivenBy(p)]  BY <1>4, <2>2, MergedIs
  <2>4. QED  BY <2>3 DEF Wrapped
<1>5. <<>> \in Pages /\ <<>> \in Filters  BY DEF Wrapped
<1>6. m.name = "page" => new \in Pages
  <2>1. m.name = "page" => prior \in Pages  BY <1>3
  <2> HIDE DEF Into, prior
  <2>2. m.name = "page" => <<Into(ZeroPage)>> \in Pages  BY <1>4, <2>1
  <2> HIDE DEF Pages
  <2>3. QED  BY <1>5, <2>2
<1>7. m.name = "filter" => new \in Filters
  <2>1. m.name = "filter" => prior \in Filters  BY <1>3
  <2> HIDE DEF Into, prior
  <2>2. m.name = "filter" => <<Into(ZeroFilter)>> \in Filters  BY <1>4, <2>1
  <2> HIDE DEF Filters
  <2>3. m.name = "filter" /\ m.value # <<>> => new = <<Into(ZeroFilter)>>  OBVIOUS
  <2>4. QED  BY <1>2, <1>5, <2>2, <2>3
<1>8. m.name \notin {"page", "filter"} => new \in V
  <2>1. m.name \notin {"page", "filter"} => new = <<>> \/ new = m.value  OBVIOUS
  <2> HIDE DEF new, Pages, Filters
  <2>2. QED  BY <1>5, <2>1
<1> HIDE DEF new, prior, Into
<1>9. new \in V
  <2> HIDE DEF Pages, Filters
  <2>1. QED  BY <1>6, <1>7, <1>8
<1>10. PICK e : e = [f EXCEPT ![m.name] = new]  OBVIOUS
<1>11. /\ e \in [DOMAIN NoParams -> V] /\ e[m.name] = new
       /\ \A n \in DOMAIN NoParams \ {m.name} : e[n] = f[n]
  <2> HIDE DEF V, m
  <2>1. m.name \in DOMAIN NoParams  BY DEF m
  <2>2. QED  BY <1>3, <1>9, <1>10, <2>1
<1>12. "page" \in DOMAIN NoParams /\ "filter" \in DOMAIN NoParams  BY ZerosAre
<1>13. e["page"] \in Pages /\ e["filter"] \in Filters
  <2> HIDE DEF Pages, Filters, V
  <2>1. QED  BY <1>3, <1>6, <1>7, <1>11, <1>12
<1>14. e \in ParamsOf(p)  BY <1>11, <1>13 DEF ParamsOf
<1> HIDE DEF V, Pages, Filters
<1>15. QED  BY <1>1, <1>2, <1>10, <1>11, <1>14

\* The parameters are what the members leave, one after the other.
LEMMA MembersInTurn ==
    ASSUME NEW p, p \in Seq(Range(p)), \A i \in DOMAIN p : p[i].name \in DOMAIN NoParams
    PROVE  \E f \in [0..Len(p) -> ParamsOf(p)] :
              /\ f[0] = NoParams /\ f[Len(p)] = FoldLeft(MemberInto, NoParams, p)
              /\ \A k \in 0..(Len(p) - 1) : f[k + 1] = MemberInto(f[k], p[k + 1])
<1> DEFINE N == Len(p)
           T == ParamsOf(p)
           Goes(h) == h = [D \in SUBSET (1..N) |->
                              IF D = {} THEN NoParams ELSE MemberInto(h[D \ {Top(D)}], p[Top(D)])]
           F == CHOOSE h : Goes(h)
           step == [z \in (1..N) \X T |-> MemberInto(z[2], p[z[1]])]
<1>0. N \in Nat /\ DOMAIN p = 1..N  OBVIOUS
<1>1. FoldLeft(MemberInto, NoParams, p) = F[1..N]
  BY <1>0 DEF FoldLeft, MapThenFoldSet, Top
<1> HIDE DEF N
<1>2. \A i \in 1..N, f \in T : MemberInto(f, p[i]) \in T  BY <1>0, MemberSets
<1>3. NoParams \in T
  <2>1. NoParams = [n \in DOMAIN NoParams |-> <<>>]  BY ZerosAre
  <2>2. <<>> \in Wrapped([DOMAIN ZeroPage -> GivenBy(p)]) /\ <<>> \in Wrapped([DOMAIN ZeroFilter -> GivenBy(p)])
    BY DEF Wrapped
  <2>3. NoParams["page"] = <<>> /\ NoParams["filter"] = <<>>  BY <2>1, ZerosAre
  <2>4. QED  BY <2>1, <2>2, <2>3 DEF ParamsOf
<1> HIDE DEF T
<1>4. step \in [(1..N) \X T -> T]  BY <1>2
<1> HIDE DEF step
<1>5. PICK g \in [SUBSET (1..N) -> T] : \A D \in SUBSET (1..N) :
         g[D] = IF D = {} THEN NoParams ELSE step[<<Top(D), g[D \ {Top(D)}]>>]
  <2>1. PICK g : Folds(g, N, T, NoParams, step)  BY <1>0, <1>3, <1>4, FoldExists
  <2>2. QED  BY <2>1 DEF Folds
<1>6. ASSUME NEW D \in SUBSET (1..N), D # {}
      PROVE  Top(D) \in 1..N /\ D \ {Top(D)} \in SUBSET (1..N)
  BY <1>0, <1>6, Topmost
<1>7. ASSUME NEW D \in SUBSET (1..N)
      PROVE  g[D] = IF D = {} THEN NoParams ELSE MemberInto(g[D \ {Top(D)}], p[Top(D)])
  <2>1. CASE D = {}  BY <1>5, <2>1
  <2>2. CASE D # {}
    <3>1. <<Top(D), g[D \ {Top(D)}]>> \in (1..N) \X T  BY <1>6, <2>2
    <3>2. step[<<Top(D), g[D \ {Top(D)}]>>] = MemberInto(g[D \ {Top(D)}], p[Top(D)])
      <4>1. PICK k, h : k = Top(D) /\ h = g[D \ {Top(D)}]  OBVIOUS
      <4>2. <<k, h>> \in (1..N) \X T  BY <3>1, <4>1
      <4>3. step[<<k, h>>] = MemberInto(h, p[k])  BY <4>2 DEF step
      <4>4. QED  BY <4>1, <4>3
    <3>3. QED  BY <1>5, <2>2, <3>2
  <2>3. QED  BY <2>1, <2>2
<1>8. Goes(g)
  <2>1. g = [D \in SUBSET (1..N) |-> g[D]]  BY <1>5
  <2>2. [D \in SUBSET (1..N) |-> g[D]] =
           [D \in SUBSET (1..N) |-> IF D = {} THEN NoParams ELSE MemberInto(g[D \ {Top(D)}], p[Top(D)])]
    BY <1>7
  <2>3. QED  BY <2>1, <2>2
<1>9. Goes(F)
  <2> HIDE DEF Goes
  <2>1. QED  BY <1>8
<1> HIDE DEF F
<1>10. \A D \in SUBSET (1..N) :
         F[D] = IF D = {} THEN NoParams ELSE MemberInto(F[D \ {Top(D)}], p[Top(D)])
  BY <1>9
<1> DEFINE f == [k \in 0..N |-> F[1..k]]
<1>11. f[0] = NoParams
  <2>1. 1..0 = {} /\ {} \in SUBSET (1..N)  OBVIOUS
  <2>2. F[{}] = NoParams  BY <1>10, <2>1
  <2>3. f[0] = F[1..0]  BY <1>0
  <2> HIDE DEF f
  <2>4. QED  BY <2>1, <2>2, <2>3
<1>12. ASSUME NEW k \in 0..(N - 1) PROVE f[k + 1] = MemberInto(f[k], p[k + 1])
  <2>1. k + 1 \in Nat \ {0} /\ (k + 1) - 1 = k /\ k + 1 \in 0..N /\ k \in 0..N  BY <1>0
  <2>2. Top(1..(k + 1)) = k + 1 /\ (1..(k + 1)) \ {Top(1..(k + 1))} = 1..k
    <3>1. Top(1..(k + 1)) = k + 1 /\ (1..(k + 1)) \ {Top(1..(k + 1))} = 1..((k + 1) - 1)
      BY <2>1, TopOfInterval
    <3>2. QED  BY <2>1, <3>1
  <2>3. 1..(k + 1) \in SUBSET (1..N) /\ 1..(k + 1) # {}
    <3>1. k + 1 \in 1..(k + 1) /\ 1..(k + 1) \subseteq 1..N  BY <1>0
    <3>2. QED  BY <3>1
  <2>4. F[1..(k + 1)] = MemberInto(F[1..k], p[k + 1])  BY <1>10, <2>2, <2>3
  <2>5. f[k + 1] = F[1..(k + 1)] /\ f[k] = F[1..k]  BY <2>1
  <2>6. QED  BY <2>4, <2>5
<1>13. N \in 0..N /\ f[N] = F[1..N]  BY <1>0
<1>14. DOMAIN f = 0..N  OBVIOUS
<1>15. f = [k \in 0..N |-> f[k]]  OBVIOUS
<1> HIDE DEF f
<1> DEFINE G == {k \in 0..N : f[k] \in T}
<1>16. 0 \in G  BY <1>0, <1>3, <1>11
<1>17. ASSUME NEW k \in 0..(N - 1), k \in G PROVE k + 1 \in G
  <2>1. k + 1 \in 1..N /\ k + 1 \in 0..N  BY <1>0
  <2>2. f[k + 1] \in T  BY <1>2, <1>12, <1>17, <2>1
  <2>3. QED  BY <2>1, <2>2
<1>18. 0..N \subseteq G
  <2> HIDE DEF G
  <2>1. QED  BY <1>0, <1>16, <1>17, Climb
<1>19. f \in [0..N -> T]  BY <1>15, <1>18
<1>20. QED  BY <1>1, <1>11, <1>12, <1>13, <1>19 DEF T, N

\* A component whose last member is null, or that has none, is nil in the end.
LEMMA LastNull ==
    ASSUME NEW p, p \in Seq(Range(p)), \A i \in DOMAIN p : p[i].name \in DOMAIN NoParams,
           NEW n \in DOMAIN NoParams,
           EntriesOf(p, n) = {} \/ p[Max(EntriesOf(p, n))].value = <<>>
    PROVE  FoldLeft(MemberInto, NoParams, p)[n] = <<>>
<1> DEFINE N == Len(p)
           E == EntriesOf(p, n)
<1>0. N \in Nat /\ DOMAIN p = 1..N  OBVIOUS
<1>1. PICK f \in [0..N -> ParamsOf(p)] :
         /\ f[0] = NoParams /\ f[N] = FoldLeft(MemberInto, NoParams, p)
         /\ \A k \in 0..(N - 1) : f[k + 1] = MemberInto(f[k], p[k + 1])
  BY MembersInTurn
<1> HIDE DEF N
<1>2. E \in SUBSET (1..N) /\ \A i \in 1..N : i \in E <=> p[i].name = n  BY <1>0 DEF EntriesOf
<1>3. ASSUME NEW k \in 0..(N - 1)
      PROVE  /\ k + 1 \notin E => f[k + 1][n] = f[k][n]
             /\ k + 1 \in E /\ p[k + 1].value = <<>> => f[k + 1][n] = <<>>
  <2>1. k + 1 \in 1..N /\ f[k] \in ParamsOf(p) /\ f[k + 1] = MemberInto(f[k], p[k + 1])  BY <1>0, <1>1
  <2>2. p[k + 1].name \in DOMAIN NoParams /\ k + 1 \in DOMAIN p  BY <1>0, <2>1
  <2>3. /\ \A l \in DOMAIN NoParams \ {p[k + 1].name} : f[k + 1][l] = f[k][l]
        /\ p[k + 1].value = <<>> => f[k + 1][p[k + 1].name] = <<>>
    BY <2>1, <2>2, MemberSets
  <2>4. QED  BY <1>2, <2>1, <2>3
\* From where it is nil and no member of its name follows, it stays nil.
<1>4. ASSUME NEW m \in 0..N, f[m][n] = <<>>, \A i \in E : i <= m PROVE f[N][n] = <<>>
  <2> DEFINE G == {k \in m..N : f[k][n] = <<>>}
  <2>1. m \in G  BY <1>0, <1>4
  <2>2. ASSUME NEW k \in m..(N - 1), k \in G PROVE k + 1 \in G
    <3>1. k \in 0..(N - 1) /\ k + 1 \in m..N /\ ~(k + 1 <= m)  BY <1>0
    <3>2. k + 1 \notin E  BY <1>4, <3>1
    <3>3. f[k + 1][n] = f[k][n]  BY <1>3, <3>1, <3>2
    <3>4. QED  BY <2>2, <3>1, <3>3
  <2>3. m \in Nat /\ N \in m..N  BY <1>0
  <2>4. m..N \subseteq G
    <3> HIDE DEF G
    <3>1. QED  BY <1>0, <2>1, <2>2, <2>3, Climb
  <2>5. QED  BY <2>3, <2>4
<1>5. CASE E = {}
  <2>1. f[0][n] = <<>>  BY <1>1, ZerosAre
  <2>2. 0 \in 0..N  BY <1>0
  <2>3. QED  BY <1>1, <1>4, <1>5, <2>1, <2>2
<1>6. CASE E # {}
  <2>1. Top(E) \in E /\ \A i \in E : i <= Top(E)  BY <1>0, <1>2, <1>6, Topmost
  <2>2. PICK m : m = Top(E)  OBVIOUS
  <2>3. p[m].value = <<>>  BY <1>6, <2>2 DEF Top
  <2>4. m \in 1..N /\ m - 1 \in 0..(N - 1) /\ (m - 1) + 1 = m /\ m \in 0..N  BY <1>0, <1>2, <2>1, <2>2
  <2>5. m \in E /\ \A i \in E : i <= m  BY <2>1, <2>2
  <2> HIDE DEF E
  <2>6. f[m][n] = <<>>  BY <1>3, <2>3, <2>4, <2>5
  <2>7. QED  BY <1>1, <1>4, <2>4, <2>5, <2>6
<1>7. QED  BY <1>5, <1>6

-----------------------------------------------------------------------------
\* The fieldset that a query brings of the resource it is about.
OwnFields(r) == {[resource |-> "orders", list |-> r.fields[i]] : i \in DOMAIN r.fields}

BringsFields ==
    via = "jsonapi" =>
        /\ sent.config.resource \in {"orders", Blank}
        /\ sent.query.fields = OwnFields(intent) \/ sent.query.fields = OwnFields(intent) \cup Others

LEMMA BringsAtFirst == TransportInit => BringsFields
<1> SUFFICES ASSUME TransportInit, via = "jsonapi"
             PROVE  sent.config.resource = "orders" /\ sent.query.fields = OwnFields(intent)
  BY DEF BringsFields
<1>1. sent = JsonApiQuery(intent)  BY DEF TransportInit
<1>2. PICK own, sort, page :
         /\ own = OwnFields(intent)
         /\ sent = [query |-> [fields |-> own, include |-> intent.includes, sort |-> sort,
                               filter |-> intent.filter, page |-> page],
                    config |-> [resource |-> "orders", filter |-> "works", page |-> "works"]]
  BY <1>1, Zenon DEF JsonApiQuery, OwnFields
<1>3. PICK q, c : /\ q = [fields |-> own, include |-> intent.includes, sort |-> sort,
                          filter |-> intent.filter, page |-> page]
                  /\ c = [resource |-> "orders", filter |-> "works", page |-> "works"]
  OBVIOUS
<1>4. sent = [query |-> q, config |-> c]  BY <1>2, <1>3
<1>5. sent.query = q /\ sent.config = c  BY <1>4
<1>6. q.fields = own /\ c.resource = "orders"  BY <1>3
<1>7. QED  BY <1>2, <1>5, <1>6

LEMMA BringsStays == TransportInv /\ BringsFields /\ [TransportNext]_tvars => BringsFields'
<1> SUFFICES ASSUME TransportInv, BringsFields, [TransportNext]_tvars PROVE BringsFields'  OBVIOUS
<1>1. ASSUME NEW fault, NEW spoilt, Spoil(fault, spoilt) PROVE UNCHANGED <<via, intent>> /\ sent' = spoilt
  BY <1>1 DEF Spoil
<1>2. CASE SpoilHttp
  <2>1. via = "http" /\ \E fault, spoilt : Spoil(fault, spoilt)  BY <1>2, Zenon DEF SpoilHttp
  <2>2. via' = "http"  BY <1>1, <2>1
  <2>3. QED  BY <2>2 DEF BringsFields
<1>3. CASE SpoilRpc
  <2>1. via = "rpc" /\ \E fault, spoilt : Spoil(fault, spoilt)  BY <1>3, Zenon DEF SpoilRpc
  <2>2. via' = "rpc"  BY <1>1, <2>1
  <2>3. QED  BY <2>2 DEF BringsFields
<1>4. CASE SpoilJsonApi
  <2>1. via = "jsonapi" /\ ApiMessage /\ got = <<>>  BY <1>4 DEF SpoilJsonApi, TransportInv, Message, Spoil
  <2>2. PICK q, c : sent = [query |-> q, config |-> c] /\ q = sent.query /\ c = sent.config
    BY <2>1 DEF ApiMessage
  <2>3. PICK r, f, g : c = [resource |-> r, filter |-> f, page |-> g]  BY <2>1, <2>2 DEF ApiMessage
  <2>4. PICK fields, include, sort, filter, page :
           q = [fields |-> fields, include |-> include, sort |-> sort, filter |-> filter, page |-> page]
    BY <2>1, <2>2 DEF ApiMessage
  <2>5. c.resource \in {"orders", Blank} /\ (fields = OwnFields(intent) \/ fields = OwnFields(intent) \cup Others)
    <3>1. q.fields = fields  BY <2>4
    <3>2. QED  BY <2>1, <2>2, <3>1 DEF BringsFields
  <2>6. ASSUME NEW e, NEW d, sent' = [query |-> e, config |-> d], UNCHANGED <<via, intent>>,
               d.resource \in {"orders", Blank},
               e.fields = OwnFields(intent) \/ e.fields = OwnFields(intent) \cup Others
        PROVE  BringsFields'
    <3>1. sent'.query = e /\ sent'.config = d  BY <2>6
    <3>2. OwnFields(intent)' = OwnFields(intent)  BY <2>6 DEF OwnFields
    <3>3. QED  BY <2>6, <3>1, <3>2 DEF BringsFields
  <2>7. \A x : [sent EXCEPT !.config = x] = [query |-> q, config |-> x]  BY <2>2
  <2>8. \A x : [sent EXCEPT !.query = x] = [query |-> x, config |-> c]  BY <2>2
  <2>9. q.fields = fields  BY <2>4
  <2>10. CASE Spoil("no-resource", [sent EXCEPT !.config.resource = Blank])
    <3>1. PICK blank : blank = Blank  OBVIOUS
    <3>2. PICK d : d = [resource |-> blank, filter |-> f, page |-> g]  OBVIOUS
    <3>3. [c EXCEPT !.resource = Blank] = d  BY <2>3, <3>1, <3>2
    <3>4. sent' = [query |-> q, config |-> d]  BY <1>1, <2>2, <2>7, <2>10, <3>3, Zenon
    <3>5. d.resource = Blank  BY <3>1, <3>2
    <3>6. QED  BY <1>1, <2>5, <2>6, <2>9, <2>10, <3>4, <3>5
  <2>11. CASE Spoil("other-fieldset", [sent EXCEPT !.query.fields = @ \cup {[resource |-> "lines", list |-> <<>>]}])
    <3>1. PICK more : more = fields \cup {[resource |-> "lines", list |-> <<>>]}  OBVIOUS
    <3>2. PICK e : e = [fields |-> more, include |-> include, sort |-> sort, filter |-> filter, page |-> page]
      OBVIOUS
    <3>3. [q EXCEPT !.fields = more] = e  BY <2>4, <3>2
    <3>4. sent' = [query |-> e, config |-> c]  BY <1>1, <2>2, <2>8, <2>9, <2>11, <3>1, <3>3, Zenon
    <3>5. e.fields = fields \cup Others  BY <3>1, <3>2 DEF Others
    <3>6. QED  BY <1>1, <2>5, <2>6, <2>11, <3>4, <3>5
  <2>12. ASSUME NEW x, Spoil("filter-decoder", [sent EXCEPT !.config.filter = x]) PROVE BringsFields'
    <3>1. PICK d : d = [resource |-> r, filter |-> x, page |-> g]  OBVIOUS
    <3>2. [c EXCEPT !.filter = x] = d  BY <2>3, <3>1
    <3>3. sent' = [query |-> q, config |-> d]  BY <1>1, <2>2, <2>7, <2>12, <3>2, Zenon
    <3>4. d.resource = c.resource  BY <2>3, <3>1
    <3>5. QED  BY <1>1, <2>5, <2>6, <2>9, <2>12, <3>3, <3>4
  <2>13. ASSUME NEW x, Spoil("page-decoder", [sent EXCEPT !.config.page = x]) PROVE BringsFields'
    <3>1. PICK d : d = [resource |-> r, filter |-> f, page |-> x]  OBVIOUS
    <3>2. [c EXCEPT !.page = x] = d  BY <2>3, <3>1
    <3>3. sent' = [query |-> q, config |-> d]  BY <1>1, <2>2, <2>7, <2>13, <3>2, Zenon
    <3>4. d.resource = c.resource  BY <2>3, <3>1
    <3>5. QED  BY <1>1, <2>5, <2>6, <2>9, <2>13, <3>3, <3>4
  <2>14. QED  BY <1>4, <2>10, <2>11, <2>12, <2>13, Zenon DEF SpoilJsonApi
<1>5. ASSUME UNCHANGED <<via, intent, sent, faults>> PROVE BringsFields'
  BY <1>5 DEF BringsFields, OwnFields
<1>6. CASE Parse  BY <1>5, <1>6 DEF Parse
<1>7. CASE UNCHANGED tvars  BY <1>5, <1>7 DEF tvars
<1>8. QED  BY <1>2, <1>3, <1>4, <1>6, <1>7 DEF TransportNext

\* What an accepted message gives.
LEMMA AcceptedIs ==
    ASSUME NEW error, NEW request, Result(error, request).error = Blank
    PROVE  error = Blank /\ Result(error, request).request = request
BY DEF Result

\* An accepted query string is the one that was written, unless its filter is null.
LEMMA HttpAccepted ==
    ASSUME TransportInv, AsWritten, via = "http", HttpParse(sent).error = Blank
    PROVE  /\ \A j \in DOMAIN sent.params : sent.params[j].name \in supported
           /\ "null" \notin faults => sent = HttpText(intent) /\ HttpParse(sent).request = intent
<1>1. HttpMessage  BY DEF TransportInv, Message
<1>2. Shaped(sent.params)
  <2>1. PICK request : HttpParse(sent) =
           Result(IF sent.fits /\ Shaped(sent.params) /\ (\A name \in supported : ~Unreadable(sent.params, name))
                  THEN Blank ELSE "invalid", request)
    BY Zenon DEF HttpParse
  <2>2. (IF sent.fits /\ Shaped(sent.params) /\ (\A name \in supported : ~Unreadable(sent.params, name))
         THEN Blank ELSE "invalid") = Blank
    BY <2>1, AcceptedIs
  <2>3. QED  BY <2>2, ErrorsAreNotBlank
<1>3. ASSUME "null" \notin faults PROVE faults = {}
  <2>1. faults \cap {"unreadable", "unknown", "repeated", "not-UTF-8", "empty-item", "bare-dash"} = {}
        /\ "malformed" \notin faults
    BY <1>1, <1>3, HttpRefuses
  <2>2. faults \subseteq HttpFaults  BY <1>1 DEF HttpMessage
  <2>3. QED  BY <1>3, <2>1, <2>2 DEF HttpFaults
<1>4. ASSUME "null" \notin faults PROVE sent = HttpText(intent) /\ HttpParse(sent).request = intent
  <2>1. sent = HttpText(intent) /\ intent \in Intents  BY <1>3, <1>4 DEF AsWritten
  <2>2. HttpParse(sent) = Result(Blank, intent)  BY <2>1, HttpReadBack
  <2>3. Result(Blank, intent).request = intent  BY DEF Result
  <2>4. QED  BY <2>1, <2>2, <2>3
<1>5. QED  BY <1>2, <1>4 DEF Shaped

\* An accepted message of JSON-RPC leaves the components absent whose last member is null.
LEMMA RpcAccepted ==
    ASSUME TransportInv, AsWritten, via = "rpc", RpcParse(sent).error = Blank
    PROVE  /\ \A j \in DOMAIN sent.members : sent.members[j].name \in DOMAIN NoParams
           /\ \A n \in DOMAIN NoParams :
                 LET given == EntriesOf(sent.members, n) IN
                 given = {} \/ sent.members[Max(given)].value = <<>> => LeavesAbsent(n, RpcParse(sent).request)
           /\ faults = {} => sent = RpcText(intent) /\ RpcParse(sent).request = intent
<1> DEFINE p == sent.members
           final == FoldLeft(MemberInto, NoParams, p)
<1>1. RpcMessage  BY DEF TransportInv, Message
<1>2. StrictParams(sent)
  <2>1. SUFFICES ASSUME ~StrictParams(sent) PROVE FALSE  OBVIOUS
  <2>2. RpcParse(sent) = Result("invalid", ZeroRequest)  BY <2>1 DEF RpcParse
  <2>3. QED  BY <2>2, ResultIs
<1>3. p \in Seq(Range(p)) /\ \A i \in DOMAIN p : p[i].name \in DOMAIN NoParams
  BY <1>1, <1>2 DEF RpcMessage, AreMembers, StrictParams
<1>4. RpcParse(sent).request = RpcRequest(final)
  <2>1. RpcParse(sent) = Result(Blank, RpcRequest(final))  BY <1>2 DEF RpcParse
  <2>2. Result(Blank, RpcRequest(final)).request = RpcRequest(final)  BY DEF Result
  <2>3. QED  BY <2>1, <2>2
<1> HIDE DEF p
<1>5. ASSUME NEW n \in DOMAIN NoParams, EntriesOf(p, n) = {} \/ p[Max(EntriesOf(p, n))].value = <<>>
      PROVE  LeavesAbsent(n, RpcParse(sent).request)
  <2>1. final[n] = <<>>  BY <1>3, <1>5, LastNull
  <2> HIDE DEF final
  <2>2. PICK page : page = IF final["page"] = <<>> THEN ZeroPage ELSE final["page"][1]  OBVIOUS
  <2>3. RpcRequest(final) = [revision |-> final["schema_revision"], fields |-> final["fields"],
                             includes |-> final["includes"], filter |-> final["filter"],
                             sorts |-> final["sorts"], page |-> page]
    BY <2>2 DEF RpcRequest
  <2>4. n \in {"schema_revision", "fields", "includes", "filter", "sorts", "page"}  BY ZerosAre
  <2>5. PICK r : r = RpcRequest(final)  OBVIOUS
  <2>6. LeavesAbsent(n, r)  BY <2>1, <2>2, <2>3, <2>4, <2>5 DEF LeavesAbsent
  <2>7. QED  BY <1>4, <2>5, <2>6
<1>6. ASSUME faults = {} PROVE sent = RpcText(intent) /\ RpcParse(sent).request = intent
  <2>1. sent = RpcText(intent) /\ intent \in Intents  BY <1>6 DEF AsWritten
  <2>2. RpcParse(sent) = Result(Blank, intent)  BY <2>1, RpcReadBack
  <2>3. Result(Blank, intent).request = intent  BY DEF Result
  <2>4. QED  BY <2>1, <2>2, <2>3
<1>7. QED  BY <1>3, <1>5, <1>6 DEF p

\* An accepted query of JSON:API gives the families and the fieldset that it brings.
LEMMA ApiAccepted ==
    ASSUME TransportInv, AsWritten, BringsFields, via = "jsonapi",
           FromQuery(sent.query, sent.config).error = Blank
    PROVE  LET request == FromQuery(sent.query, sent.config).request IN
           /\ sent.query.filter = request.filter
           /\ sent.query.page # <<>> => sent.query.page = <<request.page>>
           /\ \A f \in sent.query.fields : f.resource = sent.config.resource => request.fields = <<f.list>>
<1> DEFINE query == sent.query
           config == sent.config
           onFilter == Refusal(config.filter, query.filter)
           onPage == Refusal(config.page, query.page)
           own == Selected(query, config)
           fields == IF own = {} THEN <<>> ELSE <<(CHOOSE f \in own : TRUE).list>>
           page == IF FamilyDecoded(config.page, query.page) = <<>> THEN ZeroPage
                   ELSE FamilyDecoded(config.page, query.page)[1]
           terms == [i \in DOMAIN query.sort |->
                       [j \in DOMAIN query.sort[i] |->
                          [name |-> query.sort[i][j].name,
                           direction |-> IF query.sort[i][j].descending THEN "desc" ELSE "asc"]]]
           filter == FamilyDecoded(config.filter, query.filter)
           error == IF config.resource = Blank THEN "invalid" ELSE IF onFilter # Blank THEN onFilter ELSE onPage
           given == [ZeroRequest EXCEPT !.fields = fields, !.includes = query.include, !.sorts = terms,
                                        !.filter = filter, !.page = page]
<1>1. FromQuery(query, config) = Result(error, given)  BY DEF FromQuery
<1>2. ApiMessage  BY DEF TransportInv, Message
<1>3. intent \in Intents  BY DEF AsWritten
<1>4. /\ config.resource \in {"orders", Blank}
      /\ query.fields = OwnFields(intent) \/ query.fields = OwnFields(intent) \cup Others
  BY DEF BringsFields
<1>5. error = Blank /\ FromQuery(query, config).request = given
  <2> HIDE DEF error, given
  <2>1. QED  BY <1>1, AcceptedIs
<1>6. /\ config.resource # Blank /\ onFilter = Blank /\ onPage = Blank
  <2> HIDE DEF onFilter, onPage
  <2>1. QED  BY <1>5, ErrorsAreNotBlank
<1>7. filter = query.filter
  BY <1>6, ErrorsAreNotBlank DEF Refusal, FamilyDecoded
<1>8. query.page # <<>> => query.page = <<page>>
  <2>1. FamilyDecoded(config.page, query.page) = query.page
    BY <1>6, ErrorsAreNotBlank DEF Refusal, FamilyDecoded
  <2>2. query.page = <<>> \/ query.page = <<intent.page>>  BY <1>2 DEF ApiMessage
  <2>3. PICK v : v = intent.page  OBVIOUS
  <2>4. <<v>>[1] = v  OBVIOUS
  <2>5. QED  BY <2>1, <2>2, <2>3, <2>4
<1>9. ASSUME NEW f \in query.fields, f.resource = config.resource PROVE fields = <<f.list>>
  <2>1. "orders" # Blank  BY Zenon DEF Blank
  <2>2. config.resource = "orders"  BY <1>4, <1>6
  <2>3. \A g \in Others : g.resource = "lines"  BY DEF Others
  <2>4. f \in OwnFields(intent)  BY <1>4, <1>9, <2>2, <2>3
  <2>5. \A g, h \in OwnFields(intent) : g = h
    <3>1. IsOptional(intent.fields)  BY <1>3, TransportAssumption DEF IsOptionalList
    <3>2. PICK t : t = [i \in DOMAIN intent.fields |-> intent.fields[i]]  OBVIOUS
    <3>3. t = [i \in DOMAIN intent.fields |-> t[i]]  BY <3>2
    <3>4. intent.fields # <<>> => DOMAIN intent.fields = {1}  BY <3>1, <3>3, OptionalIs
    <3>5. intent.fields = <<>> => DOMAIN intent.fields = {}  OBVIOUS
    <3>6. \A i, j \in DOMAIN intent.fields : i = j  BY <3>4, <3>5
    <3>7. QED  BY <3>6 DEF OwnFields
  <2>6. own = {f}
    <3>1. \A g \in OwnFields(intent) : g.resource = "orders"  BY DEF OwnFields
    <3>2. own = {g \in query.fields : g.resource = config.resource}  BY DEF Selected
    <3>3. QED  BY <1>4, <1>9, <2>2, <2>3, <2>4, <2>5, <3>1, <3>2
  <2> HIDE DEF own
  <2>7. own # {} /\ (CHOOSE g \in own : TRUE) = f  BY <2>6
  <2>8. QED  BY <2>7
<1>10. given.fields = fields /\ given.filter = filter /\ given.page = page
  <2> HIDE DEF fields, filter, page, terms
  <2>1. PICK zero : ZeroRequest = [revision |-> <<>>, fields |-> <<>>, includes |-> <<>>,
                                   filter |-> <<>>, sorts |-> <<>>, page |-> zero]
    BY DEF ZeroRequest
  <2>2. QED  BY <2>1
<1> HIDE DEF fields, filter, page, terms, error, given, onFilter, onPage, own
<1>11. QED  BY <1>5, <1>7, <1>8, <1>9, <1>10

LEMMA AcceptedIgnoresNothing == TransportInv /\ AsWritten /\ BringsFields => NothingIgnored
<1> SUFFICES ASSUME TransportInv, AsWritten, BringsFields, NEW i \in DOMAIN got, got[i].error = Blank
             PROVE  CASE via = "http" ->
                           /\ \A j \in DOMAIN sent.params : sent.params[j].name \in supported
                           /\ "null" \notin faults => \A n \in supported :
                                 Named(sent.params, n) = Named(HttpText(got[i].request).params, n)
                      [] via = "rpc" ->
                           /\ \A j \in DOMAIN sent.members :
                                 sent.members[j].name \in OpenRPCContentDescriptor
                           /\ \A n \in DOMAIN NoParams : LET given == EntriesOf(sent.members, n) IN
                                 given = {} \/ sent.members[Max(given)].value = <<>> =>
                                     LeavesAbsent(n, got[i].request)
                           /\ faults = {} => \A n \in OpenRPCContentDescriptor :
                                 Named(sent.members, n) = Named(RpcText(got[i].request).members, n)
                      [] via = "jsonapi" ->
                           /\ sent.query.filter = got[i].request.filter
                           /\ sent.query.page # <<>> => sent.query.page = <<got[i].request.page>>
                           /\ \A f \in sent.query.fields : f.resource = sent.config.resource =>
                                 got[i].request.fields = <<f.list>>
  BY Zenon DEF NothingIgnored
<1>1. got[i] = Answer
  <2>1. got = <<Answer>>  BY DEF TransportInv
  <2>2. PICK a : a = Answer  OBVIOUS
  <2>3. got = <<a>>  BY <2>1, <2>2
  <2>4. DOMAIN got = {1} /\ got[1] = a  BY <2>3
  <2>5. QED  BY <2>2, <2>4
<1>2. CASE via = "http"
  <2>1. got[i] = HttpParse(sent)  BY <1>1, <1>2 DEF Answer
  <2>2. /\ \A j \in DOMAIN sent.params : sent.params[j].name \in supported
        /\ "null" \notin faults => sent = HttpText(intent) /\ got[i].request = intent
    BY <1>2, <2>1, HttpAccepted
  <2>3. "null" \notin faults => \A n \in supported :
           Named(sent.params, n) = Named(HttpText(got[i].request).params, n)
    BY <2>2, Zenon
  <2>4. QED  BY <1>2, <2>2, <2>3
<1>3. CASE via = "rpc"
  <2>1. got[i] = RpcParse(sent)  BY <1>1, <1>3 DEF Answer
  <2>2. /\ \A j \in DOMAIN sent.members : sent.members[j].name \in DOMAIN NoParams
        /\ \A n \in DOMAIN NoParams :
              LET given == EntriesOf(sent.members, n) IN
              given = {} \/ sent.members[Max(given)].value = <<>> => LeavesAbsent(n, got[i].request)
        /\ faults = {} => sent = RpcText(intent) /\ got[i].request = intent
    BY <1>3, <2>1, RpcAccepted
  <2>3. faults = {} => \A n \in OpenRPCContentDescriptor :
           Named(sent.members, n) = Named(RpcText(got[i].request).members, n)
    BY <2>2, Zenon
  <2>4. DOMAIN NoParams = OpenRPCContentDescriptor  BY ZerosAre DEF OpenRPCContentDescriptor
  <2>5. QED  BY <1>3, <2>2, <2>3, <2>4
<1>4. CASE via = "jsonapi"
  <2>1. got[i] = FromQuery(sent.query, sent.config)  BY <1>1, <1>4 DEF Answer
  <2>2. /\ sent.query.filter = got[i].request.filter
        /\ sent.query.page # <<>> => sent.query.page = <<got[i].request.page>>
        /\ \A f \in sent.query.fields : f.resource = sent.config.resource =>
              got[i].request.fields = <<f.list>>
    BY <1>4, <2>1, ApiAccepted
  <2>3. QED  BY <1>4, <2>2
<1>5. QED  BY <1>2, <1>3, <1>4 DEF TransportInv, Message

\* Nothing of an accepted message is left unread: a query string written again is
\* itself, a JSON-RPC component whose last member is null is absent, and of a JSON:API
\* query the filter, the page and the configured resource's fieldset are handed out
\* (http.go:35-39, jsonrpc.go:40-67, 82-94, jsonapi.go:59-94).
THEOREM AcceptedIsReadInFull == TransportSpec => []NothingIgnored
<1>1. TransportInit => BringsFields  BY BringsAtFirst
<1>2. TransportInv /\ BringsFields /\ [TransportNext]_tvars => BringsFields'  BY BringsStays
<1>3. TransportInv /\ AsWritten /\ BringsFields => NothingIgnored  BY AcceptedIgnoresNothing
<1>4. QED  BY MessageInvariant, WrittenAtFirst, WrittenStays, <1>1, <1>2, <1>3, PTL DEF TransportSpec

-----------------------------------------------------------------------------
\* Typed values.

\* What UnmarshalJSON takes it has written again, and found the same.
KeepsCanonical == outcome = "decoded" => canonicalValue(held.type, held.text)

\* A value that came over the wire is the only text of what it denotes: a text
\* accepted for the same type that is parsed to the same is formatted to the same,
\* whatever the widths, the parser and the formatter (src/types.go:129-157,
\* src/compile.go:346-350).
THEOREM AcceptedTextIsTheOnlyOne == ValuesSpec => []OneTextPerValue
<1>1. ValuesInit => KeepsCanonical  BY DEF ValuesInit, KeepsCanonical
<1>2. KeepsCanonical /\ [ValuesNext]_vvars => KeepsCanonical'
  <2> SUFFICES ASSUME KeepsCanonical, [ValuesNext]_vvars PROVE KeepsCanonical'  OBVIOUS
  <2>1. CASE Construct  BY <2>1 DEF Construct, KeepsCanonical
  <2>2. CASE Marshal  BY <2>2 DEF Marshal, KeepsCanonical
  <2>3. CASE Write  BY <2>3 DEF Write, KeepsCanonical
  <2>4. CASE Edit  BY <2>4 DEF Edit, KeepsCanonical
  <2>5. CASE UnmarshalJSON  BY <2>5 DEF UnmarshalJSON, Accepts, KeepsCanonical
  <2>6. CASE UNCHANGED vvars  BY <2>6 DEF vvars, KeepsCanonical
  <2>7. QED  BY <2>1, <2>2, <2>3, <2>4, <2>5, <2>6 DEF ValuesNext
<1>3. KeepsCanonical => OneTextPerValue
  <2> SUFFICES ASSUME KeepsCanonical, outcome = "decoded", held.type \notin {"string", "null"},
                      NEW t \in ClientTexts, canonicalValue(held.type, t),
                      Parsed(held.type, t) = Parsed(held.type, held.text)
               PROVE  t = held.text
    BY DEF OneTextPerValue
  <2>1. canonicalValue(held.type, held.text)  BY DEF KeepsCanonical
  <2>2. ASSUME NEW u, canonicalValue(held.type, u)
        PROVE  Formatted(held.type, Parsed(held.type, u)[1]) = u
    BY <2>2 DEF canonicalValue
  <2>3. QED  BY <2>1, <2>2
<1>4. QED  BY <1>1, <1>2, <1>3, PTL DEF ValuesSpec
=============================================================================
