-------------------------- MODULE FilterWalkProofs --------------------------
(***************************************************************************)
(* The walk of every tree, with every answer of the authorizer, keeps      *)
(* within its budgets and drops nothing it does not report.                *)
(***************************************************************************)
EXTENDS FilterWalk, CollectionsProofs

\* Collecting codes loses one only when the list is full, and empties nothing.
LEMMA Collecting ==
    ASSUME NEW A, violations \in Seq(A), NEW codes \in Seq(A), NEW limit \in Nat \ {0}
    PROVE  /\ Collected(limit, codes) \in Seq(A)
           /\ Len(Collected(limit, codes)) <= limit
           /\ Collected(limit, codes) = <<>> <=> violations = <<>> /\ codes = <<>>
<1> DEFINE all == violations \o codes
           n == IF Len(all) < limit THEN Len(all) ELSE limit
<1>1. /\ all \in Seq(A) /\ Len(all) \in Nat
      /\ all = <<>> <=> violations = <<>> /\ codes = <<>>
    OBVIOUS
<1>2. n \in Nat /\ n <= Len(all) /\ n <= limit /\ (n = 0 <=> Len(all) = 0)
    BY <1>1
<1>3. Collected(limit, codes) = SubSeq(all, 1, n)
    BY DEF Collected
<1> HIDE DEF all, n
<1>4. /\ SubSeq(all, 1, n) \in Seq(A) /\ Len(SubSeq(all, 1, n)) = n
    BY <1>1, <1>2
<1>5. SubSeq(all, 1, n) = <<>> <=> n = 0
    BY <1>2, <1>4
<1>6. all = <<>> <=> Len(all) = 0
    BY <1>1
<1> QED BY <1>1, <1>2, <1>3, <1>4, <1>5, <1>6

LEMMA FaultTyped ==
    ASSUME NEW A, NEW broken, NEW code \in A
    PROVE  Fault(broken, code) \in Seq(A)
BY DEF Fault

LEMMA ValueFaultsTyped ==
    ASSUME NEW A, {"conflict", "invalid_element", "limit_exceeded"} \subseteq A,
           NEW def, NEW pred, pred.values \in Seq(Range(pred.values))
    PROVE  ValueFaults(def, pred) \in Seq(A)
<1> DEFINE vs == pred.values
           F(i) == Fault(\E j \in 1..(i - 1) : vs[j] = vs[i], "conflict") \o
                   Fault(vs[i].type # def.type, "invalid_element") \o
                   Fault(vs[i].bytes > MaxStringBytes, "limit_exceeded") \o
                   Fault(vs[i].type = "string" /\ vs[i].bytes = 0 /\ ~def.allowEmpty,
                         "invalid_element")
           arity == Fault(Len(vs) \notin Arity(pred.op),
                          IF pred.op \in {"in", "not_in"} THEN "limit_exceeded" ELSE "conflict")
<1>1. {"conflict", "invalid_element", "limit_exceeded"} \subseteq A
    OBVIOUS
<1>2. \A i : F(i) \in Seq(A)
  <2> SUFFICES ASSUME NEW i PROVE F(i) \in Seq(A)
      OBVIOUS
  <2> DEFINE twice == Fault(\E j \in 1..(i - 1) : vs[j] = vs[i], "conflict")
             wrong == Fault(vs[i].type # def.type, "invalid_element")
             large == Fault(vs[i].bytes > MaxStringBytes, "limit_exceeded")
             empty == Fault(vs[i].type = "string" /\ vs[i].bytes = 0 /\ ~def.allowEmpty,
                            "invalid_element")
  <2>1. twice \in Seq(A) /\ wrong \in Seq(A)
      BY <1>1, FaultTyped
  <2>2. large \in Seq(A) /\ empty \in Seq(A)
      BY <1>1, FaultTyped
  <2>3. F(i) = twice \o wrong \o large \o empty
      OBVIOUS
  <2> HIDE DEF F, twice, wrong, large, empty
  <2> QED BY <2>1, <2>2, <2>3
<1>3. arity \in Seq(A)
    BY <1>1, FaultTyped
<1>4. [i \in DOMAIN vs |-> F(i)] \in Seq(Seq(A))
  <2> HIDE DEF F
  <2>1. DOMAIN vs = 1..Len(vs) /\ Len(vs) \in Nat
      OBVIOUS
  <2>2. [i \in 1..Len(vs) |-> F(i)] \in Seq(Seq(A))
      BY <2>1, <1>2
  <2> QED BY <2>1, <2>2
<1>5. FlattenSeq([i \in DOMAIN vs |-> F(i)]) \in Seq(A)
  <2> HIDE DEF F
  <2> QED BY <1>4, FlattenTyped
<1>6. ValueFaults(def, pred) = arity \o FlattenSeq([i \in DOMAIN vs |-> F(i)])
    BY DEF ValueFaults
<1> HIDE DEF F, arity
<1> QED BY <1>3, <1>5, <1>6

-----------------------------------------------------------------------------
\* What a walk keeps true between two nodes.

Keys      == {Key(at) : at \in Leaves(DOMAIN tree)}
Under(at, p) == Len(at) <= Len(p) /\ SubSeq(p, 1, Len(at)) = at

WTyped ==
    /\ IsTree(tree)
    /\ violations \in Seq(Codes) /\ Len(violations) <= MaxErrors
    /\ walk \in [todo: Seq(DOMAIN tree), nodes: 0..MaxFilterNodes, values: 0..MaxValues,
                 seen: SUBSET Keys, kept: SUBSET DOMAIN tree]

\* The root is alone in the list, and only before any node is charged.
RootFirst ==
    \A i \in DOMAIN walk.todo : walk.todo[i] = <<>> => walk.nodes = 0 /\ Len(walk.todo) = 1

\* Until something is reported, what is not kept is still to come.
Covered == violations = <<>> =>
    \A p \in DOMAIN tree :
        p \in walk.kept \/ \E i \in DOMAIN walk.todo : Under(walk.todo[i], p)

\* What was charged is what was kept.
Counted ==
    /\ IsFiniteSet(walk.kept) /\ Cardinality(walk.kept) <= walk.nodes
    /\ walk.values = SumOf(ValueCount, Leaves(walk.kept))
    /\ \A at \in walk.kept : Depth(at) <= MaxFilterDepth

\* A kept predicate has been seen, so no other with its key was kept.
Distinct ==
    /\ \A p \in Leaves(walk.kept) : Key(p) \in walk.seen
    /\ \A p, q \in Leaves(walk.kept) : Key(p) = Key(q) => p = q

WalkInv == WTyped /\ RootFirst /\ Covered /\ Counted /\ Distinct

LEMMA WalkInvInit ==
    ASSUME IsTree(tree), walk = NoWalk(tree), violations = <<>>
    PROVE  WalkInv
<1>1. WTyped
  <2>1. walk.todo \in Seq(DOMAIN tree)
    <3>1. CASE tree = <<>>
        BY <3>1 DEF NoWalk
    <3>2. CASE tree # <<>>
      <4>1. walk.todo = << <<>> >> /\ <<>> \in DOMAIN tree
          BY <3>2 DEF NoWalk, IsTree
      <4> QED BY <4>1
    <3> QED BY <3>1, <3>2
  <2>2. /\ walk = [todo |-> walk.todo, nodes |-> 0, values |-> 0, seen |-> {}, kept |-> {}]
        /\ 0 \in 0..MaxFilterNodes /\ 0 \in 0..MaxValues
      BY FilterAssumption DEF NoWalk
  <2>3. violations \in Seq(Codes) /\ Len(violations) <= MaxErrors
      BY FilterAssumption
  <2> QED BY <2>1, <2>2, <2>3 DEF WTyped
<1>2. RootFirst
    BY DEF RootFirst, NoWalk
<1>3. Covered
  <2> SUFFICES ASSUME NEW p \in DOMAIN tree
               PROVE  \E i \in DOMAIN walk.todo : Under(walk.todo[i], p)
      BY DEF Covered
  <2>1. tree # <<>> /\ p \in Seq(Nat)
      BY DEF IsTree
  <2>2. walk.todo = << <<>> >>
      BY <2>1 DEF NoWalk
  <2>3. Under(<<>>, p)
      BY <2>1 DEF Under
  <2> QED BY <2>2, <2>3
<1>4. Counted /\ Distinct
  <2>1. walk.kept = {} /\ walk.values = 0 /\ walk.nodes = 0
      BY DEF NoWalk
  <2>2. Leaves({}) = {}
      BY DEF Leaves
  <2>3. SumOf(ValueCount, {}) = 0 /\ IsFiniteSet({}) /\ Cardinality({}) = 0
      BY FS_EmptySet, SumEmpty
  <2>4. Leaves(walk.kept) = {}
      BY <2>1, <2>2
  <2>5. Counted
    <3>1. IsFiniteSet(walk.kept) /\ Cardinality(walk.kept) = 0 /\ walk.nodes = 0
        BY <2>1, <2>3
    <3>2. walk.values = SumOf(ValueCount, Leaves(walk.kept))
        BY <2>1, <2>3, <2>4
    <3> QED BY <2>1, <3>1, <3>2 DEF Counted
  <2> QED BY <2>4, <2>5 DEF Distinct
<1> QED BY <1>1, <1>2, <1>3, <1>4 DEF WalkInv

-----------------------------------------------------------------------------
\* The first node of the list.
LEMMA HereIs ==
    ASSUME WalkInv, walk.todo # <<>>
    PROVE  /\ Here \in DOMAIN tree /\ Here \in Seq(Nat)
           /\ Tail(walk.todo) \in Seq(DOMAIN tree)
           /\ \A i \in DOMAIN walk.todo :
                 walk.todo[i] = Here \/ \E j \in DOMAIN Tail(walk.todo) :
                                           Tail(walk.todo)[j] = walk.todo[i]
           /\ \A j \in DOMAIN Tail(walk.todo) : Tail(walk.todo)[j] # <<>>
           /\ Here = <<>> => walk.nodes = 0
<1>1. walk.todo \in Seq(DOMAIN tree)
    BY DEF WalkInv, WTyped
<1> DEFINE s == walk.todo
<1>2. /\ s \in Seq(DOMAIN tree) /\ s # <<>> /\ Here = Head(s)
      /\ \A i \in DOMAIN s : s[i] = <<>> => walk.nodes = 0 /\ Len(s) = 1
    BY <1>1 DEF Here, WalkInv, RootFirst
<1> HIDE DEF s
<1>3. /\ Head(s) \in DOMAIN tree /\ Tail(s) \in Seq(DOMAIN tree)
      /\ \A i \in DOMAIN s : s[i] = Head(s) \/ \E j \in DOMAIN Tail(s) : Tail(s)[j] = s[i]
      /\ \A j \in DOMAIN Tail(s) : \E i \in DOMAIN s : s[i] = Tail(s)[j]
      /\ Len(s) = 1 => Tail(s) = <<>>
      /\ 1 \in DOMAIN s /\ s[1] = Head(s)
    BY <1>2, HeadAndTail
<1>4. \A j \in DOMAIN Tail(s) : Tail(s)[j] # <<>>
    BY <1>2, <1>3
<1>5. Here \in Seq(Nat)
    BY <1>2, <1>3 DEF WalkInv, WTyped, IsTree
<1> QED BY <1>2, <1>3, <1>4, <1>5 DEF s

\* The children of a node are nodes, and below it there are no others.
LEMMA ChildrenAre ==
    ASSUME IsTree(tree), NEW at \in DOMAIN tree
    PROVE  /\ Fanout(tree, at) \in Nat
           /\ Children(at) \in Seq(DOMAIN tree) /\ Len(Children(at)) = Fanout(tree, at)
           /\ \A i \in DOMAIN Children(at) : Children(at)[i] # <<>>
           /\ \A p \in DOMAIN tree : Under(at, p) /\ p # at =>
                 \E i \in DOMAIN Children(at) : Under(Children(at)[i], p)
<1> DEFINE kids == ChildrenIn(tree, at)
<1>1. at \in Seq(Nat) /\ kids = {Append(at, i) : i \in 1..Fanout(tree, at)}
    BY DEF IsTree
<1>2. Fanout(tree, at) \in Nat
  <2>1. kids \in SUBSET DOMAIN tree /\ IsFiniteSet(DOMAIN tree)
      BY DEF ChildrenIn, IsTree
  <2>2. IsFiniteSet(kids)
    <3> HIDE DEF kids
    <3> QED BY <2>1, FS_Subset
  <2> QED BY <2>2, FS_CardinalityType DEF Fanout
<1>3. \A i \in 1..Fanout(tree, at) : Append(at, i) \in DOMAIN tree
    BY <1>1 DEF ChildrenIn
<1>4. /\ Children(at) \in Seq(DOMAIN tree) /\ Len(Children(at)) = Fanout(tree, at)
      /\ DOMAIN Children(at) = 1..Fanout(tree, at)
      /\ \A i \in 1..Fanout(tree, at) : Children(at)[i] = Append(at, i)
  <2> DEFINE n == Fanout(tree, at)
             kid(i) == Append(at, i)
             c == [i \in 1..n |-> kid(i)]
  <2>1. Children(at) = c
      BY DEF Children
  <2>2. n \in Nat /\ \A i \in 1..n : kid(i) \in DOMAIN tree
      BY <1>2, <1>3
  <2> HIDE DEF n, kid
  <2>3. c \in Seq(DOMAIN tree) /\ Len(c) = n /\ DOMAIN c = 1..n
      BY <2>2
  <2>4. \A i \in 1..n : c[i] = kid(i)
      OBVIOUS
  <2> HIDE DEF c
  <2> QED BY <2>1, <2>3, <2>4 DEF n, kid
<1>5. \A i \in 1..Fanout(tree, at) : Append(at, i) # <<>>
    BY <1>1
<1>6. ASSUME NEW p \in DOMAIN tree, Under(at, p), p # at
      PROVE  \E i \in 1..Fanout(tree, at) : Under(Append(at, i), p)
  <2> DEFINE n == Len(at) + 1
             child == SubSeq(p, 1, n)
  <2>1. p \in Seq(Nat) /\ \A k \in DOMAIN p : SubSeq(p, 1, k - 1) \in DOMAIN tree
      BY DEF IsTree
  <2>2. Len(at) \in Nat /\ n \in 1..Len(p) /\ SubSeq(p, 1, Len(at)) = at
    <3>1. Len(at) <= Len(p) /\ SubSeq(p, 1, Len(at)) = at
        BY <1>6 DEF Under
    <3>2. Len(at) # Len(p)
        BY <1>1, <2>1, <3>1, <1>6
    <3> QED BY <1>1, <2>1, <3>1, <3>2
  <2>3. child \in DOMAIN tree
    <3>1. CASE n = Len(p)
      <4>1. child = p
          BY <2>1, <2>2, <3>1
      <4> QED BY <4>1
    <3>2. CASE n # Len(p)
      <4>1. n + 1 \in DOMAIN p /\ (n + 1) - 1 = n
          BY <2>1, <2>2, <3>2
      <4> QED BY <2>1, <4>1
    <3> QED BY <3>1, <3>2
  <2>4. child \in Seq(Nat) /\ Len(child) = n /\ Front(child) = at /\ child # <<>>
      BY <2>1, <2>2 DEF Front
  <2>5. child \in kids
      BY <2>3, <2>4 DEF ChildrenIn
  <2>6. PICK i \in 1..Fanout(tree, at) : child = Append(at, i)
      BY <1>1, <2>5
  <2>7. Under(child, p)
      BY <2>1, <2>2, <2>4 DEF Under
  <2> QED BY <2>6, <2>7
<1> QED BY <1>2, <1>4, <1>5, <1>6

-----------------------------------------------------------------------------
\* The steps of the walk.

\* The tree stays, and so does all that is read from it alone.
LEMMA TreeStays ==
    ASSUME tree' = tree
    PROVE  /\ IsTree(tree)' <=> IsTree(tree)
           /\ Keys' = Keys /\ ValueCount' = ValueCount
           /\ Leaves(walk.kept)' = Leaves(walk'.kept)
           /\ \A at : Key(at)' = Key(at)
BY DEF IsTree, ChildrenIn, Fanout, Keys, Key, ValueCount, Leaves, IsLeaf

LEMMA Reporting ==
    ASSUME WTyped, NEW codes \in Seq(Codes), Report(codes)
    PROVE  /\ violations' \in Seq(Codes) /\ Len(violations') <= MaxErrors
           /\ violations' = <<>> <=> violations = <<>> /\ codes = <<>>
<1>1. violations \in Seq(Codes) /\ MaxErrors \in Nat \ {0}
    BY FilterAssumption DEF WTyped
<1> QED BY <1>1, Collecting DEF Report

LEMMA Room ==
    ASSUME WalkInv, Visitable
    PROVE  walk.nodes + 1 \in 0..MaxFilterNodes
<1>1. walk.todo # <<>> /\ (Here = <<>> \/ ~(walk.nodes >= MaxFilterNodes))
    BY DEF Visitable, Exhausted
<1>2. MaxFilterNodes \in Nat \ {0} /\ walk.nodes \in 0..MaxFilterNodes
    BY FilterAssumption DEF WalkInv, WTyped
<1>3. Here = <<>> => walk.nodes = 0
    BY <1>1, HereIs
<1> QED BY <1>1, <1>2, <1>3

\* A node that is reported, not kept.
LEMMA SkipKeeps ==
    ASSUME WalkInv, Visitable, tree' = tree,
           NEW codes \in Seq(Codes), codes # <<>>, Report(codes),
           NEW seen \in SUBSET Keys, walk.seen \subseteq seen,
           walk' = [Entered EXCEPT !.seen = seen]
    PROVE  WalkInv'
<1>1. /\ walk' \in [todo: Seq(DOMAIN tree), nodes: 0..MaxFilterNodes, values: 0..MaxValues,
                    seen: SUBSET Keys, kept: SUBSET DOMAIN tree]
      /\ walk'.todo = Tail(walk.todo) /\ walk'.nodes = walk.nodes + 1
      /\ walk'.kept = walk.kept /\ walk'.values = walk.values /\ walk'.seen = seen
  <2>1. Tail(walk.todo) \in Seq(DOMAIN tree) /\ walk.nodes + 1 \in 0..MaxFilterNodes
      BY HereIs, Room DEF Visitable
  <2> QED BY <2>1 DEF WalkInv, WTyped, Entered
<1>2. WTyped'
    BY <1>1, Reporting, TreeStays DEF WalkInv, WTyped
<1>3. RootFirst'
    BY <1>1, HereIs DEF RootFirst, Visitable
<1>4. Covered'
  <2>1. violations' # <<>>
      BY Reporting DEF WalkInv
  <2> QED BY <2>1 DEF Covered
<1>5. Counted'
  <2>1. walk.nodes \in Nat /\ IsFiniteSet(walk.kept) /\ Cardinality(walk.kept) <= walk.nodes
      BY FilterAssumption DEF WalkInv, WTyped, Counted
  <2>2. Cardinality(walk.kept) \in Nat
      BY <2>1, FS_CardinalityType
  <2>3. Leaves(walk.kept)' = Leaves(walk.kept) /\ ValueCount' = ValueCount
      BY <1>1, TreeStays
  <2>4. walk.values = SumOf(ValueCount, Leaves(walk.kept))
        /\ \A at \in walk.kept : Depth(at) <= MaxFilterDepth
      BY DEF WalkInv, Counted
  <2> QED BY <1>1, <2>1, <2>2, <2>3, <2>4 DEF Counted, Depth
<1>6. Distinct'
  <2>1. Leaves(walk.kept)' = Leaves(walk.kept) /\ \A at : Key(at)' = Key(at)
      BY <1>1, TreeStays
  <2> QED BY <1>1, <2>1 DEF WalkInv, Distinct
<1> QED BY <1>2, <1>3, <1>4, <1>5, <1>6 DEF WalkInv

\* A node that is kept adds itself to what is covered, with its children to do.
LEMMA KeepCovers ==
    ASSUME WalkInv, walk.todo # <<>>, tree' = tree,
           NEW codes \in Seq(Codes), Report(codes),
           walk'.kept = walk.kept \cup {Here},
           walk'.todo = Children(Here) \o Tail(walk.todo)
    PROVE  Covered'
<1> SUFFICES ASSUME violations' = <<>>, NEW p \in DOMAIN tree, p \notin walk'.kept
             PROVE  \E i \in DOMAIN walk'.todo : Under(walk'.todo[i], p)
    BY DEF Covered, Under
<1> DEFINE kids == Children(Here)
           rest == Tail(walk.todo)
<1>1. PICK i \in DOMAIN walk.todo : Under(walk.todo[i], p)
  <2>1. violations = <<>>
      BY Reporting DEF WalkInv
  <2> QED BY <2>1 DEF WalkInv, Covered
<1>2. /\ kids \in Seq(DOMAIN tree) /\ rest \in Seq(DOMAIN tree)
      /\ Under(Here, p) /\ p # Here => \E j \in DOMAIN kids : Under(kids[j], p)
      /\ walk.todo[i] = Here \/ \E j \in DOMAIN rest : rest[j] = walk.todo[i]
    BY HereIs, ChildrenAre DEF WalkInv, WTyped
<1> HIDE DEF kids, rest
<1>3. CASE walk.todo[i] = Here
  <2>1. PICK j \in DOMAIN kids : Under(kids[j], p)
      BY <1>1, <1>2, <1>3
  <2>2. j \in DOMAIN (kids \o rest) /\ (kids \o rest)[j] = kids[j]
      BY <1>2
  <2> QED BY <2>1, <2>2 DEF kids, rest
<1>4. CASE \E j \in DOMAIN rest : rest[j] = walk.todo[i]
  <2>1. PICK j \in DOMAIN rest : rest[j] = walk.todo[i]
      BY <1>4
  <2>2. Len(kids) + j \in DOMAIN (kids \o rest) /\ (kids \o rest)[Len(kids) + j] = rest[j]
      BY <1>2
  <2> QED BY <1>1, <2>1, <2>2 DEF kids, rest
<1> QED BY <1>2, <1>3, <1>4

LEMMA GroupKeeps ==
    ASSUME WalkInv, EnterGroup, tree' = tree
    PROVE  WalkInv'
<1> DEFINE codes == Fault(tree[Here].logic \notin Logics, "unsupported_operation") \o
                    Fault(tree[Here].logic = "not" /\ Fanout(tree, Here) # 1, "conflict")
<1>1. /\ Visitable /\ walk.todo # <<>> /\ ~IsLeaf(Here) /\ Depth(Here) <= MaxFilterDepth
      /\ Report(codes)
      /\ walk' = [Entered EXCEPT !.todo = Children(Here) \o @, !.kept = @ \cup {Here}]
  <2>1. Here \in Seq(Nat) /\ MaxFilterDepth \in Nat
      BY HereIs, FilterAssumption DEF EnterGroup, Visitable
  <2> QED BY <2>1 DEF EnterGroup, Visitable, TooDeep, Depth
<1>2. codes \in Seq(Codes)
  <2>1. /\ Fault(tree[Here].logic \notin Logics, "unsupported_operation") \in Seq(Codes)
        /\ Fault(tree[Here].logic = "not" /\ Fanout(tree, Here) # 1, "conflict") \in Seq(Codes)
      BY FaultTyped DEF Codes
  <2> QED BY <2>1
<1> HIDE DEF codes
<1>3. /\ Here \in DOMAIN tree /\ Tail(walk.todo) \in Seq(DOMAIN tree)
      /\ \A j \in DOMAIN Tail(walk.todo) : Tail(walk.todo)[j] # <<>>
      /\ Children(Here) \in Seq(DOMAIN tree)
      /\ \A j \in DOMAIN Children(Here) : Children(Here)[j] # <<>>
      /\ walk.nodes + 1 \in 0..MaxFilterNodes
    BY <1>1, HereIs, ChildrenAre, Room DEF WalkInv, WTyped
<1>4. /\ walk' \in [todo: Seq(DOMAIN tree), nodes: 0..MaxFilterNodes, values: 0..MaxValues,
                    seen: SUBSET Keys, kept: SUBSET DOMAIN tree]
      /\ walk'.todo = Children(Here) \o Tail(walk.todo) /\ walk'.nodes = walk.nodes + 1
      /\ walk'.kept = walk.kept \cup {Here}
      /\ walk'.values = walk.values /\ walk'.seen = walk.seen
  <2>1. Children(Here) \o Tail(walk.todo) \in Seq(DOMAIN tree)
      BY <1>3
  <2> QED BY <1>1, <1>3, <2>1 DEF WalkInv, WTyped, Entered
<1>5. WTyped'
    BY <1>1, <1>2, <1>4, Reporting, TreeStays DEF WalkInv, WTyped
<1>6. RootFirst'
  <2> DEFINE kids == Children(Here)
             rest == Tail(walk.todo)
  <2> HIDE DEF kids, rest
  <2>1. kids \in Seq(DOMAIN tree) /\ rest \in Seq(DOMAIN tree)
      BY <1>3 DEF kids, rest
  <2>2. \A i \in DOMAIN (kids \o rest) : (kids \o rest)[i] # <<>>
    <3> SUFFICES ASSUME NEW i \in DOMAIN (kids \o rest) PROVE (kids \o rest)[i] # <<>>
        OBVIOUS
    <3>1. CASE i \in DOMAIN kids
      <4>1. (kids \o rest)[i] = kids[i]
          BY <2>1, <3>1
      <4> QED BY <1>3, <3>1, <4>1 DEF kids
    <3>2. CASE i \notin DOMAIN kids
      <4>1. i - Len(kids) \in DOMAIN rest /\ (kids \o rest)[i] = rest[i - Len(kids)]
          BY <2>1, <3>2
      <4> QED BY <1>3, <4>1 DEF rest
    <3> QED BY <3>1, <3>2
  <2> QED BY <1>4, <2>2 DEF RootFirst, kids, rest
<1>7. Covered'
    BY <1>1, <1>2, <1>4, KeepCovers
<1>8. Leaves(walk.kept)' = Leaves(walk.kept)
  <2>1. Leaves(walk.kept)' = Leaves(walk.kept \cup {Here})
      BY <1>4, TreeStays
  <2> QED BY <1>1, <2>1 DEF Leaves
<1>9. Counted'
  <2>1. walk.nodes \in Nat /\ IsFiniteSet(walk.kept) /\ Cardinality(walk.kept) <= walk.nodes
      BY FilterAssumption DEF WalkInv, WTyped, Counted
  <2>2. /\ Cardinality(walk.kept) \in Nat /\ IsFiniteSet(walk.kept \cup {Here})
        /\ Cardinality(walk.kept \cup {Here}) \in {Cardinality(walk.kept), Cardinality(walk.kept) + 1}
      BY <2>1, FS_CardinalityType, FS_AddElement
  <2>3. Cardinality(walk'.kept) <= walk'.nodes /\ IsFiniteSet(walk'.kept)
      BY <1>4, <2>1, <2>2
  <2>4. walk'.values = SumOf(ValueCount, Leaves(walk.kept))'
      BY <1>4, <1>8, TreeStays DEF WalkInv, Counted
  <2>5. \A at \in walk'.kept : Depth(at) <= MaxFilterDepth
      BY <1>1, <1>4 DEF WalkInv, Counted
  <2> QED BY <2>3, <2>4, <2>5 DEF Counted, Depth
<1>10. Distinct'
  <2>1. Leaves(walk.kept)' = Leaves(walk.kept) /\ \A at : Key(at)' = Key(at)
      BY <1>8, TreeStays
  <2> QED BY <1>4, <2>1 DEF WalkInv, Distinct
<1> QED BY <1>5, <1>6, <1>7, <1>9, <1>10 DEF WalkInv

\* The weights are natural numbers, so sums of them are.
LEMMA Weighed ==
    ASSUME WalkInv
    PROVE  /\ \A at \in Leaves(DOMAIN tree) : ValueCount[at] \in Nat
                                           /\ ValueCount[at] = Len(tree[at].pred.values)
           /\ IsFiniteSet(Leaves(walk.kept)) /\ Leaves(walk.kept) \subseteq Leaves(DOMAIN tree)
<1>1. \A at \in Leaves(DOMAIN tree) : tree[at].pred.values \in Seq(Range(tree[at].pred.values))
    BY DEF WalkInv, WTyped, IsTree, Leaves, IsLeaf
<1>2. \A at \in Leaves(DOMAIN tree) : Len(tree[at].pred.values) \in Nat
    BY <1>1
<1>3. \A at \in Leaves(DOMAIN tree) : ValueCount[at] = Len(tree[at].pred.values)
    BY DEF ValueCount
<1>4. IsFiniteSet(walk.kept) /\ Leaves(walk.kept) \in SUBSET walk.kept
      /\ walk.kept \in SUBSET DOMAIN tree
    BY DEF WalkInv, WTyped, Counted, Leaves
<1>5. IsFiniteSet(Leaves(walk.kept)) /\ Leaves(walk.kept) \subseteq Leaves(DOMAIN tree)
    BY <1>4, FS_Subset DEF Leaves
<1> QED BY <1>2, <1>3, <1>5

\* A step of the walk, named so that a proof expands it only where it must.
Becomes(w) == walk' = w

\* A predicate that is kept: the first with its key, with no node below it.
LEMMA LeafKeeps ==
    ASSUME WalkInv, Visitable, ~TooDeep, ~IllFormed, IsLeaf(Here), tree' = tree,
           ~Duplicate(Here), ~OverBudget(Here),
           NEW codes \in Seq(Codes), Report(codes),
           Becomes([Entered EXCEPT !.seen = @ \cup {Key(Here)},
                                   !.values = @ + Len(tree[Here].pred.values),
                                   !.kept = @ \cup {Here}])
    PROVE  WalkInv'
<1> DEFINE n == Len(tree[Here].pred.values)
<1>1. /\ walk.todo # <<>> /\ Here \in DOMAIN tree /\ Here \in Leaves(DOMAIN tree)
      /\ Tail(walk.todo) \in Seq(DOMAIN tree)
      /\ \A j \in DOMAIN Tail(walk.todo) : Tail(walk.todo)[j] # <<>>
      /\ walk.nodes + 1 \in 0..MaxFilterNodes
    BY HereIs, Room DEF Visitable, Leaves
<1>2. Depth(Here) <= MaxFilterDepth
  <2>1. Here \in Seq(Nat) /\ MaxFilterDepth \in Nat
      BY <1>1, HereIs, FilterAssumption
  <2> QED BY <2>1 DEF TooDeep, Depth
<1>3. Children(Here) = <<>>
  <2>1. Fanout(tree, Here) = 0
      BY DEF IllFormed
  <2>2. Children(Here) \in Seq(DOMAIN tree) /\ Len(Children(Here)) = 0
      BY <1>1, <2>1, ChildrenAre DEF WalkInv, WTyped
  <2> QED BY <2>2
<1>4. n \in Nat /\ ValueCount[Here] = n
    BY <1>1, Weighed
<1>5. walk.values + n \in 0..MaxValues
  <2>1. walk.values \in 0..MaxValues /\ MaxValues \in Nat /\ ~(n > MaxValues - walk.values)
      BY FilterAssumption DEF WalkInv, WTyped, OverBudget
  <2> HIDE DEF n
  <2> QED BY <1>4, <2>1
<1>6. Key(Here) \in Keys /\ Key(Here) \notin walk.seen
    BY <1>1 DEF Keys, Duplicate
<1> HIDE DEF n
<1>7. /\ walk' \in [todo: Seq(DOMAIN tree), nodes: 0..MaxFilterNodes, values: 0..MaxValues,
                    seen: SUBSET Keys, kept: SUBSET DOMAIN tree]
      /\ walk'.todo = Tail(walk.todo) /\ walk'.nodes = walk.nodes + 1
      /\ walk'.kept = walk.kept \cup {Here} /\ walk'.values = walk.values + n
      /\ walk'.seen = walk.seen \cup {Key(Here)}
  <2> DEFINE k == Key(Here)
             h == Here
  <2>1. walk' = [Entered EXCEPT !.seen = @ \cup {k}, !.values = @ + n, !.kept = @ \cup {h}]
      BY DEF n, Becomes
  <2>2. k \in Keys /\ h \in DOMAIN tree
      BY <1>1, <1>6
  <2> HIDE DEF k, h
  <2>3. /\ walk' = [walk EXCEPT !.todo = Tail(walk.todo), !.nodes = walk.nodes + 1,
                              !.seen = walk.seen \cup {k}, !.values = walk.values + n,
                              !.kept = walk.kept \cup {h}]
        /\ walk \in [todo: Seq(DOMAIN tree), nodes: 0..MaxFilterNodes, values: 0..MaxValues,
                     seen: SUBSET Keys, kept: SUBSET DOMAIN tree]
      BY <2>1 DEF WalkInv, WTyped, Entered
  <2> QED BY <1>1, <1>5, <2>2, <2>3 DEF k, h
<1>8. WTyped'
    BY <1>7, Reporting, TreeStays DEF WalkInv, WTyped
<1>9. RootFirst'
    BY <1>1, <1>7 DEF RootFirst
<1>10. Covered'
  <2>1. Children(Here) \o Tail(walk.todo) = Tail(walk.todo)
      BY <1>1, <1>3
  <2> QED BY <1>1, <1>7, <2>1, KeepCovers
<1> DEFINE L == Leaves(walk.kept)
<1>11. /\ Leaves(walk.kept)' = L \cup {Here} /\ Here \notin L /\ IsFiniteSet(L)
       /\ \A at \in L \cup {Here} : ValueCount[at] \in Nat
  <2>1. Leaves(walk.kept)' = Leaves(walk.kept \cup {Here})
      BY <1>7, TreeStays
  <2>2. Leaves(walk.kept \cup {Here}) = L \cup {Here}
      BY DEF Leaves
  <2>3. Here \notin L
      BY <1>6 DEF WalkInv, Distinct
  <2> QED BY <1>1, <2>1, <2>2, <2>3, Weighed
<1>12. Counted'
  <2>1. walk.nodes \in Nat /\ IsFiniteSet(walk.kept) /\ Cardinality(walk.kept) <= walk.nodes
        /\ walk.values \in Nat /\ walk.values = SumOf(ValueCount, L)
      BY FilterAssumption DEF WalkInv, WTyped, Counted
  <2>2. /\ Cardinality(walk.kept) \in Nat /\ IsFiniteSet(walk.kept \cup {Here})
        /\ Cardinality(walk.kept \cup {Here}) \in {Cardinality(walk.kept), Cardinality(walk.kept) + 1}
      BY <2>1, FS_CardinalityType, FS_AddElement
  <2>3. Cardinality(walk'.kept) <= walk'.nodes /\ IsFiniteSet(walk'.kept)
      BY <1>7, <2>1, <2>2
  <2>4. SumOf(ValueCount, L \cup {Here}) = ValueCount[Here] + SumOf(ValueCount, L)
    <3> HIDE DEF L
    <3> QED BY <1>11, SumAdd
  <2>5. walk'.values = SumOf(ValueCount, Leaves(walk.kept))'
    <3>1. ValueCount' = ValueCount /\ Leaves(walk.kept)' = L \cup {Here}
        BY <1>11, TreeStays
    <3>2. SumOf(ValueCount, Leaves(walk.kept))' = SumOf(ValueCount, L \cup {Here})
        BY <3>1
    <3>3. walk'.values = walk.values + n
        BY <1>7
    <3> HIDE DEF L
    <3>4. walk'.values = n + SumOf(ValueCount, L)
        BY <1>4, <2>1, <3>3
    <3> QED BY <1>4, <2>4, <3>2, <3>4
  <2>6. \A at \in walk'.kept : Depth(at) <= MaxFilterDepth
      BY <1>2, <1>7 DEF WalkInv, Counted
  <2> QED BY <2>3, <2>5, <2>6 DEF Counted, Depth
<1>13. Distinct'
  <2>1. \A at : Key(at)' = Key(at)
      BY TreeStays
  <2>2. /\ \A p \in L : Key(p) \in walk.seen
        /\ \A p, q \in L : Key(p) = Key(q) => p = q
      BY DEF WalkInv, Distinct
  <2> HIDE DEF L
  <2> QED BY <1>6, <1>7, <1>11, <2>1, <2>2 DEF Distinct
<1> QED BY <1>8, <1>9, <1>10, <1>12, <1>13 DEF WalkInv

\* The loop of the parent ends: the root is charged, the list gets shorter.
LEMMA AbandonKeeps ==
    ASSUME WalkInv, Abandon, tree' = tree
    PROVE  WalkInv'
<1>1. walk.todo # <<>> /\ Here # <<>> /\ Report(<<"limit_exceeded">>)
      /\ walk' = [walk EXCEPT !.todo = SubSeq(@, LeftInLoop + 1, Len(@))]
    BY DEF Abandon, Exhausted
<1>2. LeftInLoop \in Nat
  <2> DEFINE m == Len(Here)
             parent == Front(Here)
  <2>1. /\ Here \in DOMAIN tree /\ Here \in Seq(Nat)
        /\ \A k \in DOMAIN Here : SubSeq(Here, 1, k - 1) \in DOMAIN tree
      BY <1>1, HereIs DEF WalkInv, WTyped, IsTree
  <2>2. m \in Nat \ {0} /\ m \in DOMAIN Here
      BY <1>1, <2>1
  <2>3. parent \in DOMAIN tree
      BY <2>1, <2>2 DEF Front
  <2>4. Fanout(tree, parent) \in Nat
        /\ ChildrenIn(tree, parent) = {Append(parent, i) : i \in 1..Fanout(tree, parent)}
      BY <2>3, ChildrenAre DEF WalkInv, WTyped, IsTree
  <2>5. Here \in ChildrenIn(tree, parent)
      BY <1>1, <2>1 DEF ChildrenIn
  <2>6. PICK i \in 1..Fanout(tree, parent) : Here = Append(parent, i)
      BY <2>4, <2>5
  <2>7. parent \in Seq(Nat)
      BY <2>3 DEF WalkInv, WTyped, IsTree
  <2>8. Last(Here) = i
    <3> HIDE DEF parent
    <3> QED BY <2>4, <2>6, <2>7 DEF Last
  <2> QED BY <2>4, <2>8 DEF LeftInLoop
<1> DEFINE left == SubSeq(walk.todo, LeftInLoop + 1, Len(walk.todo))
<1>3. left \in Seq(DOMAIN tree)
      /\ \A j \in DOMAIN left : \E i \in DOMAIN walk.todo : walk.todo[i] = left[j]
  <2> DEFINE s == walk.todo
             k == LeftInLoop
  <2>1. s \in Seq(DOMAIN tree) /\ k \in Nat
      BY <1>2 DEF WalkInv, WTyped
  <2> HIDE DEF s, k
  <2>2. /\ SubSeq(s, k + 1, Len(s)) \in Seq(DOMAIN tree)
        /\ \A j \in DOMAIN SubSeq(s, k + 1, Len(s)) :
              j + k \in DOMAIN s /\ s[j + k] = SubSeq(s, k + 1, Len(s))[j]
      BY <2>1
  <2> QED BY <2>2 DEF s, k
<1>4. /\ walk' \in [todo: Seq(DOMAIN tree), nodes: 0..MaxFilterNodes, values: 0..MaxValues,
                    seen: SUBSET Keys, kept: SUBSET DOMAIN tree]
      /\ walk'.todo = left /\ walk'.nodes = walk.nodes
      /\ walk'.kept = walk.kept /\ walk'.values = walk.values /\ walk'.seen = walk.seen
  <2> HIDE DEF left
  <2>1. walk' = [walk EXCEPT !.todo = left]
      BY <1>1 DEF left
  <2> QED BY <1>3, <2>1 DEF WalkInv, WTyped
<1>5. <<"limit_exceeded">> \in Seq(Codes)
    BY DEF Codes
<1>6. WTyped'
    BY <1>1, <1>4, <1>5, Reporting, TreeStays DEF WalkInv, WTyped
<1>7. RootFirst'
  <2>1. walk.nodes # 0
      BY <1>1, FilterAssumption DEF Abandon, Exhausted, WalkInv, WTyped
  <2> HIDE DEF left
  <2> QED BY <1>3, <1>4, <2>1 DEF WalkInv, RootFirst
<1>8. Covered'
  <2>1. violations' # <<>>
      BY <1>1, <1>5, Reporting DEF WalkInv
  <2> QED BY <2>1 DEF Covered
<1>9. Counted' /\ Distinct'
  <2>1. /\ Leaves(walk.kept)' = Leaves(walk.kept) /\ ValueCount' = ValueCount
        /\ \A at : Key(at)' = Key(at)
      BY <1>4, TreeStays
  <2>2. Counted'
      BY <1>4, <2>1 DEF WalkInv, Counted, Depth
  <2>3. Distinct'
      BY <1>4, <2>1 DEF WalkInv, Distinct
  <2> QED BY <2>2, <2>3
<1> QED BY <1>6, <1>7, <1>8, <1>9 DEF WalkInv

\* A node that is reported without a mark.
LEMMA EnteredKeeps ==
    ASSUME WalkInv, Visitable, tree' = tree, NEW code \in Codes, Report(<<code>>),
           walk' = Entered
    PROVE  WalkInv'
<1>1. walk.seen \in SUBSET Keys /\ Entered = [Entered EXCEPT !.seen = walk.seen]
    BY DEF WalkInv, WTyped, Entered
<1>2. <<code>> \in Seq(Codes) /\ <<code>> # <<>>
    OBVIOUS
<1> QED BY <1>1, <1>2, SkipKeeps

LEMMA PredicateKeeps ==
    ASSUME WalkInv, NEW ok \in BOOLEAN, Predicate(ok), tree' = tree
    PROVE  WalkInv'
<1> DEFINE pred   == tree[Here].pred
           def    == Filters[pred.name]
           badOp  == Fault(pred.op \notin def.operators, "unsupported_operation")
           marked == [Entered EXCEPT !.seen = @ \cup {Key(Here)}]
<1>1. Visitable /\ ~TooDeep /\ ~IllFormed /\ IsLeaf(Here)
    BY DEF Predicate
<1>2. /\ Here \in Leaves(DOMAIN tree) /\ Key(Here) \in Keys
      /\ pred.values \in Seq(Range(pred.values))
  <2>1. Here \in DOMAIN tree
      BY <1>1, HereIs DEF Visitable
  <2> QED BY <1>1, <2>1 DEF Leaves, Keys, WalkInv, WTyped, IsTree, IsLeaf
<1>3. {"authorization_rejected", "unsupported_operation", "conflict", "limit_exceeded",
       "invalid_element"} \subseteq Codes
    BY DEF Codes
<1>4. badOp \in Seq(Codes) /\ ValueFaults(def, pred) \in Seq(Codes)
    BY <1>2, <1>3, FaultTyped, ValueFaultsTyped
<1>5. \/ Report(<<"authorization_rejected">>) /\ walk' = Entered
      \/ Report(<<"unsupported_operation">>) /\ walk' = Entered
      \/ Report(<<"conflict">>) /\ walk' = Entered
      \/ Report(badOp \o <<"limit_exceeded">>) /\ walk' = marked
      \/ /\ ~Duplicate(Here) /\ ~OverBudget(Here)
         /\ Report(badOp \o ValueFaults(def, pred))
         /\ walk' = [marked EXCEPT !.values = @ + Len(pred.values), !.kept = @ \cup {Here}]
    BY Zenon DEF Predicate
<1>6. CASE \E code \in {"authorization_rejected", "unsupported_operation", "conflict"} :
              Report(<<code>>) /\ walk' = Entered
    BY <1>1, <1>3, <1>6, EnteredKeeps
<1>7. CASE Report(badOp \o <<"limit_exceeded">>) /\ walk' = marked
  <2> DEFINE seen == walk.seen \cup {Key(Here)}
             codes == badOp \o <<"limit_exceeded">>
  <2>1. codes \in Seq(Codes) /\ codes # <<>>
    <3> HIDE DEF badOp
    <3> QED BY <1>3, <1>4
  <2>2. walk.seen \in SUBSET Keys /\ marked = [Entered EXCEPT !.seen = seen]
      BY DEF WalkInv, WTyped, Entered
  <2>3. seen \in SUBSET Keys /\ walk.seen \subseteq seen
      BY <1>2, <2>2
  <2>4. walk' = [Entered EXCEPT !.seen = seen]
      BY <1>7, <2>2
  <2> HIDE DEF codes, seen
  <2>5. Report(codes)
      BY <1>7 DEF codes
  <2> QED BY <1>1, <2>1, <2>3, <2>4, <2>5, SkipKeeps
<1>8. CASE /\ ~Duplicate(Here) /\ ~OverBudget(Here)
           /\ Report(badOp \o ValueFaults(def, pred))
           /\ walk' = [marked EXCEPT !.values = @ + Len(pred.values), !.kept = @ \cup {Here}]
  <2> DEFINE codes == badOp \o ValueFaults(def, pred)
  <2>1. codes \in Seq(Codes)
    <3> HIDE DEF badOp
    <3> QED BY <1>4
  <2>2. Becomes([Entered EXCEPT !.seen = @ \cup {Key(Here)},
                                !.values = @ + Len(tree[Here].pred.values),
                                !.kept = @ \cup {Here}])
      BY <1>8 DEF Becomes
  <2> HIDE DEF codes
  <2>3. Report(codes)
      BY <1>8 DEF codes
  <2> QED BY <1>1, <1>8, <2>1, <2>2, <2>3, LeafKeeps
<1> HIDE DEF badOp, marked, def, pred
<1> QED BY <1>5, <1>6, <1>7, <1>8

\* Every step of the walk keeps the invariant, also as a part of Compile.
LEMMA VisitKeeps ==
    ASSUME WalkInv, Visit, tree' = tree
    PROVE  WalkInv'
<1>1. CASE Abandon
    BY <1>1, AbandonKeeps
<1>2. CASE RejectNode
  <2> DEFINE code == IF TooDeep THEN "limit_exceeded" ELSE "conflict"
  <2>1. Visitable /\ Report(<<code>>) /\ walk' = Entered
      BY <1>2 DEF RejectNode
  <2>2. code \in Codes
      BY DEF Codes
  <2> HIDE DEF code
  <2> QED BY <2>1, <2>2, EnteredKeeps
<1>3. CASE EnterGroup
    BY <1>3, GroupKeeps
<1>4. CASE UnknownFilter
  <2>1. Visitable /\ Report(<<"invalid_element">>) /\ walk' = Entered
      BY <1>4 DEF UnknownFilter
  <2>2. "invalid_element" \in Codes
      BY DEF Codes
  <2> QED BY <2>1, <2>2, EnteredKeeps
<1>5. CASE \E ok \in BOOLEAN : Predicate(ok)
    BY <1>5, PredicateKeeps
<1> QED BY <1>1, <1>2, <1>3, <1>4, <1>5 DEF Visit

\* Nor does it matter to the walk what else is reported.
LEMMA ElsewhereKeeps ==
    ASSUME WalkInv, UNCHANGED <<tree, walk>>,
           violations' \in Seq(Codes), Len(violations') <= MaxErrors,
           violations' = <<>> => violations = <<>>
    PROVE  WalkInv'
<1>1. tree' = tree /\ walk' = walk
    OBVIOUS
<1>2. /\ IsTree(tree)' <=> IsTree(tree)
      /\ Keys' = Keys /\ ValueCount' = ValueCount
      /\ Leaves(walk.kept)' = Leaves(walk.kept)
      /\ \A at : Key(at)' = Key(at)
    BY <1>1, TreeStays
<1>3. WTyped'
    BY <1>1, <1>2 DEF WalkInv, WTyped
<1>4. RootFirst'
    BY <1>1 DEF WalkInv, RootFirst
<1>5. Covered'
    BY <1>1 DEF WalkInv, Covered, Under
<1>6. Counted'
    BY <1>1, <1>2 DEF WalkInv, Counted, Depth
<1>7. Distinct'
    BY <1>1, <1>2 DEF WalkInv, Distinct
<1> QED BY <1>3, <1>4, <1>5, <1>6, <1>7 DEF WalkInv

\* While compileFilterNode has recorded no violation, every node of the tree is
\* kept, still to do or below one that is, and the counters of the state are
\* those of the nodes kept (src/compile.go:250-320).
THEOREM WalkInvariant == WalkSpec => []WalkInv
<1>1. WalkInit => WalkInv
    BY TreesAssumption, WalkInvInit DEF WalkInit
<1>2. WalkInv /\ [WalkNext]_<<tree, walk, violations, asked>> => WalkInv'
  <2> SUFFICES ASSUME WalkInv, [WalkNext]_<<tree, walk, violations, asked>>
               PROVE  WalkInv'
      OBVIOUS
  <2>1. CASE WalkNext
      BY <2>1, VisitKeeps DEF WalkNext
  <2>2. CASE UNCHANGED <<tree, walk, violations, asked>>
    <3>1. violations' = violations /\ UNCHANGED <<tree, walk>>
        BY <2>2
    <3>2. violations' \in Seq(Codes) /\ Len(violations') <= MaxErrors
        BY <3>1 DEF WalkInv, WTyped
    <3> QED BY <3>1, <3>2, ElsewhereKeeps
  <2> QED BY <2>1, <2>2
<1> QED BY <1>1, <1>2, PTL DEF WalkSpec

\* A filter walk that reports nothing has kept every node of the request's
\* filter, whatever the tree and whatever the authorizer answers: a successful
\* plan never leaves out a restriction (compile.go:303-320).
THEOREM WholeFilter == WalkSpec => []NothingDropped
<1>1. WalkInv => NothingDropped
  <2> SUFFICES ASSUME WalkInv, walk.todo = <<>>, violations = <<>>
               PROVE  walk.kept = DOMAIN tree
      BY DEF NothingDropped
  <2>1. DOMAIN walk.todo = {} /\ walk.kept \subseteq DOMAIN tree
      BY DEF WalkInv, WTyped
  <2> QED BY <2>1 DEF WalkInv, Covered
<1> QED BY <1>1, WalkInvariant, PTL

\* What a walk keeps is within each of the schema's budgets, the values it was
\* charged for are those of the predicates it kept, and no two of these have the
\* same filter and operator (compile.go:248-249, 261, 286-301, 311-314).
THEOREM BudgetsHold == WalkSpec => []WithinBudget
<1>1. WalkInv => WithinBudget
    BY FilterAssumption DEF WalkInv, WTyped, Counted, Distinct, WithinBudget
<1> QED BY <1>1, WalkInvariant, PTL
=============================================================================
