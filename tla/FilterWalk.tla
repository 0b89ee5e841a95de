----------------------------- MODULE FilterWalk -----------------------------
(***************************************************************************)
(* The walk of a request's filter tree (src/compile.go:250-359): structural *)
(* budgets are charged before descent, every predicate is put to the       *)
(* application's authorizer, and what is refused is dropped from the       *)
(* result while the walk goes on, so that one compile reports many faults. *)
(*                                                                         *)
(* A tree maps paths (sequences of child numbers, the root is <<>>) to     *)
(* nodes; the recursion is a list of the paths still to visit, in order.   *)
(***************************************************************************)
EXTENDS Violations, Collections

CONSTANTS
    Trees,          \* filters a request may carry; no filter is the empty one
    Filters,        \* declared filters: [names -> definitions]
    Logics,         \* schema.allowedLogic
    MaxFilterDepth, MaxFilterNodes, MaxValues, MaxMembership, MaxStringBytes,
    MaxErrors,
    NoPredicate

ASSUME FilterAssumption ==
    \* NewSchema replaces what is not positive by a positive default.
    \A b \in {MaxFilterDepth, MaxFilterNodes, MaxValues, MaxMembership,
              MaxStringBytes, MaxErrors} : b \in Nat \ {0}

ChildrenIn(t, at) == {p \in DOMAIN t : p # <<>> /\ Front(p) = at}
Fanout(t, at)     == Cardinality(ChildrenIn(t, at))

\* What the type Filter makes of every value of it: a node has a parent, children
\* are numbered without gaps, and a predicate has a list of values.
IsTree(t) ==
    /\ t # <<>> => <<>> \in DOMAIN t
    /\ IsFiniteSet(DOMAIN t)
    /\ \A p \in DOMAIN t :
          /\ p \in Seq(Nat)
          /\ \A n \in DOMAIN p : SubSeq(p, 1, n - 1) \in DOMAIN t
          /\ ChildrenIn(t, p) = {Append(p, i) : i \in 1..Fanout(t, p)}
          /\ t[p].pred # NoPredicate =>
                t[p].pred.values \in Seq(Range(t[p].pred.values))

ASSUME TreesAssumption == \A t \in Trees : IsTree(t)

VARIABLES
    tree,           \* request.Filter
    walk,           \* the walk: paths to do, budgets spent, keys seen, nodes kept
    asked           \* every answer of the authorizer, in order (history)

-----------------------------------------------------------------------------
Report(codes) == violations' = Collected(MaxErrors, codes)

\* authorized(): the application decides; a nil authorizer always says yes.
Answer(kind, name, ok) == [kind |-> kind, name |-> name, ok |-> ok]
Ask(kind, name, ok)    == asked' = Append(asked, Answer(kind, name, ok))
Granted(kind, name)    == \E i \in DOMAIN asked :
    asked[i].kind = kind /\ asked[i].name = name /\ asked[i].ok

-----------------------------------------------------------------------------
\* The shape of a tree.

Children(at) == [i \in 1..Fanout(tree, at) |-> Append(at, i)]
Depth(at)  == Len(at) + 1
IsLeaf(at) == tree[at].pred # NoPredicate
Leaves(S)  == {at \in S : IsLeaf(at)}
Key(at)    == <<tree[at].pred.name, tree[at].pred.op>>

NoWalk(t) == [todo |-> IF t = <<>> THEN <<>> ELSE << <<>> >>, nodes |-> 0, values |-> 0,
              seen |-> {}, kept |-> {}]

WalkInit ==
    /\ tree \in Trees
    /\ walk = NoWalk(tree)
    /\ violations = <<>> /\ asked = <<>>

-----------------------------------------------------------------------------
\* One node.  The parent's loop stops at the node budget and never reaches
\* the siblings that are left; the root has no such check.
Here        == Head(walk.todo)
Exhausted   == Here # <<>> /\ walk.nodes >= MaxFilterNodes
TooDeep     == Depth(Here) > MaxFilterDepth
IllFormed   == IsLeaf(Here) <=> Fanout(tree, Here) # 0
Visitable   == walk.todo # <<>> /\ ~Exhausted

\* Here and the siblings after it are the next that the walk would visit.
LeftInLoop  == Fanout(tree, Front(Here)) - Last(Here) + 1

Entered     == [walk EXCEPT !.nodes = @ + 1, !.todo = Tail(@)]

AbandonQuietly ==                                               \* mutant
    /\ walk.todo # <<>> /\ Exhausted
    /\ walk' = [walk EXCEPT !.todo = SubSeq(@, LeftInLoop + 1, Len(@))]
    /\ UNCHANGED <<asked, violations>>

Abandon ==
    /\ walk.todo # <<>> /\ Exhausted
    /\ Report(<<"limit_exceeded">>)
    /\ walk' = [walk EXCEPT !.todo = SubSeq(@, LeftInLoop + 1, Len(@))]
    /\ UNCHANGED asked

RejectNode ==
    /\ Visitable
    /\ TooDeep \/ IllFormed
    /\ Report(<<IF TooDeep THEN "limit_exceeded" ELSE "conflict">>)
    /\ walk' = Entered
    /\ UNCHANGED asked

\* A group the schema does not allow is reported, yet its children are visited.
EnterGroup ==
    /\ Visitable /\ ~TooDeep /\ ~IllFormed /\ ~IsLeaf(Here)
    /\ Report(Fault(tree[Here].logic \notin Logics, "unsupported_operation") \o
              Fault(tree[Here].logic = "not" /\ Fanout(tree, Here) # 1, "conflict"))
    /\ walk' = [Entered EXCEPT !.todo = Children(Here) \o @, !.kept = @ \cup {Here}]
    /\ UNCHANGED asked

UnknownFilter ==
    /\ Visitable /\ ~TooDeep /\ ~IllFormed /\ IsLeaf(Here)
    /\ tree[Here].pred.name \notin DOMAIN Filters
    /\ Report(<<"invalid_element">>)
    /\ walk' = Entered
    /\ UNCHANGED asked

\* validatePredicateValues: the operator fixes how many values there may be,
\* and each is checked against the definition.
Arity(op) == CASE op = "is_null" -> {0}
               [] op = "between" -> {2}
               [] op \in {"in", "not_in"} -> 1..MaxMembership
               [] OTHER -> {1}

ValueFaults(def, pred) ==
    Fault(Len(pred.values) \notin Arity(pred.op),
          IF pred.op \in {"in", "not_in"} THEN "limit_exceeded" ELSE "conflict") \o
    FlattenSeq([i \in DOMAIN pred.values |->
        LET v == pred.values[i] IN
        Fault(\E j \in 1..(i - 1) : pred.values[j] = v, "conflict") \o
        Fault(v.type # def.type, "invalid_element") \o
        Fault(v.bytes > MaxStringBytes, "limit_exceeded") \o
        Fault(v.type = "string" /\ v.bytes = 0 /\ ~def.allowEmpty, "invalid_element")])

Duplicate(at)  == Key(at) \in walk.seen
OverBudgetAlone(at) == Len(tree[at].pred.values) > MaxValues    \* mutant
OverBudget(at) == Len(tree[at].pred.values) > MaxValues - walk.values

\* A declared filter is put to the authorizer first, deprecated or not.
Predicate(ok) ==
    LET pred    == tree[Here].pred
        def     == Filters[pred.name]
        badOp   == Fault(pred.op \notin def.operators, "unsupported_operation")
        marked  == [Entered EXCEPT !.seen = @ \cup {Key(Here)}]
    IN
    /\ Visitable /\ ~TooDeep /\ ~IllFormed /\ IsLeaf(Here)
    /\ pred.name \in DOMAIN Filters
    /\ Ask("filter", pred.name, ok)
    /\ \/ /\ ~ok
          /\ Report(<<"authorization_rejected">>) /\ walk' = Entered
       \/ /\ ok /\ def.deprecated
          /\ Report(<<"unsupported_operation">>) /\ walk' = Entered
       \/ /\ ok /\ ~def.deprecated /\ Duplicate(Here)
          /\ Report(<<"conflict">>) /\ walk' = Entered
       \/ /\ ok /\ ~def.deprecated /\ ~Duplicate(Here) /\ OverBudget(Here)
          /\ Report(badOp \o <<"limit_exceeded">>) /\ walk' = marked
       \/ /\ ok /\ ~def.deprecated /\ ~Duplicate(Here) /\ ~OverBudget(Here)
          /\ Report(badOp \o ValueFaults(def, pred))
          /\ walk' = [marked EXCEPT !.values = @ + Len(pred.values), !.kept = @ \cup {Here}]

Visit == Abandon \/ RejectNode \/ EnterGroup \/ UnknownFilter
            \/ \E ok \in BOOLEAN : Predicate(ok)

WalkNext == Visit /\ UNCHANGED tree

WalkSpec == WalkInit /\ [][WalkNext]_<<tree, walk, violations, asked>>

-----------------------------------------------------------------------------
\* A walk without violations kept the whole filter: nothing the client asked to
\* restrict by is ever left out of a successful plan (compile.go:303-320).
NothingDropped ==
    walk.todo = <<>> /\ violations = <<>> => walk.kept = DOMAIN tree

ValueCount == [at \in Leaves(DOMAIN tree) |-> Len(tree[at].pred.values)]

\* What is kept is within every budget, also when the walk goes on after a
\* budget was met in another branch, and no filter is applied twice with one
\* operator anywhere in the tree; what it reports has a bound of its own
\* (compile.go:248-249, 261, 286-301, 311-314, errors.go:71-76).
WithinBudget ==
    /\ Cardinality(walk.kept) <= walk.nodes /\ walk.nodes <= MaxFilterNodes
    /\ walk.values <= MaxValues
    /\ Len(violations) <= MaxErrors
    /\ walk.values = SumOf(ValueCount, Leaves(walk.kept))
    /\ \A at \in walk.kept : Depth(at) <= MaxFilterDepth
    /\ \A p, q \in Leaves(walk.kept) : Key(p) = Key(q) => p = q
=============================================================================
