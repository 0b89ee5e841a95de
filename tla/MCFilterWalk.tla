---------------------------- MODULE MCFilterWalk ----------------------------
(***************************************************************************)
(* Every labelling of the shapes below, well formed or not, with budgets   *)
(* small enough to be met inside them.                                     *)
(***************************************************************************)
EXTENDS FilterWalk, FiniteSets, TLC

Val(t, b) == [type |-> t, bytes |-> b]
P(n, o, vs) == [name |-> n, op |-> o, values |-> vs]

MCFilters ==
    "name" :> [operators |-> {"eq", "in"}, type |-> "string", deprecated |-> FALSE,
               allowEmpty |-> FALSE] @@
    "age"  :> [operators |-> {"is_null"}, type |-> "int", deprecated |-> FALSE,
               allowEmpty |-> FALSE] @@
    "old"  :> [operators |-> {"eq"}, type |-> "string", deprecated |-> TRUE,
               allowEmpty |-> FALSE]

Preds == {P("name", "eq", <<Val("string", 1)>>),
          P("name", "in", <<Val("string", 1), Val("string", 2)>>),
          P("age", "is_null", <<>>),
          P("age", "in", <<Val("int", 1), Val("int", 2), Val("int", 3)>>),
          P("name", "gt", <<Val("int", 3), Val("string", 0)>>),
          P("old", "eq", <<Val("string", 1)>>),
          P("nope", "eq", <<>>)}

Leaf(p)  == [pred |-> p, logic |-> ""]
Group(l) == [pred |-> NoPredicate, logic |-> l]

Shapes == { {<< >>},
            {<< >>, <<1>>},
            {<< >>, <<1>>, <<2>>},
            {<< >>, <<1>>, <<2>>, <<3>>},
            {<< >>, <<1>>, <<1, 1>>, <<2>>},
            {<< >>, <<1>>, <<2>>, <<2, 1>>},
            {<< >>, <<1>>, <<1, 1>>, <<1, 1, 1>>},
            {<< >>, <<1>>, <<1, 1>>, <<1, 2>>, <<2>>} }

\* A group may be a leaf and a predicate may have children: both are refused.
Nodes   == {Leaf(p) : p \in Preds} \cup {Group(l) : l \in {"and", "or", "not"}}
MCTrees == {<< >>} \cup UNION {[S -> Nodes] : S \in Shapes}
=============================================================================
