----------------------------- MODULE MCPostgres -----------------------------
(***************************************************************************)
(* Plans of up to two constraints and filters of up to three levels, every *)
(* value of a plan distinct, under mappings that lack a name or have a bad *)
(* identifier; and single predicates with texts made of LIKE's characters. *)
(***************************************************************************)
EXTENDS Postgres

Columns == {"id", "f", "g", "tenant", "owner"}
Map(S)  == [n \in S |-> n]
Full    == [fields |-> Map({"id"}), filters |-> Map({"f", "g"}), sorts |-> Map({"id"}),
            constraints |-> Map({"tenant", "owner"})]
AllMappings == {Full,
    [Full EXCEPT !.fields = <<>>], [Full EXCEPT !.sorts = <<>>],
    [Full EXCEPT !.filters = Map({"f"})], [Full EXCEPT !.constraints = Map({"tenant"})],
    [Full EXCEPT !.sorts = [n \in {"id"} |-> "1; bad"]],
    [Full EXCEPT !.filters = [n \in {"f", "g", ""} |-> "f"]]}

\* Values are texts, told apart by where they stand.
Values(at, k) == [i \in 1..k |-> <<"v" \o ToString(at), ToString(i)>>]
Arity == [eq |-> 1, lte |-> 1, between |-> 2, in |-> 2, not_in |-> 1, is_null |-> 0]

Leaf(at, op, name) == [logic |-> "", pred |-> [name |-> name, op |-> op,
                                               values |-> Values(at, Arity[op])]]
Logical(logic) == [logic |-> logic, pred |-> <<>>]

Shapes == { {<<>>},
            {<<>>, <<1>>},
            {<<>>, <<1>>, <<1, 1>>},
            {<<>>, <<1>>, <<2>>},
            {<<>>, <<1>>, <<1, 1>>, <<1, 2>>},
            {<<>>, <<1>>, <<1, 1>>, <<1, 2>>, <<2>>},
            {<<>>, <<1>>, <<1, 1>>, <<2>>, <<2, 1>>, <<2, 2>>} }
Fork(shape, at) == \E p \in shape : p # <<>> /\ Front(p) = at
Twins(shape, at) == Cardinality({p \in shape : p # <<>> /\ Front(p) = at}) > 1

\* Leaves take operators and names in turn; groups take every logic that fits.
Turn(at, n) == (Len(at) + 2 * FoldLeft(LAMBDA a, b : a + b, 0, at) + n) % 3
Label(at, n) == CASE Turn(at, n) = 0 -> Leaf(at, "between", "f")
                  [] Turn(at, n) = 1 -> Leaf(at, "in", "g")
                  [] OTHER           -> Leaf(at, "eq", "f")
Filters ==
    {[at \in {<<>>} |-> Leaf(at, op, "g")] : op \in DOMAIN Arity} \cup
    UNION {UNION {{[at \in shape |-> IF Fork(shape, at) THEN Logical(logic[at]) ELSE Label(at, n)] :
               logic \in {l \in [{at \in shape : Fork(shape, at)} -> {"and", "or", "not"}] :
                             \A at \in DOMAIN l : Twins(shape, at) <=> l[at] # "not"}} :
           n \in 0..2} : shape \in Shapes}

Given(n) == SubSeq(<<[name |-> "tenant", value |-> <<"t">>],
                     [name |-> "owner", value |-> <<"o">>]>>, 1, n)
Plan(constraints, filter) ==
    [fields |-> <<"id">>, constraints |-> constraints, filter |-> filter,
     sorts |-> <<[name |-> "id", dir |-> "asc", nulls |-> ""]>>]

Texts(n) == UNION {[1..k -> {"a", "%", "_", "\\"}] : k \in 0..n}
Asked    == Texts(3)
Likes    == {Plan(<<>>, [at \in {<<>>} |->
                [logic |-> "", pred |-> [name |-> "f", op |-> op, values |-> <<text>>]]]) :
             op \in Patterned, text \in Texts(2)}

AllPlans == {Plan(Given(n), f) : n \in 0..2, f \in Filters \cup {<<>>}} \cup Likes
=============================================================================
