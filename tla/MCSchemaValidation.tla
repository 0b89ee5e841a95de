------------------------- MODULE MCSchemaValidation -------------------------
(***************************************************************************)
(* Configurations that vary one or two parts of a valid declaration: the   *)
(* parts meet only in the bounds and in the list of violations.            *)
(***************************************************************************)
EXTENDS SchemaValidation

Names    == {"records", "a", "b", "r1", "r2"}
Defaults == [MaxErrors |-> 3, MaxCost |-> 2, MaxSorts |-> 2, MaxPageSize |-> 2, MaxFields |-> 2]
Unset    == [b \in DOMAIN Defaults |-> 0]

Field(n, t, c)  == [name |-> n, type |-> t, cost |-> c]
Filter(n, t, ops, nullable) ==
    [name |-> n, type |-> t, operators |-> ops, nullable |-> nullable, cost |-> 1]
SortBy(n, nulls, tie) == [name |-> n, type |-> "int", nulls |-> nulls, tie |-> tie, cost |-> 2]
Term(n, nulls)        == [name |-> n, dir |-> "asc", nulls |-> nulls]
Edge(n, r)            == [name |-> n, resource |-> r, cost |-> 0]
Pages(cursor, offset, size, most) ==
    [cursor |-> cursor, offset |-> offset, defaultSize |-> size, maxOffset |-> most]

Base == [bounds |-> Unset, resource |-> "records", revisionValid |-> TRUE, logic |-> <<>>,
         fields |-> <<Field("a", "int", 2)>>,
         filters |-> <<Filter("a", "string", <<"eq", "contains">>, FALSE)>>,
         sorts |-> <<SortBy("a", "last", FALSE), SortBy("b", "", TRUE)>>,
         forest |-> [p \in {<<1>>} |-> Edge(<<"a">>, "r1")],
         defaultSort |-> <<Term("a", "")>>,
         pagination |-> Pages(TRUE, TRUE, 2, 0)]

UpTo(S, n) == UNION {[1..k -> S] : k \in 0..n}

\* Bounds, negative and zero ones too, with costs, sorts and pages at the limit.
Bounded == {[Base EXCEPT !.bounds = [Unset EXCEPT !.MaxErrors = e, !.MaxCost = c,
                                                  !.MaxSorts = s, !.MaxPageSize = p]] :
            e \in {-1, 0, 1}, c \in {-1, 0, 1, 2}, s \in {-1, 1, 2}, p \in {-1, 0, 1}}

Headed == {[Base EXCEPT !.resource = r, !.revisionValid = v, !.logic = l] :
           r \in {"records", ""}, v \in BOOLEAN, l \in UpTo({"and", "or", "xor"}, 2)}

Listed == {[Base EXCEPT !.fields = f] :
              f \in UpTo({Field("a", "int", 0), Field("b", "null", 3), Field("", "int", -1)}, 3)}
    \cup  {[Base EXCEPT !.filters = <<Filter("a", t, ops, nullable)>>] :
              t \in {"string", "bool", "int", "null"}, nullable \in BOOLEAN,
              ops \in UpTo({"eq", "lt", "is_null", "contains", "like"}, 2)}
    \cup  {[Base EXCEPT !.filters = f] :
              f \in UpTo({Filter(n, "int", <<"eq">>, FALSE) : n \in {"a", "b"}}, 3)}

\* Chains, siblings, cousins; the names are dotted too, the resources repeat.
Shapes == {{}, {<<1>>, <<2>>}, {<<1>>, <<1, 1>>}, {<<1>>, <<1, 1>>, <<1, 1, 1>>}, {<<1>>, <<1, 1>>, <<2>>, <<2, 1>>}}
Forests == {[p \in {<<1>>, <<1, 1>>, <<2>>} |-> Edge(name[p], "r" \o ToString(Len(p)))] :
              name \in [{<<1>>, <<1, 1>>, <<2>>} -> {<<"a">>, <<"b">>, <<"">>, <<"a", "b">>}]}
    \cup UNION {{[p \in shape |-> Edge(name[p], resource[p])] :
              name \in [shape -> {<<"a">>, <<"b">>}],
              resource \in [shape -> {"records", "r1", "r2"}]} : shape \in Shapes}
Related == {[Base EXCEPT !.forest = f] : f \in Forests}
    \cup {[Base EXCEPT !.forest = [p \in {<<1>>, <<1, 1>>} |->
              [name |-> <<"a">>, resource |-> "r" \o ToString(Len(p)), cost |-> c[p]]]] :
              c \in [{<<1>>, <<1, 1>>} -> {-1, 2, 3}]}

Ordered == {[Base EXCEPT !.sorts = s, !.defaultSort = d, !.pagination = p] :
      s \in UpTo({SortBy("a", "last", FALSE), SortBy("a", "", TRUE), SortBy("b", "odd", TRUE),
                  SortBy("b", "", TRUE)}, 2),
      d \in UpTo({Term("a", ""), Term("a", "last"), Term("b", "first"), Term("c", "odd")}, 2)
            \cup {<<Term("a", ""), Term("b", ""), Term("b", "")>>,
                  <<[Term("a", "") EXCEPT !.dir = ""]>>},
      p \in {Pages(FALSE, FALSE, 0, 0), Pages(TRUE, FALSE, 1, -1), Pages(FALSE, TRUE, 3, -1),
             Pages(TRUE, TRUE, 0, 0)}}

AllConfigs == Bounded \cup Headed \cup Listed \cup Related \cup Ordered
=============================================================================
