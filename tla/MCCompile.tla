----------------------------- MODULE MCCompile -----------------------------
(***************************************************************************)
(* One schema with every kind of declaration, bounds of two or three, and  *)
(* requests that vary one group of their parts at a time around a valid    *)
(* one: the phases meet only in the violations, the bill and the answers.  *)
(***************************************************************************)
EXTENDS Compile, FiniteSets, TLC

F(n, d, r, x, c) == [name |-> n, default |-> d, required |-> r, deprecated |-> x, cost |-> c]
MCFields == << F("id", TRUE, TRUE, FALSE, 1), F("title", TRUE, FALSE, FALSE, 2),
               F("old", FALSE, FALSE, TRUE, 1), F("owner", FALSE, TRUE, FALSE, 1) >>

MCRelations == <<"author">> :> [cost |-> 1] @@ <<"author", "team">> :> [cost |-> 2] @@
               <<"author", "team", "org">> :> [cost |-> 0]

MCFilters == "name" :> [operators |-> {"eq", "in"}, type |-> "string", deprecated |-> FALSE,
                        allowEmpty |-> FALSE, cost |-> 6] @@
             "old"  :> [operators |-> {"eq"}, type |-> "string", deprecated |-> TRUE,
                        allowEmpty |-> FALSE, cost |-> 0]

S(n, d, u) == [name |-> n, dir |-> d, nulls |-> u]
MCSortDefs == << [name |-> "age", type |-> "int", nulls |-> "first", tie |-> FALSE, cost |-> 1],
                 [name |-> "rank", type |-> "int", nulls |-> "last", tie |-> FALSE, cost |-> 0],
                 [name |-> "key", type |-> "string", nulls |-> "", tie |-> TRUE, cost |-> 1] >>
MCDefaultSort == << S("age", "desc", "") >>
MCPagination == [cursor |-> TRUE, offset |-> TRUE, defaultSize |-> 2, maxOffset |-> 1]

Pos(t) == [type |-> t, bytes |-> 1]
MCDecoderStates ==
    {[direction |-> d, positions |-> ps, policyBytes |-> 0] :
        d \in {"forward", "backward"},
        ps \in {<<Pos("int")>>, <<Pos("int"), Pos("string")>>, <<Pos("null"), Pos("int")>>}}

Pg(m, n, o, a, b) == [mode |-> m, size |-> n, offset |-> o, after |-> a, before |-> b]
Pages == {Pg("", 0, 0, NoCursor, NoCursor), Pg("none", 0, 0, "t", NoCursor),
          Pg("cursor", 0, 0, NoCursor, NoCursor), Pg("cursor", 1, 0, "t", NoCursor),
          Pg("cursor", 1, 0, NoCursor, "t"), Pg("cursor", 1, 1, "t", "t"),
          Pg("cursor", 9, 0, "oversized", NoCursor), Pg("offset", 1, 1, NoCursor, NoCursor),
          Pg("offset", -1, 2, NoCursor, "oversized"), Pg("keyset", 1, 0, NoCursor, NoCursor)}

FieldLists   == {Absent, <<>>, <<"title">>, <<"title", "title">>, <<"old", "nope">>,
                 <<"id", "title", "owner", "title">>}
IncludeLists == {Absent, << <<"author", "team">> >>,
                 << <<"author">>, <<"author", "team">> >>,
                 << <<"author", "team">>, <<"author">> >>, << <<"author">>, <<"author">> >>,
                 << <<"author", "team", "org">>, <<"nope">>, <<"author">> >>}
SortLists    == {Absent, <<>>, << S("key", "asc", "") >>,
                 << S("age", "asc", "first"), S("key", "desc", "") >>,
                 << S("rank", "asc", ""), S("age", "desc", "") >>,
                 << S("age", "up", ""), S("age", "asc", "") >>,
                 << S("nope", "asc", ""), S("age", "asc", "last"), S("key", "asc", "any") >>}

Text(b) == [type |-> "string", bytes |-> b]
Test(name, op, values) == [pred |-> [name |-> name, op |-> op, values |-> values], logic |-> ""]
Eq    == Test("name", "eq", <<Text(1)>>)
Among == Test("name", "in", <<Text(1)>>)
And   == [pred |-> NoPredicate, logic |-> "and"]
Both(l, r) == << >> :> And @@ <<1>> :> l @@ <<2>> :> r
MCTrees == {<< >>, << >> :> Eq, Both(Eq, Eq), Both(Eq, Among)}
FaultyTrees ==
    {Both(Eq, Test("nope", "eq", <<Text(1)>>)), Both(Test("old", "eq", <<Text(1)>>), Eq),
     Both(Eq, Test("name", "in", <<Text(0), Text(1), Text(2)>>)), << >> :> And,
     Both(And, Eq) @@ <<1, 1>> :> Eq @@ <<1, 2>> :> Among}
AllTrees == MCTrees \cup FaultyTrees

Constraints == {<<>>, <<[name |-> "tenant", valid |-> TRUE, bytes |-> 1]>>,
                <<[name |-> "tenant", valid |-> TRUE, bytes |-> 9],
                  [name |-> "tenant", valid |-> FALSE, bytes |-> 1],
                  [name |-> "region", valid |-> TRUE, bytes |-> 1],
                  [name |-> "shard", valid |-> TRUE, bytes |-> 1]>>}

Base == [revisionMatches |-> TRUE, constraints |-> <<>>, fields |-> <<>>, includes |-> Absent,
         filter |-> << >>, sorts |-> Absent, page |-> Pg("", 0, 0, NoCursor, NoCursor),
         hasDecoder |-> TRUE]

MCRequests ==
    {[Base EXCEPT !.fields = f, !.constraints = c, !.revisionMatches = r] :
        f \in FieldLists, c \in Constraints, r \in BOOLEAN} \cup
    {[Base EXCEPT !.fields = f, !.includes = i, !.filter = t, !.sorts = s] :
        f \in FieldLists, i \in IncludeLists, t \in MCTrees, s \in SortLists} \cup
    {[Base EXCEPT !.fields = f, !.filter = t] : f \in FieldLists, t \in FaultyTrees} \cup
    {[Base EXCEPT !.sorts = s, !.page = p, !.hasDecoder = d, !.filter = t] :
        s \in SortLists, p \in Pages, d \in BOOLEAN, t \in MCTrees}
=============================================================================
