------------------------------ MODULE Postgres ------------------------------
(***************************************************************************)
(* The PostgreSQL adapter (src/adapters/postgres/postgres.go): a mapping   *)
(* is validated, then a plan becomes fragments of SQL whose $n are bound   *)
(* by position.  The condition is its list of tokens, <<keyword>>,         *)
(* <<"column", identifier>> or <<"$", n>>; commas are left out.  The       *)
(* recursion over the filter is a list of what is still to be written.     *)
(* Operands of LIKE are sequences of characters.                           *)
(***************************************************************************)
EXTENDS Naturals, Sequences, FiniteSets, SequencesExt

CONSTANTS
    Mappings,       \* what NewCompiler may be given: names -> identifiers
    ValidIdentifiers,
    Plans,          \* fields, constraints, filter, sorts of a compiled plan
    Subjects        \* texts a LIKE may be asked about

VARIABLES mapping, plan, parts, rest, phase

pvars == <<mapping, plan, parts, rest, phase>>

Word(w)   == <<w>>
Column(c) == <<"column", c>>
Node(at)  == <<"node", at>>
Mandatory(i) == <<"constraint", i>>

NoParts == [projection |-> <<>>, where |-> <<>>, orderBy |-> <<>>, arguments |-> <<>>]

PInit ==
    /\ mapping \in Mappings /\ plan \in Plans
    /\ parts = NoParts /\ rest = <<>> /\ phase = "new"

\* ErrInvalid comes with zero QueryParts, whatever was already written.
Invalid == parts' = NoParts /\ rest' = <<>> /\ phase' = "invalid"

-----------------------------------------------------------------------------
\* NewCompiler.  The mapping is a record of four maps from names to identifiers.

ValidMapping == \A kind \in DOMAIN mapping : \A n \in DOMAIN mapping[kind] :
    n # "" /\ mapping[kind][n] \in ValidIdentifiers

NewCompiler ==
    /\ phase = "new"
    /\ IF ValidMapping THEN phase' = "projection" /\ UNCHANGED <<parts, rest>>
                       ELSE Invalid
    /\ UNCHANGED <<mapping, plan>>

-----------------------------------------------------------------------------
\* The condition: "(" the constraints ")" AND "(" the filter ")", each if any.

Interleaved(list, word) ==
    FlattenSeq([i \in DOMAIN list |-> IF i = 1 THEN list[i] ELSE <<Word(word)>> \o list[i]])
Enclosed(items) == <<Word("(")>> \o items \o <<Word(")")>>

NoFilter == DOMAIN plan.filter = {}
Conjuncts ==
    (IF plan.constraints = <<>> THEN <<>>
     ELSE <<Enclosed(Interleaved([i \in DOMAIN plan.constraints |-> <<Mandatory(i)>>], "AND"))>>) \o
    (IF NoFilter THEN <<>> ELSE <<Enclosed(<<Node(<<>>)>>)>>)

Projection ==
    /\ phase = "projection"
    /\ IF Range(plan.fields) \subseteq DOMAIN mapping.fields
       THEN /\ parts' = [parts EXCEPT !.projection =
                            [i \in DOMAIN plan.fields |-> mapping.fields[plan.fields[i]]]]
            /\ rest' = Interleaved(Conjuncts, "AND")
            /\ phase' = "where"
       ELSE Invalid
    /\ UNCHANGED <<mapping, plan>>

NumberedAlone(i) == <<"$", i>>                                  \* mutant
\* addArgument: the i-th of the values being added gets the next free number.
Placeholder(i) == <<"$", Len(parts.arguments) + i>>

Write(tokens, values, later) ==
    /\ parts' = [parts EXCEPT !.where = @ \o tokens, !.arguments = @ \o values]
    /\ rest' = later \o Tail(rest)
    /\ UNCHANGED phase

Writing(kind) == phase = "where" /\ rest # <<>> /\ Head(rest)[1] = kind

Text ==
    /\ phase = "where" /\ rest # <<>> /\ Len(Head(rest)) = 1
    /\ Write(<<Head(rest)>>, <<>>, <<>>)
    /\ UNCHANGED <<mapping, plan>>

Constraint ==
    LET c == plan.constraints[Head(rest)[2]] IN
    /\ Writing("constraint")
    /\ IF c.name \in DOMAIN mapping.constraints
       THEN Write(<<Column(mapping.constraints[c.name]), Word("="), Placeholder(1)>>,
                  <<c.value>>, <<>>)
       ELSE Invalid
    /\ UNCHANGED <<mapping, plan>>

-----------------------------------------------------------------------------
\* compileFilter.

Comparison == [eq |-> "=", ne |-> "<>", lt |-> "<", lte |-> "<=", gt |-> ">", gte |-> ">="]
Patterned  == {"contains", "starts_with", "ends_with"}

Replaced(text, char, by) ==
    FlattenSeq([i \in DOMAIN text |-> IF text[i] = char THEN by ELSE <<text[i]>>])

EscapedLast(text) ==                                            \* mutant
    Replaced(Replaced(Replaced(text, "%", <<"\\", "%">>), "_", <<"\\", "_">>),
               "\\", <<"\\", "\\">>)

escapeLike(text) ==
    Replaced(Replaced(Replaced(text, "\\", <<"\\", "\\">>), "%", <<"\\", "%">>),
               "_", <<"\\", "_">>)

Pattern(op, text) ==
    (IF op = "starts_with" THEN <<>> ELSE <<"%">>) \o escapeLike(text) \o
    (IF op = "ends_with" THEN <<>> ELSE <<"%">>)

Bound(p) == IF p.op \in Patterned THEN <<Pattern(p.op, p.values[1])>>
            ELSE IF p.op = "is_null" THEN <<>> ELSE p.values

Condition(p) ==
    LET all == [i \in DOMAIN p.values |-> Placeholder(i)] IN
    CASE p.op = "is_null"        -> <<Word("IS NULL")>>
      [] p.op = "between"        -> <<Word("BETWEEN"), Placeholder(1), Word("AND"), Placeholder(2)>>
      [] p.op = "in"             -> <<Word("IN")>> \o Enclosed(all)
      [] p.op = "not_in"         -> <<Word("NOT IN")>> \o Enclosed(all)
      [] p.op \in Patterned      -> <<Word("LIKE"), Placeholder(1)>>
      [] OTHER                   -> <<Word(Comparison[p.op]), Placeholder(1)>>

IsLeaf(at) == plan.filter[at].logic = ""
Operators == {"is_null", "between", "in", "not_in"} \cup Patterned \cup DOMAIN Comparison

Predicate ==
    LET p == plan.filter[Head(rest)[2]].pred IN
    /\ Writing("node") /\ IsLeaf(Head(rest)[2])
    /\ IF p.name \in DOMAIN mapping.filters /\ p.op \in Operators
       THEN Write(<<Column(mapping.filters[p.name])>> \o Condition(p), Bound(p), <<>>)
       ELSE Invalid
    /\ UNCHANGED <<mapping, plan>>

Children(at) ==
    LET kids == {p \in DOMAIN plan.filter : p # <<>> /\ Front(p) = at}
    IN SetToSortSeq(kids, LAMBDA p, q : Last(p) < Last(q))

Bare(at)     == <<Node(at)>>                                    \* mutant
Operand(at)  == Enclosed(<<Node(at)>>)

Group ==
    LET at       == Head(rest)[2]
        logic    == plan.filter[at].logic
        operands == [i \in DOMAIN Children(at) |-> Operand(Children(at)[i])] IN
    /\ Writing("node") /\ ~IsLeaf(at)
    /\ CASE logic = "or"  -> Write(<<>>, <<>>, Interleaved(operands, "OR"))
         [] logic = "and" -> Write(<<>>, <<>>, Interleaved(operands, "AND"))
         [] logic = "not" -> Write(<<Word("NOT")>>, <<>>, Head(operands))
         [] OTHER         -> Invalid
    /\ UNCHANGED <<mapping, plan>>

-----------------------------------------------------------------------------
OrderBy ==
    LET term(s) == [column |-> mapping.sorts[s.name], dir |-> s.dir, nulls |-> s.nulls] IN
    /\ phase = "where" /\ rest = <<>>
    /\ IF \A s \in Range(plan.sorts) : s.name \in DOMAIN mapping.sorts
       THEN /\ parts' = [parts EXCEPT !.orderBy =
                            [i \in DOMAIN plan.sorts |-> term(plan.sorts[i])]]
            /\ phase' = "done" /\ UNCHANGED rest
       ELSE Invalid
    /\ UNCHANGED <<mapping, plan>>

PNext == NewCompiler \/ Projection \/ Text \/ Constraint \/ Predicate \/ Group \/ OrderBy
PSpec == PInit /\ [][PNext]_pvars

-----------------------------------------------------------------------------
\* A reader of SQL conditions: OR binds loosest, then AND, then NOT; BETWEEN
\* takes the AND that follows it.  Read(t, row, level) is the truth of the
\* longest prefix of t at a level, and what is left.  A row says which facts
\* hold of it; a fact is a column, an operator and the values bound to it.

Fact(c, op, values) == <<c, op, values>>
ArgumentOf(token) == parts.arguments[token[2]]
OneValue(w) == w = "LIKE" \/ \E op \in DOMAIN Comparison : Comparison[op] = w

ReadFact(t) ==
    LET w     == t[2][1]
        close == CHOOSE i \in DOMAIN t : t[i] = Word(")") /\ \A j \in 1..(i - 1) : t[j] # Word(")")
        list  == SubSeq(t, 4, close - 1)
        fact(values) == Fact(t[1][2], w, values) IN
    CASE w = "IS NULL"  -> <<fact(<<>>), SubSeq(t, 3, Len(t))>>
      [] w = "BETWEEN"  -> <<fact(<<ArgumentOf(t[3]), ArgumentOf(t[5])>>), SubSeq(t, 6, Len(t))>>
      [] OneValue(w)    -> <<fact(<<ArgumentOf(t[3])>>), SubSeq(t, 4, Len(t))>>
      [] OTHER          -> <<fact([i \in DOMAIN list |-> ArgumentOf(list[i])]),
                             SubSeq(t, close + 1, Len(t))>>

RECURSIVE Read(_, _, _), More(_, _, _)
Read(t, row, level) ==
    CASE level \in {"OR", "AND"} ->
             More(Read(t, row, IF level = "OR" THEN "AND" ELSE "NOT"), row, level)
      [] t[1] = Word("NOT") ->
             LET r == Read(Tail(t), row, "NOT") IN <<~r[1], r[2]>>
      [] t[1] = Word("(") ->
             LET r == Read(Tail(t), row, "OR") IN <<r[1], Tail(r[2])>>
      [] t[1] = Word("TRUE") -> <<TRUE, Tail(t)>>
      [] OTHER ->
             LET r == ReadFact(t) IN <<r[1] \in row, r[2]>>
More(left, row, level) ==
    IF left[2] = <<>> \/ Head(left[2]) # Word(level) THEN left
    ELSE LET right == Read(Tail(left[2]), row, IF level = "OR" THEN "AND" ELSE "NOT")
             both  == IF level = "OR" THEN left[1] \/ right[1] ELSE left[1] /\ right[1]
         IN More(<<both, right[2]>>, row, level)

Truth(where, row) == IF where = <<>> THEN TRUE ELSE Read(where, row, "OR")[1]

\* What the plan asks for, without any text.
PredicateFact(p) ==
    LET op == CASE p.op = "is_null" -> "IS NULL" [] p.op = "between" -> "BETWEEN"
                [] p.op = "in" -> "IN" [] p.op = "not_in" -> "NOT IN"
                [] p.op \in Patterned -> "LIKE" [] OTHER -> Comparison[p.op]
    IN Fact(mapping.filters[p.name], op, Bound(p))
ConstraintFact(c) == Fact(mapping.constraints[c.name], "=", <<c.value>>)

RECURSIVE Holds(_, _)
Holds(at, row) ==
    LET kids == {p \in DOMAIN plan.filter : p # <<>> /\ Front(p) = at}
        n    == plan.filter[at] IN
    CASE IsLeaf(at)      -> PredicateFact(n.pred) \in row
      [] n.logic = "and" -> \A p \in kids : Holds(p, row)
      [] n.logic = "or"  -> \E p \in kids : Holds(p, row)
      [] OTHER           -> \E p \in kids : ~Holds(p, row)

Leaves == {p \in DOMAIN plan.filter : IsLeaf(p)}
Facts  == {ConstraintFact(c) : c \in Range(plan.constraints)} \cup
          {PredicateFact(plan.filter[p].pred) : p \in Leaves}

-----------------------------------------------------------------------------
\* A row satisfies the condition exactly if it satisfies every constraint and
\* the filter: no parenthesis is missing where AND, OR, NOT and BETWEEN meet, no
\* client's OR gets around a constraint, none is left out for want of a mapping,
\* and every $n stands for the value it was written for.  A plan that cannot be
\* written has no parts, however far the walk had come (postgres.go:66-126,
\* 128-190).
WhereMeansPlan ==
    /\ phase = "invalid" => parts = NoParts
    /\ phase = "done" => \A row \in SUBSET Facts :
          Truth(parts.where, row) <=>
              /\ \A c \in Range(plan.constraints) : ConstraintFact(c) \in row
              /\ NoFilter \/ Holds(<<>>, row)

\* At every step of the walk the placeholders written are 1, 2, 3 and so on, as
\* many as there are arguments: each is bound once, in the order of the text
\* (postgres.go:96-98, 200-203).
BoundInOrder ==
    SelectSeq(parts.where, LAMBDA t : t[1] = "$") =
        [i \in DOMAIN parts.arguments |-> <<"$", i>>]

\* LIKE with the escape \: % is any text, _ any one character.
Like(text, pattern) ==
    LET m[i \in 0..Len(text), j \in 0..Len(pattern)] ==     \* first i against first j
        IF j = 0 THEN i = 0
        ELSE LET escaped == Cardinality({k \in 1..(j - 1) :
                     \A l \in k..(j - 1) : pattern[l] = "\\"}) % 2 = 1
                 c == pattern[j] IN
             IF escaped THEN i > 0 /\ text[i] = c /\ m[i - 1, j - 2]
             ELSE IF c = "%" THEN m[i, j - 1] \/ (i > 0 /\ m[i - 1, j])
             ELSE i > 0 /\ (c = "_" \/ text[i] = c) /\ m[i - 1, j - 1]
    IN m[Len(text), Len(pattern)]

Matches(op, text, operand) ==
    CASE op = "contains"    -> \E i \in 0..Len(text) : IsPrefix(operand, SubSeq(text, i + 1, Len(text)))
      [] op = "starts_with" -> IsPrefix(operand, text)
      [] OTHER              -> IsSuffix(operand, text)

\* The pattern bound for contains, starts_with and ends_with matches a text
\* exactly if the operand is found there literally, whatever wildcards and
\* escapes it is made of (postgres.go:153-162, 205-209).
LikeIsLiteral == phase = "done" => \A p \in Leaves :
    LET pred == plan.filter[p].pred IN
    pred.op \in Patterned =>
        \E i \in DOMAIN parts.arguments : \A text \in Subjects :
            Like(text, parts.arguments[i]) <=> Matches(pred.op, text, pred.values[1])
=============================================================================
