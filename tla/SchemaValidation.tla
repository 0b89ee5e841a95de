-------------------------- MODULE SchemaValidation --------------------------
(***************************************************************************)
(* NewSchema: what a declared schema must be before anything is compiled   *)
(* against it (src/schema.go:179-486).  The lists are checked one after    *)
(* the other; the relationship forest is walked depth first by             *)
(* indexRelationships, whose recursion is a list of calls still to make.   *)
(*                                                                         *)
(* A forest maps paths (sequences of child numbers) to relationships.  A   *)
(* relationship's name is the sequence of its parts between dots, so that  *)
(* joining names with a dot is \o and a valid name has one part; all other *)
(* names are values.                                                       *)
(***************************************************************************)
EXTENDS Violations, Integers, FiniteSets

CONSTANTS
    Configs,        \* the configurations NewSchema may be given
    ValidNames,     \* names of lowercase letters, digits and underscores
    DefaultBounds   \* [bounds -> their defaults]

ASSUME SchemaAssumption ==
    /\ IsFiniteSet(DOMAIN DefaultBounds)
    /\ \A b \in DOMAIN DefaultBounds : DefaultBounds[b] \in Nat \ {0}
    /\ {"MaxErrors", "MaxCost", "MaxSorts", "MaxPageSize"} \subseteq DOMAIN DefaultBounds
    /\ "" \notin ValidNames

IsList(x)           == x \in Seq(Range(x))
KidsIn(forest, at)  == {p \in DOMAIN forest : p # <<>> /\ Front(p) = at}

\* What the type RelationshipDefinition makes of every value of it: a relationship
\* has a parent or is at the top, siblings are numbered without gaps, and a name,
\* split at its dots, has at least one part.
IsForest(forest) ==
    /\ IsFiniteSet(DOMAIN forest)
    /\ \A p \in DOMAIN forest :
          /\ p \in Seq(Nat) /\ p # <<>>
          /\ \A n \in 1..(Len(p) - 1) : SubSeq(p, 1, n) \in DOMAIN forest
          /\ IsList(forest[p].name) /\ forest[p].name # <<>>
    /\ \A at \in {<<>>} \cup DOMAIN forest :
          KidsIn(forest, at) = {Append(at, i) : i \in 1..Cardinality(KidsIn(forest, at))}

ASSUME ConfigsAssumption == \A c \in Configs :
    /\ \A b \in DOMAIN DefaultBounds : c.bounds[b] \in Int
    /\ IsList(c.logic) /\ IsList(c.fields) /\ IsList(c.filters) /\ IsList(c.sorts)
    /\ \A f \in Range(c.filters) : IsList(f.operators)
    /\ IsForest(c.forest) /\ IsList(c.defaultSort) /\ c.pagination.maxOffset \in Int

VARIABLES
    config,         \* SchemaConfig
    phase,
    calls,          \* loop steps of indexRelationships still to make, innermost first
    index           \* schema.relationIndex: [full names -> path, depth]

svars == <<config, phase, calls, index, violations>>

Types == {"string", "int", "uint", "float", "bool", "time", "bytes"}
Logic == {"and", "or", "not"}
Nulls == {"first", "last"}

-----------------------------------------------------------------------------
\* normalizedBounds: what is not positive is replaced by the default.
Normalized(bounds) ==
    [b \in DOMAIN DefaultBounds |-> IF bounds[b] <= 0 THEN DefaultBounds[b] ELSE bounds[b]]

Limit(b) == Normalized(config.bounds)[b]
Report(codes) == violations' = Collected(Limit("MaxErrors"), codes)

ValidCost(d) == d.cost \in 0..Limit("MaxCost")
Repeated(list, i) == \E j \in 1..(i - 1) : list[j].name = list[i].name

SchemaInit ==
    /\ config \in Configs
    /\ phase = "header" /\ calls = <<>> /\ index = <<>> /\ violations = <<>>

-----------------------------------------------------------------------------
\* Bounds, identity and logic.  No logic at all means conjunction.

BoundFaults == LET negative == {b \in DOMAIN DefaultBounds : config.bounds[b] < 0}
               IN [i \in 1..Cardinality(negative) |-> "invalid_element"]

AllowedLogic == IF config.logic = <<>> THEN <<"and">> ELSE config.logic
LogicFaults == FlattenSeq([i \in DOMAIN AllowedLogic |->
    LET logic == AllowedLogic[i] IN
    Fault(logic \notin Logic, "invalid_element") \o
    Fault(logic \in Logic /\ \E j \in 1..(i - 1) : AllowedLogic[j] = logic, "conflict")])

Header ==
    /\ phase = "header"
    /\ Report(BoundFaults \o
              Fault(config.resource \notin ValidNames, "invalid_element") \o
              Fault(~config.revisionValid, "invalid_element") \o LogicFaults)
    /\ phase' = "fields"
    /\ UNCHANGED <<config, calls, index>>

-----------------------------------------------------------------------------
\* validateDefinitions, list by list.

DefinitionFaults(list, i) ==
    Fault(list[i].name \notin ValidNames \/ list[i].type \notin Types, "invalid_element") \o
    Fault(~ValidCost(list[i]), "invalid_element") \o
    Fault(Repeated(list, i), "conflict")

FieldFaults == FlattenSeq([i \in DOMAIN config.fields |-> DefinitionFaults(config.fields, i)])

Equality == {"eq", "ne", "in", "not_in"}
Ordering == {"lt", "lte", "gt", "gte", "between"}
Matching == {"contains", "starts_with", "ends_with"}

operatorSupportsType(op, type, nullable) ==
    \/ op \in Equality
    \/ op \in Ordering /\ type \notin {"bool", "bytes"}
    \/ op = "is_null" /\ nullable
    \/ op \in Matching /\ type = "string"

OperatorFaults(f) == FlattenSeq([i \in DOMAIN f.operators |->
    Fault(\E j \in 1..(i - 1) : f.operators[j] = f.operators[i], "conflict") \o
    Fault(~operatorSupportsType(f.operators[i], f.type, f.nullable), "unsupported_operation")])

FilterFaults == FlattenSeq([i \in DOMAIN config.filters |->
    LET f == config.filters[i] IN
    Fault(f.name \notin ValidNames \/ f.type \notin Types \/ f.operators = <<>>,
          "invalid_element") \o
    Fault(~ValidCost(f), "invalid_element") \o
    OperatorFaults(f) \o Fault(Repeated(config.filters, i), "conflict")])

SortFaults == FlattenSeq([i \in DOMAIN config.sorts |->
    Fault(config.sorts[i].nulls \notin Nulls \cup {""}, "invalid_element") \o
    DefinitionFaults(config.sorts, i)])

\* What one call of indexRelationships does for each relationship of its list.
Call(at, prefix, ancestors) == [at |-> at, prefix |-> prefix, ancestors |-> ancestors]
CallsBelow(parent, prefix, ancestors) ==
    [i \in 1..Cardinality(KidsIn(config.forest, parent)) |->
        Call(Append(parent, i), prefix, ancestors)]

Definitions ==
    /\ phase = "fields"
    /\ Report(FieldFaults \o FilterFaults \o SortFaults)
    /\ calls' = CallsBelow(<<>>, <<"">>, {config.resource})
    /\ phase' = "relationships"
    /\ UNCHANGED <<config, index>>

-----------------------------------------------------------------------------
\* The relationship forest.

Unprefixed(call) == config.forest[call.at].name                 \* mutant

FullName(call) ==
    IF call.prefix = <<"">> THEN config.forest[call.at].name
    ELSE call.prefix \o config.forest[call.at].name

RelationshipFaults(call) ==
    LET r == config.forest[call.at] IN
    Fault(r.name \notin {<<n>> : n \in ValidNames} \/ r.resource \notin ValidNames,
          "invalid_element") \o
    Fault(~ValidCost(r), "invalid_element") \o
    Fault(FullName(call) \in DOMAIN index, "conflict")

\* Two relationships of the same full name: the first stays in the index.
Indexed(call) == [n \in DOMAIN index \cup {FullName(call)} |->
    IF n \in DOMAIN index THEN index[n] ELSE [path |-> call.at, depth |-> Len(n)]]

NearestAncestor(call) == {config.forest[call.at].resource}      \* mutant
NextAncestors(call) == call.ancestors \cup {config.forest[call.at].resource}

\* A resource seen on the way from the root ends the descent.
Relationship ==
    LET call  == Head(calls)
        cycle == config.forest[call.at].resource \in call.ancestors IN
    /\ phase = "relationships" /\ calls # <<>>
    /\ Report(RelationshipFaults(call) \o Fault(cycle, "conflict"))
    /\ index' = Indexed(call)
    /\ calls' = IF cycle THEN Tail(calls)
                ELSE CallsBelow(call.at, FullName(call), NextAncestors(call)) \o Tail(calls)
    /\ UNCHANGED <<config, phase>>

-----------------------------------------------------------------------------
\* validatePagination.

Sorts(name)  == {i \in DOMAIN config.sorts : config.sorts[i].name = name}
SortOf(name) == config.sorts[CHOOSE i \in Sorts(name) : \A j \in Sorts(name) : i <= j]
IsTie(name)  == Sorts(name) # {} /\ SortOf(name).tie
TieBreakers  == {i \in DOMAIN config.sorts : config.sorts[i].tie}

PageFaults ==
    LET p == config.pagination IN
    Fault(p.defaultSize \notin 1..Limit("MaxPageSize"), "invalid_element") \o
    Fault(p.offset /\ p.maxOffset < 0, "invalid_element") \o
    Fault(p.cursor /\ Cardinality(TieBreakers) # 1, "conflict")

DefaultSortFaults == FlattenSeq([i \in DOMAIN config.defaultSort |->
    LET term == config.defaultSort[i] IN
    Fault(Sorts(term.name) = {} \/ term.dir \notin {"asc", "desc"}, "invalid_element") \o
    Fault(term.nulls \notin Nulls \cup {""}, "invalid_element") \o
    Fault(Sorts(term.name) # {} /\ term.nulls \in Nulls \ {SortOf(term.name).nulls},
          "unsupported_operation") \o
    Fault(Repeated(config.defaultSort, i), "conflict")])

NoRoomLeft ==                                                   \* mutant
    /\ config.pagination.cursor
    /\ Len(config.defaultSort) > Limit("MaxSorts")
    /\ \A i \in DOMAIN config.defaultSort : ~IsTie(config.defaultSort[i].name)

\* A cursor page appends the tie-breaker to a default sort that lacks it.
NoRoom ==
    /\ config.pagination.cursor
    /\ Len(config.defaultSort) >= Limit("MaxSorts")
    /\ \A i \in DOMAIN config.defaultSort : ~IsTie(config.defaultSort[i].name)

Pagination ==
    LET enabled == config.pagination.cursor \/ config.pagination.offset IN
    /\ phase = "relationships" /\ calls = <<>>
    /\ Report(Fault(Len(config.defaultSort) > Limit("MaxSorts"), "invalid_element") \o
              (IF enabled THEN PageFaults ELSE <<>>) \o
              DefaultSortFaults \o Fault(NoRoom, "conflict"))
    /\ phase' = "done"
    /\ UNCHANGED <<config, calls, index>>

SchemaNext == Header \/ Definitions \/ Relationship \/ Pagination
SchemaSpec == SchemaInit /\ [][SchemaNext]_svars

-----------------------------------------------------------------------------
\* NewSchema returns the schema only if nothing was reported.
Accepted == phase = "done" /\ violations = <<>>

\* What the walk has gathered when it reaches a relationship is what a reader
\* of the whole path would: the prefix joins the names from the root, and the
\* ancestors are the resources on the way, no two of them alike.  So a descent
\* is never deeper than there are resources, however deep the declaration is
\* (schema.go:359-391).
Above(at) == {SubSeq(at, 1, n) : n \in 1..(Len(at) - 1)}
Resources == {config.resource} \cup {config.forest[p].resource : p \in DOMAIN config.forest}

DescentIsAcyclic == \A i \in DOMAIN calls :
    LET at == calls[i].at IN
    /\ calls[i].ancestors = {config.resource} \cup {config.forest[p].resource : p \in Above(at)}
    /\ Cardinality(calls[i].ancestors) = Len(at)
    /\ Len(at) <= Cardinality(Resources)

\* The index of an accepted schema answers for every declared relationship by
\* its dotted path and for nothing else, at the depth the compiler bounds
\* (schema.go:372-378; used at compile.go:196-216).
PathNames(at) == [n \in DOMAIN at |-> config.forest[SubSeq(at, 1, n)].name[1]]
IndexComplete == Accepted =>
    /\ DOMAIN index = {PathNames(p) : p \in DOMAIN config.forest}
    /\ \A p \in DOMAIN config.forest : index[PathNames(p)] = [path |-> p, depth |-> Len(p)]

\* The declaration a reader of the documentation would call valid (docs/api.md:8-39),
\* stated without the order of the checks, the indexes or the walk.
Distinct(list) == \A i, j \in DOMAIN list : list[i].name = list[j].name => i = j
DefinedFor(type, nullable) ==
    Equality \cup (IF nullable THEN {"is_null"} ELSE {}) \cup
    (CASE type = "string" -> Ordering \cup Matching
       [] type \in {"bool", "bytes"} -> {}
       [] OTHER -> Ordering)

WellFormedLists ==
    /\ \A list \in {config.fields, config.filters, config.sorts} :
          /\ Distinct(list)
          /\ \A d \in Range(list) : d.name \in ValidNames /\ d.type \in Types /\ ValidCost(d)
    /\ \A f \in Range(config.filters) :
          /\ f.operators # <<>> /\ IsInjective(f.operators)
          /\ Range(f.operators) \subseteq DefinedFor(f.type, f.nullable)
    /\ \A s \in Range(config.sorts) : s.nulls \in {"", "first", "last"}
    /\ IsInjective(config.logic) /\ Range(config.logic) \subseteq Logic

WellFormedForest ==
    /\ \A p \in DOMAIN config.forest :
          /\ Len(config.forest[p].name) = 1 /\ config.forest[p].name[1] \in ValidNames
          /\ config.forest[p].resource \in ValidNames /\ ValidCost(config.forest[p])
          /\ config.forest[p].resource # config.resource
          /\ \A q \in Above(p) : config.forest[q].resource # config.forest[p].resource
    /\ \A p, q \in DOMAIN config.forest :
          Front(p) = Front(q) /\ config.forest[p].name = config.forest[q].name => p = q

WellFormedPages ==
    LET terms == config.defaultSort
        total == Len(terms) + (IF /\ config.pagination.cursor
                                  /\ \A i \in DOMAIN terms : ~IsTie(terms[i].name)
                               THEN 1 ELSE 0) IN
    /\ total <= Limit("MaxSorts") /\ Distinct(terms)
    /\ \A t \in Range(terms) : \E d \in Range(config.sorts) :
          d.name = t.name /\ t.nulls \in {"", d.nulls} /\ t.dir \in {"asc", "desc"}
    /\ config.pagination.cursor => \E i \in DOMAIN config.sorts : TieBreakers = {i}
    /\ config.pagination.cursor \/ config.pagination.offset =>
          config.pagination.defaultSize \in 1..Limit("MaxPageSize")
    /\ config.pagination.offset => config.pagination.maxOffset >= 0

WellFormed ==
    /\ \A b \in DOMAIN DefaultBounds : config.bounds[b] >= 0
    /\ config.resource \in ValidNames /\ config.revisionValid
    /\ WellFormedLists /\ WellFormedForest /\ WellFormedPages

\* NewSchema accepts the well-formed declarations and no others: a cycle that
\* cuts the walk short, a duplicate kept out of an index or a full list of
\* violations never makes a bad declaration look good (schema.go:179-236).
AcceptsExactly == phase = "done" => (violations = <<>> <=> WellFormed)
=============================================================================
