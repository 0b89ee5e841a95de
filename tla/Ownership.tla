----------------------------- MODULE Ownership ------------------------------
(***************************************************************************)
(* Who may write into what.  Slices, maps and pointers of Go are shared    *)
(* when their holder is copied, so every object that promises not to       *)
(* change - a schema, a plan, a request builder, a PostgreSQL compiler, a  *)
(* keyring, a list of violations - takes copies of what it is given and    *)
(* hands out copies of what it keeps.                                      *)
(*                                                                         *)
(* An object is a function from its components to cells, the arrays and    *)
(* maps behind them.  A call of the library makes one object of others: a  *)
(* copied component gets a cell of its own, a borrowed one the cell of its *)
(* source.  What only holds values (bounds, pagination, page) is left out, *)
(* and so is Schema.relationships below its first level, which nothing     *)
(* reads after NewSchema.  A call is one step: its inputs must not change  *)
(* during it (src/docs/api.md:73).                                         *)
(***************************************************************************)
EXTENDS Naturals

CONSTANTS MaxWrites    \* bound on the program's writes

ASSUME OwnershipAssumption == MaxWrites \in Nat

\* A component of a nested array is one of its own: operators of filters,
\* nested relationships, values and children of a filter expression, what the
\* items of a page point to.
Components == {"fields", "includes", "sorts", "filters", "operators", "relationships",
               "nested", "defaultSort", "logic", "values", "children", "constraints",
               "positions", "family", "mapping", "secret", "items", "pointees"}

SchemaParts   == {"fields", "filters", "operators", "sorts", "relationships", "nested",
                  "defaultSort", "logic"}
FilterParts   == {"values", "children"}
RequestParts  == {"fields", "includes", "sorts"} \cup FilterParts
PlanParts     == RequestParts \cup {"constraints", "positions"}

\* What the program is holding to begin with, and what that has.
Given == [config      |-> SchemaParts, definitions |-> SchemaParts,
          args        |-> RequestParts, params     |-> RequestParts,
          query       |-> RequestParts \cup {"family"},
          options     |-> {"constraints"}, state   |-> {"positions"},
          mapping     |-> {"mapping"},   keys      |-> {"secret"},
          collector   |-> {"items"},     rows      |-> {"items", "pointees"}]

\* Objects of the library that promise not to change, and the others that
\* calls make, which the program may write into like its own.
Kept == {"schema", "builder", "plan", "compiler", "keyring", "violations"}
Made == {"schemaBuilder", "request", "handedFamily", "handedSorts", "answer", "again",
         "inflight", "listed", "page"}
Objects == DOMAIN Given \cup Kept \cup Made

VARIABLES
    cell,         \* object that is there -> its component -> cell
    content,      \* cell -> how often it was written into
    born,         \* object -> its component -> content when it was made (history)
    writes        \* bound's counter

ovars == <<cell, content, born, writes>>

Held(o)  == o \in DOMAIN cell
Parts(o) == IF Held(o) THEN DOMAIN cell[o] ELSE {}
Now(o)   == [c \in Parts(o) |-> content[cell[o][c]]]

-----------------------------------------------------------------------------
\* One object made of others: source names the object each component comes from.

Extended(f, x, v) == [y \in DOMAIN f \cup {x} |-> IF y = x THEN v ELSE f[y]]

Make(object, source, copied, borrowed) ==
    LET parts == {c \in copied \cup borrowed : c \in Parts(source[c])}
        was(c) == cell[source[c]][c]
        fresh == {<<object, c>> : c \in copied \cap parts} IN
    /\ ~Held(object) /\ \A c \in copied \cup borrowed : Held(source[c])
    /\ cell' = Extended(cell, object, [c \in parts |-> IF c \in copied THEN <<object, c>> ELSE was(c)])
    /\ content' = [x \in fresh \cup DOMAIN content |->
                      IF x \in fresh THEN content[was(x[2])] ELSE content[x]]
    /\ born' = Extended(born, object, [c \in parts |-> content[was(c)]])
    /\ UNCHANGED writes

From(object) == [c \in Components |-> object]

\* The deep copy of a filter expression: of the root package, of the JSON-RPC
\* adapter and of apiquerytest.
cloneFilter     == FilterParts
rpcCloneFilter  == FilterParts
testCloneFilter == FilterParts

SharedOperators == {"filters"}                                  \* mutant
cloneFilters      == {"filters", "operators"}
cloneRelationship == {"relationships", "nested"}
SchemaCopies == {"fields", "sorts", "defaultSort", "logic"} \cup cloneFilters \cup cloneRelationship
NewSchema == \E o \in {"config", "schemaBuilder"} :
    Make("schema", From(o), SchemaCopies, SchemaParts \ SchemaCopies)

\* apiquerytest.SchemaBuilder appends each definition to slices of its own;
\* what is nested in one stays the caller's until MustBuild.
BuildSchema == Make("schemaBuilder", From("definitions"),
                    {"fields", "filters", "sorts", "relationships"}, {"operators", "nested"})

\* apiquerytest.RequestBuilder: its setters, and Build.
SetRequest == Make("builder", From("args"), RequestParts \ {"children"}, {})

BuildCopies == {"fields", "includes", "sorts"} \cup testCloneFilter
Build == Make("request", From("builder"), BuildCopies, RequestParts \ BuildCopies)

\* Present does not copy: a request put together by hand is the caller's own.
Present == Make("request", From("args"), {}, RequestParts)

ParamsRequest == Make("request", From("params"),
                      {"fields", "includes", "sorts"} \cup rpcCloneFilter, FilterParts \ rpcCloneFilter)

\* The bridge copies the query's lists and lends the filter that the decoder
\* returned; the decoder gets a copy of the family.
FromQuery == Make("request", From("query"), {"fields", "includes", "sorts"}, FilterParts)

HandFamily == {}                                                \* mutant
cloneFamily == {"family"}
DecodeFamily == Make("handedFamily", From("query"), cloneFamily, {"family"} \ cloneFamily)

\* Compile takes what it keeps from the request, the options and the decoder's
\* state; the decoder gets a copy of the sorts.
PlanSources == [c \in Components |-> CASE c = "constraints" -> "options"
                                       [] c = "positions"   -> "state"
                                       [] OTHER             -> "request"]

PlanCopies == PlanParts \ (FilterParts \ cloneFilter)
Compile == Held("schema") /\ Make("plan", PlanSources, PlanCopies, PlanParts \ PlanCopies)

HandedCopies == {"sorts"}
DecodeCursor == Make("handedSorts", From("plan"), HandedCopies, {"sorts"} \ HandedCopies)

\* The accessors of a plan.
Accessors == PlanParts \ (FilterParts \ cloneFilter)
Read == \E answer \in {"answer", "again"} :
    Make(answer, From("plan"), Accessors, PlanParts \ Accessors)

cloneMap == {"mapping"}
NewCompiler == Make("compiler", From("mapping"), cloneMap, {"mapping"} \ cloneMap)

\* Rotate copies secrets in, activeKey and key copy them out.
Rotate    == Make("keyring", From("keys"), {"secret"}, {})
ActiveKey == Make("inflight", From("keyring"), {"secret"}, {})

Err   == Make("violations", From("collector"), {"items"}, {})
Items == Make("listed", From("violations"), {"items"}, {})

\* The copy of a page's items is shallow.
BuildPage == Make("page", From("rows"), {"items"}, {"pointees"})

-----------------------------------------------------------------------------
\* One program uses one part of the library at a time.
Programs == {{"config"}, {"definitions"}, {"config", "args", "options", "state"},
             {"config", "params", "options", "state"}, {"config", "query", "options", "state"},
             {"mapping"}, {"keys"}, {"collector"}, {"rows"}}

OwnershipInit ==
    /\ \E program \in Programs :
          /\ cell = [o \in program |-> [c \in Given[o] |-> <<o, c>>]]
          /\ content = [x \in UNION {{o} \X Given[o] : o \in program} |-> 0]
          /\ born = [o \in program |-> [c \in Given[o] |-> 0]]
    /\ writes = 0

\* The program writes into whatever it holds.
Write(o, c) ==
    /\ writes < MaxWrites /\ o \notin Kept /\ c \in Parts(o)
    /\ content' = [content EXCEPT ![cell[o][c]] = @ + 1]
    /\ writes' = writes + 1 /\ UNCHANGED <<cell, born>>

Calls == \/ NewSchema \/ BuildSchema \/ SetRequest \/ Build \/ Present \/ ParamsRequest
         \/ FromQuery \/ DecodeFamily \/ Compile \/ DecodeCursor \/ Read \/ NewCompiler
         \/ Rotate \/ ActiveKey \/ Err \/ Items \/ BuildPage

OwnershipNext == Calls \/ \E o \in Objects, c \in Components : Write(o, c)

OwnershipSpec == OwnershipInit /\ [][OwnershipNext]_ovars

-----------------------------------------------------------------------------
\* Whatever the program writes, before or after, into its configuration, its
\* arguments, a request or an answer, what the library keeps is as it was made
\* (src/schema.go:175, src/compile.go:72, src/errors.go:58, src/cursor/cursor.go:94,
\* src/adapters/postgres/postgres.go:48, src/apiquerytest/apiquerytest.go:74).
KeptFrozen == \A o \in Kept : Held(o) => Now(o) = born[o]

\* Two objects share a component only where the documentation says that it is
\* borrowed (src/types.go:170-178, src/adapters/jsonapi/jsonapi.go:41-42,
\* src/apiquerytest/apiquerytest.go:18-19, src/cursor/page.go:21, 32).
SharedOnlyAsDocumented ==
    \A o, p \in DOMAIN cell : o # p =>
        \A c \in Parts(o) \cap Parts(p) : cell[o][c] = cell[p][c] =>
            \/ {o, p} = {"request", "args"}
            \/ {o, p} = {"request", "query"} /\ c \in FilterParts
            \/ {o, p} = {"schemaBuilder", "definitions"} /\ c \in {"operators", "nested"}
            \/ {o, p} = {"page", "rows"} /\ c = "pointees"
=============================================================================
