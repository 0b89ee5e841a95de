--------------------------- MODULE CompileProofs ---------------------------
(***************************************************************************)
(* Compile, for every schema NewSchema accepts, every request and every    *)
(* answer of the authorizer and the decoder.  Base says what shape the     *)
(* state has; each property then has an invariant of its own over it.      *)
(***************************************************************************)
EXTENDS Compile, FilterWalkProofs

Phases    == {"start", "fields", "includes", "filter", "sorts", "page", "cursor",
              "cost", "done"}
Walked    == {"sorts", "page", "cursor", "cost", "done"}
SortTerms == [name : ToNames(SortDefs), dir : {"asc", "desc"},
              nulls : {SortDefs[i].nulls : i \in DOMAIN SortDefs}]

\* What the authorizer may be asked about, by kind.
Capabilities == [field |-> ToNames(Fields), relationship |-> DOMAIN Relations,
                 filter |-> DOMAIN Filters, sort |-> ToNames(SortDefs)]
Answers == {a \in [kind : DOMAIN Capabilities, name : UNION Range(Capabilities),
                   ok : BOOLEAN] : a.name \in Capabilities[a.kind]}

\* All that is reported before the cost is known.
Early == Codes \ {"cost_limit"}

IsJob(j)  == j = [phase |-> j.phase, todo |-> j.todo, seen |-> j.seen, edges |-> j.edges,
                  paid |-> j.paid]
IsPlan(p) == p = [responseFields |-> p.responseFields, executionFields |-> p.executionFields,
                  includes |-> p.includes, sorts |-> p.sorts, constraints |-> p.constraints,
                  page |-> p.page, cursor |-> p.cursor]

-----------------------------------------------------------------------------
\* The shape of the state between two steps.

RequestTyped == request \in Requests /\ tree = request.filter
Told == job.phase # "done" => violations \in Seq(Early)
JobTyped ==
    /\ IsJob(job) /\ job.phase \in Phases
    /\ In("fields") => job.todo \in Seq(Range(RequestedFields)) /\ Len(job.todo) <= MaxFields
    /\ In("includes") => /\ job.todo \in Seq(Range(RequestedIncludes))
                         /\ Len(job.todo) <= MaxIncludes
                         /\ job.edges \in Seq(DOMAIN Relations)
                         /\ job.edges # <<>> => job.todo # <<>>
    /\ In("sorts") => job.todo \in Seq(Range(RequestedSorts)) /\ Len(job.todo) <= MaxSorts
    /\ ~In("includes") => job.edges = <<>>
    /\ job.phase \in Walked => walk.todo = <<>>
PlanTyped ==
    /\ IsPlan(plan)
    /\ plan.responseFields \in Seq(Range(RequestedFields) \cap ToNames(Fields))
    /\ plan.includes \in Seq(Range(RequestedIncludes) \cap DOMAIN Relations)
    /\ plan.sorts \in Seq(SortTerms)
AskedTyped == asked \in Seq(Answers)

\* The edges of an include that are left to ask for are new, and with those
\* paid for they are all it has.
EdgesLeft ==
    /\ \A i \in DOMAIN job.edges : job.edges[i] \notin job.paid
    /\ \A i, j \in DOMAIN job.edges : job.edges[i] = job.edges[j] => i = j
    /\ Len(job.edges) <= MaxIncludeDepth
    /\ job.edges # <<>> =>
          /\ Element \in DOMAIN Relations
          /\ \A n \in DOMAIN Element : SubSeq(Element, 1, n) \in job.paid \cup Range(job.edges)

Base == RequestTyped /\ WalkInv /\ Told /\ JobTyped /\ PlanTyped /\ AskedTyped /\ EdgesLeft

-----------------------------------------------------------------------------
\* What a step may do, in the terms the invariants need.

Reported(bad) ==
    /\ violations' \in Seq(Early) /\ Len(violations') <= MaxErrors
    /\ violations' = <<>> <=> violations = <<>> /\ ~bad

AsksFor(kind, name, ok) == Ask(kind, name, ok) /\ name \in Capabilities[kind]

KindOf == [fields |-> "field", includes |-> "relationship", sorts |-> "sort"]

\* An element is refused, unasked or by the authorizer or in spite of it.
Skipped ==
    /\ job.phase \in DOMAIN KindOf /\ job.todo # <<>>
    /\ Reported(TRUE)
    /\ job.seen \subseteq job'.seen
    /\ job' = [job EXCEPT !.todo = Tail(@), !.seen = job'.seen, !.edges = <<>>]
    /\ UNCHANGED <<plan, bill, decoder, walk, tree, request>>
    /\ \/ asked' = asked
       \/ \E name, ok : /\ AsksFor(KindOf[job.phase], name, ok) /\ ok \in BOOLEAN
                        /\ In("includes") => /\ name \notin job.paid /\ ~ok
                                             /\ job.edges # <<>>

FieldTaken ==
    /\ In("fields") /\ job.todo # <<>>
    /\ Element \notin job.seen /\ Declared(Fields, Element)
    /\ AsksFor("field", Element, TRUE)
    /\ plan' = [plan EXCEPT !.responseFields = Append(@, Element)]
    /\ bill' = Charge(bill, Def(Fields, Element).cost)
    /\ job' = Marked
    /\ UNCHANGED <<violations, decoder, walk, tree, request>>

EdgeTaken ==
    LET edge == Head(job.edges)
        j    == [job EXCEPT !.edges = Tail(@), !.paid = @ \cup {edge}] IN
    /\ In("includes") /\ job.edges # <<>>
    /\ AsksFor("relationship", edge, TRUE)
    /\ bill' = Charge(bill, Relations[edge].cost)
    /\ \/ /\ Tail(job.edges) = <<>>
          /\ job' = [j EXCEPT !.todo = Tail(@)]
          /\ plan' = [plan EXCEPT !.includes = Append(@, Element)]
       \/ /\ Tail(job.edges) # <<>>
          /\ job' = j /\ UNCHANGED plan
    /\ UNCHANGED <<violations, decoder, walk, tree, request>>

SortTaken ==
    /\ In("sorts") /\ job.todo # <<>>
    /\ AsksFor("sort", Element.name, TRUE)
    /\ \E s \in SortTerms : /\ s.name = Element.name
                            /\ plan' = [plan EXCEPT !.sorts = Append(@, s)]
    /\ job' = SortMarked
    /\ UNCHANGED <<violations, bill, decoder, walk, tree, request>>

\* A node of the filter that is not put to the authorizer, and one that is.
WalkQuiet ==
    /\ asked' = asked /\ walk'.nodes >= walk.nodes
    /\ \A at \in walk'.kept : at \in walk.kept \/ ~IsLeaf(at)
WalkAsks == \E name, ok :
    /\ AsksFor("filter", name, ok) /\ ok \in BOOLEAN
    /\ walk'.nodes = walk.nodes + 1
    /\ \A at \in walk'.kept : at \in walk.kept \/ (ok /\ tree[at].pred.name = name)
    /\ violations' = <<>> => ok

-----------------------------------------------------------------------------
\* Lists and definitions.

LEMMA UptoIs ==
    ASSUME NEW A, NEW list \in Seq(A), NEW max \in Nat
    PROVE  /\ Upto(list, max) \in Seq(A) /\ Len(Upto(list, max)) <= max
           /\ Len(list) <= max => Upto(list, max) = list
<1> DEFINE n == IF Len(list) < max THEN Len(list) ELSE max
<1>1. n \in Nat /\ n <= Len(list) /\ n <= max /\ (Len(list) <= max => n = Len(list))
    OBVIOUS
<1>2. Upto(list, max) = SubSeq(list, 1, n)
    BY DEF Upto
<1> HIDE DEF n
<1>3. /\ SubSeq(list, 1, n) \in Seq(A) /\ Len(SubSeq(list, 1, n)) = n
      /\ n = Len(list) => SubSeq(list, 1, n) = list
    BY <1>1
<1> QED BY <1>1, <1>2, <1>3

LEMMA DefIs ==
    ASSUME NEW defs, NEW n, Declared(defs, n)
    PROVE  \E i \in DOMAIN defs : Def(defs, n) = defs[i] /\ defs[i].name = n
<1>1. PICK i : i \in Named(defs, n)
    BY DEF Declared
<1>2. (CHOOSE k \in Named(defs, n) : TRUE) \in Named(defs, n)
    BY <1>1
<1> QED BY <1>2 DEF Def, Named

\* A list that is joined from two is empty when both are.
LEMMA NothingJoined ==
    ASSUME NEW A, NEW a \in Seq(A), NEW b \in Seq(A)
    PROVE  a \o b \in Seq(A) /\ (a \o b = <<>> <=> a = <<>> /\ b = <<>>)
OBVIOUS

LEMMA NoFault ==
    ASSUME NEW broken, NEW code
    PROVE  Fault(broken, code) = <<>> <=> ~broken
<1>1. <<code>> # <<>>
    OBVIOUS
<1> QED BY <1>1 DEF Fault

LEMMA ListOf ==
    ASSUME NEW n \in Nat, NEW f, DOMAIN f = 1..n, f = [i \in 1..n |-> f[i]]
    PROVE  f \in Seq(Range(f)) /\ Len(f) = n
BY DEF Range

LEMMA RequestedAre ==
    ASSUME request \in Requests
    PROVE  /\ RequestedFields \in Seq(Range(RequestedFields))
           /\ RequestedIncludes \in Seq(Range(RequestedIncludes))
           /\ AreSorts(RequestedSorts) /\ RequestedSorts \in Seq(Range(RequestedSorts))
           /\ request.constraints \in Seq(Range(request.constraints))
           /\ IsTree(request.filter)
           /\ request.page = [mode |-> request.page.mode, size |-> request.page.size,
                              offset |-> request.page.offset, after |-> request.page.after,
                              before |-> request.page.before]
<1>1. DefaultFields \in Seq(Range(DefaultFields))
  <2> DEFINE S == {Fields[i] : i \in {j \in DOMAIN Fields : Fields[j].default}}
             picked == Picked(Fields, S)
             names == [i \in DOMAIN picked |-> picked[i].name]
  <2>1. DefaultFields = names
      BY DEF DefaultFields, Only
  <2>2. Fields \in Seq(Range(Fields))
      BY SchemaAssumption DEF IsList
  <2>3. picked \in Seq(Range(Fields))
    <3> HIDE DEF S
    <3> QED BY <2>2, PickedIs DEF PickedUpto
  <2>4. Len(picked) \in Nat /\ DOMAIN picked = 1..Len(picked)
    <3> HIDE DEF picked
    <3> QED BY <2>3
  <2>5. names \in Seq(Range(names))
    <3> HIDE DEF picked
    <3>1. DOMAIN names = 1..Len(picked) /\ names = [i \in 1..Len(picked) |-> names[i]]
        BY <2>4
    <3> HIDE DEF names
    <3> QED BY <2>4, <3>1, ListOf
  <2> HIDE DEF names
  <2> QED BY <2>1, <2>5
<1>2. /\ IsTree(request.filter) /\ IsList(request.constraints)
      /\ IsOptional(request.fields) /\ IsOptional(request.includes)
      /\ request.sorts = Absent \/ AreSorts(request.sorts)
      /\ request.page = [mode |-> request.page.mode, size |-> request.page.size,
                         offset |-> request.page.offset, after |-> request.page.after,
                         before |-> request.page.before]
    BY RequestsAssumption
<1>3. RequestedFields \in Seq(Range(RequestedFields))
    BY <1>1, <1>2 DEF RequestedFields, IsOptional, IsList
<1>4. RequestedIncludes \in Seq(Range(RequestedIncludes))
  <2>1. CASE request.includes = Absent
    <3>1. RequestedIncludes = <<>>
        BY <2>1 DEF RequestedIncludes
    <3> QED BY <3>1
  <2>2. CASE request.includes # Absent
      BY <1>2, <2>2 DEF RequestedIncludes, IsOptional, IsList
  <2> QED BY <2>1, <2>2
<1>5. AreSorts(RequestedSorts)
    BY <1>2, SchemaAssumption DEF RequestedSorts
<1>6. RequestedSorts \in Seq(Range(RequestedSorts))
    BY <1>5 DEF AreSorts, IsList
<1> QED BY <1>2, <1>3, <1>4, <1>5, <1>6 DEF IsList

-----------------------------------------------------------------------------
\* Every step is one of these.

LEMMA Telling ==
    ASSUME Base, job.phase # "done", NEW codes \in Seq(Early), Report(codes)
    PROVE  Reported(codes # <<>>)
<1>1. violations \in Seq(Early) /\ MaxErrors \in Nat \ {0}
    BY FilterAssumption DEF Base, Told
<1>2. violations' = Collected(MaxErrors, codes)
    BY DEF Report
<1>3. /\ Collected(MaxErrors, codes) \in Seq(Early)
      /\ Len(Collected(MaxErrors, codes)) <= MaxErrors
      /\ Collected(MaxErrors, codes) = <<>> <=> violations = <<>> /\ codes = <<>>
    BY <1>1, Collecting
<1> QED BY <1>2, <1>3 DEF Reported

LEMMA TellingOne ==
    ASSUME Base, job.phase # "done", NEW code \in Early, Report(<<code>>)
    PROVE  Reported(TRUE)
<1>1. <<code>> \in Seq(Early) /\ <<code>> # <<>>
    OBVIOUS
<1>2. Reported(<<code>> # <<>>)
    BY <1>1, Telling
<1> QED BY <1>1, <1>2 DEF Reported

LEMMA EarlyIs ==
    {"limit_exceeded", "conflict", "invalid_element", "unsupported_operation",
     "authorization_rejected", "cursor_failure", "version_mismatch"} \subseteq Early
BY DEF Early, Codes

LEMMA CapabilitiesAre ==
    /\ Capabilities["field"] = ToNames(Fields)
    /\ Capabilities["relationship"] = DOMAIN Relations
    /\ Capabilities["filter"] = DOMAIN Filters
    /\ Capabilities["sort"] = ToNames(SortDefs)
    /\ DOMAIN Capabilities = {"field", "relationship", "filter", "sort"}
BY DEF Capabilities

LEMMA DeclaredIs ==
    ASSUME NEW defs, NEW n, Declared(defs, n)
    PROVE  n \in ToNames(defs)
BY DefIs DEF ToNames

\* A refusal, whatever the phase.
LEMMA DropSkips ==
    ASSUME Base, job.phase \in DOMAIN KindOf, job.todo # <<>>,
           NEW code \in Early, NEW seen, job.seen \subseteq seen,
           Drop([job EXCEPT !.todo = Tail(@), !.seen = seen, !.edges = <<>>], code),
           UNCHANGED <<decoder, walk, tree, request>>,
           \/ asked' = asked
           \/ \E name, ok : /\ AsksFor(KindOf[job.phase], name, ok) /\ ok \in BOOLEAN
                            /\ In("includes") => /\ name \notin job.paid /\ ~ok
                                                 /\ job.edges # <<>>
    PROVE  Skipped
<1>1. Reported(TRUE)
    BY TellingOne DEF Drop, KindOf
<1>2. job' = [job EXCEPT !.todo = Tail(@), !.seen = seen, !.edges = <<>>]
      /\ UNCHANGED <<plan, bill>>
    BY DEF Drop
<1>3. IsJob(job)
    BY DEF Base, JobTyped
<1>4. job'.seen = seen
    BY <1>2, <1>3 DEF IsJob
<1> QED BY <1>1, <1>2, <1>4 DEF Skipped

LEMMA RefusalsSkip ==
    ASSUME Base, RefuseField \/ RefuseInclude \/ RefuseSort
    PROVE  Skipped
<1>1. IsJob(job) /\ (~In("includes") => job.edges = <<>>)
    BY DEF Base, JobTyped
<1>2. /\ job.phase \in DOMAIN KindOf /\ job.todo # <<>> /\ job.edges = <<>>
      /\ asked' = asked /\ UNCHANGED <<decoder, walk, tree, request>>
      /\ \E code \in Early : \E j \in {Next1, Marked, SortMarked} : Drop(j, code)
    BY <1>1, EarlyIs DEF RefuseField, RefuseInclude, RefuseSort, In, KindOf
<1>3. PICK code \in Early : \E j \in {Next1, Marked, SortMarked} : Drop(j, code)
    BY <1>2
<1>4. /\ Next1 = [job EXCEPT !.todo = Tail(@), !.seen = job.seen, !.edges = <<>>]
      /\ Marked = [job EXCEPT !.todo = Tail(@), !.seen = job.seen \cup {Element},
                              !.edges = <<>>]
      /\ SortMarked = [job EXCEPT !.todo = Tail(@), !.seen = job.seen \cup {Element.name},
                                  !.edges = <<>>]
    BY <1>1, <1>2 DEF IsJob, Next1, Marked, SortMarked
<1>5. \E seen : /\ job.seen \subseteq seen
                /\ Drop([job EXCEPT !.todo = Tail(@), !.seen = seen, !.edges = <<>>], code)
  <2>1. CASE Drop(Next1, code)
      BY <1>4, <2>1
  <2>2. CASE Drop(Marked, code)
      BY <1>4, <2>2
  <2>3. CASE Drop(SortMarked, code)
      BY <1>4, <2>3
  <2> QED BY <1>3, <2>1, <2>2, <2>3
<1> QED BY <1>2, <1>5, DropSkips

LEMMA FieldMoves ==
    ASSUME Base, NEW ok \in BOOLEAN, Field(ok)
    PROVE  Skipped \/ FieldTaken
<1>1. /\ In("fields") /\ job.todo # <<>> /\ Declared(Fields, Element)
      /\ Element \notin job.seen /\ Ask("field", Element, ok)
      /\ UNCHANGED <<decoder, walk, tree, request>>
    BY DEF Field
<1>2. AsksFor("field", Element, ok)
    BY <1>1, DeclaredIs, CapabilitiesAre DEF AsksFor
<1>3. CASE ~ok /\ Drop(Marked, "authorization_rejected")
  <2>1. Marked = [job EXCEPT !.todo = Tail(@), !.seen = job.seen \cup {Element},
                             !.edges = <<>>]
      BY <1>1 DEF Base, JobTyped, IsJob, Marked, Next1, In
  <2>2. /\ job.phase \in DOMAIN KindOf /\ KindOf[job.phase] = "field" /\ ~In("includes")
        /\ job.seen \subseteq job.seen \cup {Element}
      BY <1>1 DEF In, KindOf
  <2>3. "authorization_rejected" \in Early
      BY EarlyIs
  <2>4. \E name, answer : AsksFor(KindOf[job.phase], name, answer) /\ answer \in BOOLEAN
      BY <1>2, <2>2
  <2>5. Drop([job EXCEPT !.todo = Tail(@), !.seen = job.seen \cup {Element}, !.edges = <<>>],
             "authorization_rejected")
      BY <1>3, <2>1
  <2> QED BY <1>1, <2>2, <2>3, <2>4, <2>5, DropSkips
<1>4. CASE /\ ok
           /\ plan' = [plan EXCEPT !.responseFields = Append(@, Element)]
           /\ bill' = Charge(bill, Def(Fields, Element).cost)
           /\ job' = Marked /\ UNCHANGED violations
  <2>1. AsksFor("field", Element, TRUE)
      BY <1>2, <1>4
  <2> QED BY <1>1, <1>4, <2>1 DEF FieldTaken
<1> QED BY <1>3, <1>4 DEF Field

LEMMA EdgeMoves ==
    ASSUME Base, NEW ok \in BOOLEAN, Edge(ok)
    PROVE  Skipped \/ EdgeTaken
<1> DEFINE edge == Head(job.edges)
<1>1. /\ In("includes") /\ job.edges # <<>> /\ Ask("relationship", edge, ok)
      /\ UNCHANGED <<decoder, walk, tree, request>>
    BY DEF Edge
<1>2. /\ job.edges \in Seq(DOMAIN Relations) /\ job.todo # <<>> /\ IsJob(job)
      /\ \A i \in DOMAIN job.edges : job.edges[i] \notin job.paid
    BY <1>1 DEF Base, JobTyped, EdgesLeft
<1>3. edge \in DOMAIN Relations /\ edge \notin job.paid
    BY <1>1, <1>2
<1>4. AsksFor("relationship", edge, ok)
    BY <1>1, <1>3, CapabilitiesAre DEF AsksFor
<1>5. CASE ~ok /\ Drop([Next1 EXCEPT !.edges = <<>>], "authorization_rejected")
  <2>1. [Next1 EXCEPT !.edges = <<>>] = [job EXCEPT !.todo = Tail(@), !.seen = job.seen,
                                                    !.edges = <<>>]
      BY <1>2 DEF IsJob, Next1
  <2>2. job.phase \in DOMAIN KindOf /\ KindOf[job.phase] = "relationship"
      BY <1>1 DEF In, KindOf
  <2> HIDE DEF edge
  <2> QED BY <1>1, <1>2, <1>3, <1>4, <1>5, <2>1, <2>2, EarlyIs, DropSkips
<1>6. CASE /\ ok
           /\ bill' = Charge(bill, Relations[edge].cost)
           /\ IF Tail(job.edges) = <<>>
              THEN /\ job' = [[job EXCEPT !.edges = Tail(@), !.paid = @ \cup {edge}]
                                EXCEPT !.todo = Tail(@)]
                   /\ plan' = [plan EXCEPT !.includes = Append(@, Element)]
              ELSE /\ job' = [job EXCEPT !.edges = Tail(@), !.paid = @ \cup {edge}]
                   /\ UNCHANGED plan
           /\ UNCHANGED violations
  <2>1. AsksFor("relationship", edge, TRUE)
      BY <1>4, <1>6
  <2> QED BY <1>1, <1>6, <2>1, Zenon DEF EdgeTaken
<1> QED BY <1>5, <1>6, Zenon DEF Edge

LEMMA SortMoves ==
    ASSUME Base, NEW ok \in BOOLEAN, Sort(ok)
    PROVE  Skipped \/ SortTaken
<1> DEFINE nulls == Def(SortDefs, Element.name).nulls
           refusal == IF Element.nulls \in {"first", "last"}
                      THEN "unsupported_operation" ELSE "invalid_element"
<1>1. /\ In("sorts") /\ job.todo # <<>> /\ FreshSort /\ Directed
      /\ Ask("sort", Element.name, ok) /\ UNCHANGED <<decoder, walk, tree, request>>
    BY DEF Sort
<1>2. AsksFor("sort", Element.name, ok) /\ Element.name \in ToNames(SortDefs)
    BY <1>1, DeclaredIs, CapabilitiesAre DEF AsksFor, FreshSort
<1>3. ASSUME NEW code \in Early, Drop(SortMarked, code)
      PROVE  Skipped
  <2>1. SortMarked = [job EXCEPT !.todo = Tail(@), !.seen = job.seen \cup {Element.name},
                                 !.edges = <<>>]
      BY <1>1 DEF Base, JobTyped, IsJob, SortMarked, Next1, In
  <2>2. /\ job.phase \in DOMAIN KindOf /\ KindOf[job.phase] = "sort" /\ ~In("includes")
        /\ job.seen \subseteq job.seen \cup {Element.name}
      BY <1>1 DEF In, KindOf
  <2>3. Drop([job EXCEPT !.todo = Tail(@), !.seen = job.seen \cup {Element.name},
                         !.edges = <<>>], code)
      BY <1>3, <2>1
  <2>4. /\ job.todo # <<>> /\ UNCHANGED <<decoder, walk, tree, request>>
        /\ AsksFor(KindOf[job.phase], Element.name, ok)
      BY <1>1, <1>2, <2>2
  <2> QED BY <2>2, <2>3, <2>4, DropSkips
<1>4. "authorization_rejected" \in Early /\ refusal \in Early
    BY EarlyIs
<1>5. CASE /\ ok
           /\ plan' = [plan EXCEPT !.sorts = Append(@, [Element EXCEPT !.nulls = nulls])]
           /\ job' = SortMarked /\ UNCHANGED <<bill, violations>>
  <2> DEFINE s == [Element EXCEPT !.nulls = nulls]
  <2>1. Element = [name |-> Element.name, dir |-> Element.dir, nulls |-> Element.nulls]
    <3>1. job.todo \in Seq(Range(RequestedSorts)) /\ request \in Requests
        BY <1>1 DEF Base, JobTyped, RequestTyped
    <3>2. Element \in Range(RequestedSorts)
        BY <1>1, <3>1 DEF Element
    <3> QED BY <3>1, <3>2, RequestedAre DEF AreSorts, Range
  <2>2. nulls \in {SortDefs[i].nulls : i \in DOMAIN SortDefs}
      BY <1>1, DefIs DEF FreshSort
  <2>3. s \in SortTerms /\ s.name = Element.name
    <3> HIDE DEF nulls
    <3> QED BY <1>1, <1>2, <2>1, <2>2 DEF SortTerms, Directed
  <2>4. AsksFor("sort", Element.name, TRUE)
      BY <1>2, <1>5
  <2>5. plan' = [plan EXCEPT !.sorts = Append(@, s)]
      BY <1>5
  <2> HIDE DEF s
  <2> QED BY <1>1, <1>5, <2>3, <2>4, <2>5 DEF SortTaken
<1> HIDE DEF nulls, refusal
<1>6. \/ Drop(SortMarked, "authorization_rejected") \/ Drop(SortMarked, refusal)
      \/ /\ ok
         /\ plan' = [plan EXCEPT !.sorts = Append(@, [Element EXCEPT !.nulls = nulls])]
         /\ job' = SortMarked /\ UNCHANGED <<bill, violations>>
    BY Zenon DEF Sort, nulls, refusal
<1> QED BY <1>3, <1>4, <1>5, <1>6

\* A node reports what is wrong with it, never a cost, and asks at most once.
LEMMA VisitMoves ==
    ASSUME Base, In("filter"), Visit
    PROVE  /\ \E bad : Reported(bad)
           /\ WalkQuiet \/ WalkAsks
<1>0. WTyped /\ WalkInv /\ job.phase # "done" /\ walk.nodes \in Nat
  <2>1. WTyped /\ WalkInv
      BY DEF Base, WalkInv
  <2> QED BY <2>1 DEF WTyped, In
<1>1. ASSUME NEW codes \in Seq(Early), Report(codes)
      PROVE  /\ \E bad : Reported(bad)
             /\ codes # <<>> => violations' # <<>>
  <2>1. Reported(codes # <<>>)
      BY <1>0, <1>1, Telling
  <2> QED BY <2>1 DEF Reported
<1>2. ASSUME NEW code \in Early, Report(<<code>>)
      PROVE  (\E bad : Reported(bad)) /\ violations' # <<>>
    BY <1>0, <1>2, TellingOne DEF Reported
<1>3. CASE Abandon
  <2>1. Report(<<"limit_exceeded">>) /\ asked' = asked
        /\ walk'.nodes = walk.nodes /\ walk'.kept = walk.kept
      BY <1>0, <1>3 DEF Abandon, WTyped
  <2> QED BY <1>0, <1>2, <2>1, EarlyIs DEF WalkQuiet
<1>4. ASSUME walk' = Entered
      PROVE  walk'.nodes = walk.nodes + 1 /\ walk'.kept = walk.kept
    BY <1>0, <1>4 DEF Entered, WTyped
<1>5. CASE RejectNode
  <2> DEFINE code == IF TooDeep THEN "limit_exceeded" ELSE "conflict"
  <2>1. Report(<<code>>) /\ asked' = asked /\ walk' = Entered
      BY <1>5 DEF RejectNode
  <2>2. code \in Early
      BY EarlyIs
  <2> HIDE DEF code
  <2> QED BY <1>0, <1>2, <1>4, <2>1, <2>2 DEF WalkQuiet
<1>6. CASE EnterGroup
  <2> DEFINE barred == Fault(tree[Here].logic \notin Logics, "unsupported_operation")
             shape  == Fault(tree[Here].logic = "not" /\ Fanout(tree, Here) # 1, "conflict")
  <2>1. /\ Report(barred \o shape) /\ asked' = asked /\ ~IsLeaf(Here)
        /\ walk' = [Entered EXCEPT !.todo = Children(Here) \o @, !.kept = @ \cup {Here}]
      BY <1>6 DEF EnterGroup
  <2>2. barred \in Seq(Early) /\ shape \in Seq(Early)
      BY EarlyIs, FaultTyped
  <2>3. barred \o shape \in Seq(Early)
    <3> HIDE DEF barred, shape
    <3> QED BY <2>2
  <2>4. walk'.nodes = walk.nodes + 1 /\ walk'.kept = walk.kept \cup {Here}
      BY <1>0, <2>1 DEF Entered, WTyped
  <2> HIDE DEF barred, shape
  <2>5. \E bad : Reported(bad)
      BY <1>1, <2>1, <2>3
  <2>6. walk'.nodes >= walk.nodes
      BY <1>0, <2>4
  <2>7. \A at \in walk'.kept : at \in walk.kept \/ ~IsLeaf(at)
      BY <2>1, <2>4
  <2> QED BY <2>1, <2>5, <2>6, <2>7 DEF WalkQuiet
<1>7. CASE UnknownFilter
  <2>1. Report(<<"invalid_element">>) /\ asked' = asked /\ walk' = Entered
      BY <1>7 DEF UnknownFilter
  <2> QED BY <1>0, <1>2, <1>4, <2>1, EarlyIs DEF WalkQuiet
<1>8. ASSUME NEW ok \in BOOLEAN, Predicate(ok)
      PROVE  (\E bad : Reported(bad)) /\ WalkAsks
  <2> DEFINE pred   == tree[Here].pred
             def    == Filters[pred.name]
             badOp  == Fault(pred.op \notin def.operators, "unsupported_operation")
             marked == [Entered EXCEPT !.seen = @ \cup {Key(Here)}]
             codes1 == badOp \o <<"limit_exceeded">>
             codes2 == badOp \o ValueFaults(def, pred)
  <2>1. /\ Visitable /\ IsLeaf(Here) /\ pred.name \in DOMAIN Filters
        /\ Ask("filter", pred.name, ok)
      BY <1>8 DEF Predicate
  <2>2. AsksFor("filter", pred.name, ok)
      BY <2>1, CapabilitiesAre DEF AsksFor
  <2>3. pred.values \in Seq(Range(pred.values))
    <3>1. Here \in DOMAIN tree
        BY <1>0, <2>1, HereIs DEF Visitable
    <3> QED BY <1>0, <2>1, <3>1 DEF WTyped, IsTree, IsLeaf
  <2>4. badOp \in Seq(Early) /\ <<"limit_exceeded">> \in Seq(Early)
      BY EarlyIs, FaultTyped
  <2>5. ValueFaults(def, pred) \in Seq(Early)
      BY <2>3, EarlyIs, ValueFaultsTyped
  <2>6. codes1 \in Seq(Early) /\ codes1 # <<>> /\ codes2 \in Seq(Early)
    <3> HIDE DEF badOp
    <3> QED BY <2>4, <2>5
  <2>7. marked.nodes = walk.nodes + 1 /\ marked.kept = walk.kept
        /\ marked = [todo |-> marked.todo, nodes |-> marked.nodes, values |-> marked.values,
                     seen |-> marked.seen, kept |-> marked.kept]
    <3>1. walk = [todo |-> walk.todo, nodes |-> walk.nodes, values |-> walk.values,
                  seen |-> walk.seen, kept |-> walk.kept]
        BY <1>0 DEF WTyped
    <3>2. Entered = [todo |-> Tail(walk.todo), nodes |-> walk.nodes + 1,
                     values |-> walk.values, seen |-> walk.seen, kept |-> walk.kept]
      <4>1. Entered = [walk EXCEPT !.nodes = walk.nodes + 1, !.todo = Tail(walk.todo)]
          BY DEF Entered
      <4> HIDE DEF pred, badOp
      <4> QED BY <3>1, <4>1
    <3> DEFINE key == Key(Here)
    <3>3. marked = [Entered EXCEPT !.seen = @ \cup {key}]
        OBVIOUS
    <3> HIDE DEF key, marked
    <3> QED BY <3>2, <3>3
  <2>8. \/ /\ \E code \in {"authorization_rejected", "unsupported_operation", "conflict"} :
                 Report(<<code>>)
           /\ walk' = Entered
        \/ Report(codes1) /\ walk' = marked
        \/ /\ ok /\ Report(codes2)
           /\ walk' = [marked EXCEPT !.values = @ + Len(pred.values), !.kept = @ \cup {Here}]
      BY <1>8, Zenon DEF Predicate
  <2> HIDE DEF codes1, codes2
  <2>12. ASSUME walk'.nodes = walk.nodes + 1, violations' = <<>> => ok,
                \A at \in walk'.kept : at \in walk.kept \/ (ok /\ tree[at].pred.name = pred.name)
         PROVE  WalkAsks
    <3> HIDE DEF pred
    <3> QED BY <2>2, <2>12 DEF WalkAsks
  <2>9. CASE /\ \E code \in {"authorization_rejected", "unsupported_operation", "conflict"} :
                   Report(<<code>>)
             /\ walk' = Entered
    <3>1. (\E bad : Reported(bad)) /\ violations' # <<>>
        BY <1>2, <2>9, EarlyIs
    <3>2. walk'.nodes = walk.nodes + 1 /\ walk'.kept = walk.kept
        BY <1>4, <2>9
    <3> QED BY <2>12, <3>1, <3>2
  <2>10. CASE Report(codes1) /\ walk' = marked
    <3>1. (\E bad : Reported(bad)) /\ violations' # <<>>
        BY <1>1, <2>6, <2>10
    <3>2. walk'.nodes = walk.nodes + 1 /\ walk'.kept = walk.kept
        BY <2>7, <2>10
    <3> QED BY <2>12, <3>1, <3>2
  <2>11. CASE /\ ok /\ Report(codes2)
              /\ walk' = [marked EXCEPT !.values = @ + Len(pred.values),
                                        !.kept = @ \cup {Here}]
    <3>1. \E bad : Reported(bad)
        BY <1>1, <2>6, <2>11
    <3>2. walk' = [marked EXCEPT !.values = @ + Len(pred.values), !.kept = @ \cup {Here}]
        BY <2>11
    <3>3. walk'.nodes = walk.nodes + 1 /\ walk'.kept = walk.kept \cup {Here}
      <4> HIDE DEF marked
      <4> QED BY <2>7, <3>2
    <3>4. \A at \in walk'.kept : at \in walk.kept \/ (ok /\ tree[at].pred.name = pred.name)
        BY <2>11, <3>3
    <3> HIDE DEF pred
    <3> QED BY <2>11, <2>12, <3>1, <3>3, <3>4
  <2> QED BY <2>8, <2>9, <2>10, <2>11
<1> QED BY <1>3, <1>5, <1>6, <1>7, <1>8 DEF Visit

-----------------------------------------------------------------------------
\* What the ends of the phases report.

LEMMA TooManyTells ==
    ASSUME NEW A, NEW list \in Seq(A), NEW max \in Nat
    PROVE  TooMany(list, max) \in Seq(Early) /\ (TooMany(list, max) = <<>> <=> Len(list) <= max)
<1>1. TooMany(list, max) \in Seq(Early)
    BY EarlyIs, FaultTyped DEF TooMany
<1>2. TooMany(list, max) = <<>> <=> ~(Len(list) > max)
    BY NoFault DEF TooMany
<1> QED BY <1>1, <1>2

LEMMA ConstraintFaultsTyped ==
    ASSUME NEW A, NEW cs \in Seq(A)
    PROVE  ConstraintFaults(cs) \in Seq(Early)
<1> DEFINE F(i) == Fault(~cs[i].valid, "invalid_element") \o
                   Fault(\E j \in 1..(i - 1) : cs[j].name = cs[i].name, "conflict") \o
                   Fault(cs[i].bytes > MaxStringBytes, "limit_exceeded")
<1>1. \A i : F(i) \in Seq(Early)
  <2> SUFFICES ASSUME NEW i PROVE F(i) \in Seq(Early)
      OBVIOUS
  <2> DEFINE odd   == Fault(~cs[i].valid, "invalid_element")
             twice == Fault(\E j \in 1..(i - 1) : cs[j].name = cs[i].name, "conflict")
             large == Fault(cs[i].bytes > MaxStringBytes, "limit_exceeded")
  <2>1. odd \in Seq(Early) /\ twice \in Seq(Early) /\ large \in Seq(Early)
      BY EarlyIs, FaultTyped
  <2>2. F(i) = odd \o twice \o large
      OBVIOUS
  <2> HIDE DEF F, odd, twice, large
  <2> QED BY <2>1, <2>2
<1>2. [i \in DOMAIN cs |-> F(i)] \in Seq(Seq(Early))
  <2> HIDE DEF F
  <2>1. DOMAIN cs = 1..Len(cs) /\ Len(cs) \in Nat
      OBVIOUS
  <2>2. [i \in 1..Len(cs) |-> F(i)] \in Seq(Seq(Early))
      BY <1>1, <2>1
  <2> QED BY <2>1, <2>2
<1>3. FlattenSeq([i \in DOMAIN cs |-> F(i)]) \in Seq(Early)
  <2> HIDE DEF F
  <2> QED BY <1>2, FlattenTyped
<1> QED BY <1>3 DEF ConstraintFaults

LEMMA BoundsAre ==
    /\ MaxFields \in Nat /\ MaxIncludes \in Nat /\ MaxIncludeDepth \in Nat
    /\ MaxSorts \in Nat /\ MaxCost \in Nat /\ MaxValues \in Nat /\ MaxInt \in Nat
    /\ MaxFilterNodes \in Nat /\ MaxErrors \in Nat \ {0}
BY CompileAssumption, FilterAssumption

LEMMA StartTells ==
    ASSUME Base, Start
    PROVE  /\ \E bad : Reported(bad)
           /\ violations' = <<>> => /\ Len(request.constraints) <= MaxValues
                                    /\ Len(RequestedFields) <= MaxFields
<1> DEFINE given == request.constraints
           wrong == Fault(~request.revisionMatches, "version_mismatch")
           many  == TooMany(given, MaxValues)
           cfs   == ConstraintFaults(Upto(given, MaxValues))
           wide  == TooMany(RequestedFields, MaxFields)
<1>1. job.phase = "start" /\ Report(wrong \o many \o cfs \o wide)
    BY DEF Start, In
<1>2. /\ given \in Seq(Range(given)) /\ RequestedFields \in Seq(Range(RequestedFields))
    BY RequestedAre DEF Base, RequestTyped
<1>3. /\ many \in Seq(Early) /\ (many = <<>> <=> Len(given) <= MaxValues)
      /\ wide \in Seq(Early) /\ (wide = <<>> <=> Len(RequestedFields) <= MaxFields)
    BY <1>2, BoundsAre, TooManyTells
<1>4. cfs \in Seq(Early)
  <2>1. Upto(given, MaxValues) \in Seq(Range(given))
      BY <1>2, BoundsAre, UptoIs
  <2> QED BY <2>1, ConstraintFaultsTyped
<1>5. wrong \in Seq(Early)
    BY EarlyIs, FaultTyped
<1> HIDE DEF wrong, many, cfs, wide, given
<1> DEFINE two == wrong \o many
           three == two \o cfs
           all == three \o wide
<1>6. two \in Seq(Early) /\ (two = <<>> <=> wrong = <<>> /\ many = <<>>)
    BY <1>3, <1>5, NothingJoined
<1> HIDE DEF two
<1>7. three \in Seq(Early) /\ (three = <<>> <=> two = <<>> /\ cfs = <<>>)
    BY <1>4, <1>6, NothingJoined
<1> HIDE DEF three
<1>8. all \in Seq(Early) /\ (all = <<>> <=> three = <<>> /\ wide = <<>>)
    BY <1>3, <1>7, NothingJoined
<1>9. Report(all)
    BY <1>1 DEF two, three
<1> HIDE DEF all
<1>10. Reported(all # <<>>)
    BY <1>1, <1>8, <1>9, Telling
<1>11. violations' = <<>> => all = <<>>
    BY <1>10 DEF Reported
<1> QED BY <1>3, <1>6, <1>7, <1>8, <1>10, <1>11 DEF given

\* The other lists that may be too long.
LEMMA LengthTells ==
    ASSUME Base, job.phase # "done", NEW A, NEW list \in Seq(A), NEW max \in Nat,
           Report(TooMany(list, max))
    PROVE  Reported(Len(list) > max)
<1>1. TooMany(list, max) \in Seq(Early) /\ (TooMany(list, max) = <<>> <=> Len(list) <= max)
    BY TooManyTells
<1>2. Reported(TooMany(list, max) # <<>>)
    BY <1>1, Telling
<1> QED BY <1>1, <1>2 DEF Reported

LEMMA FaultTells ==
    ASSUME Base, job.phase # "done", NEW broken, NEW code \in Early,
           Report(Fault(broken, code))
    PROVE  Reported(broken)
<1>1. Fault(broken, code) \in Seq(Early) /\ (Fault(broken, code) = <<>> <=> ~broken)
    BY FaultTyped, NoFault
<1>2. Reported(Fault(broken, code) # <<>>)
    BY <1>1, Telling
<1> QED BY <1>1, <1>2 DEF Reported

\* A page without a fault has a mode the schema supports, tokens only in cursor
\* mode, and one at most.
LEMMA PageTells ==
    ASSUME NEW page
    PROVE  /\ PageFaults(page) \in Seq(Early)
           /\ PageFaults(page) = <<>> =>
                /\ page.mode = "cursor" => Pagination.cursor
                /\ page.after = NoCursor \/ page.before = NoCursor
                /\ page.mode \in {"none", "cursor", "offset"}
                /\ page.mode # "cursor" => Tokens(page) = {}
<1> DEFINE tokens == Tokens(page)
           both == page.after # NoCursor /\ page.before # NoCursor
           f1 == Fault(page.mode = "cursor" /\ ~Pagination.cursor, "unsupported_operation")
           f2 == Fault(page.mode = "offset" /\ ~Pagination.offset, "unsupported_operation")
           f3 == Fault(page.mode = "offset" /\ page.offset \notin 0..Pagination.maxOffset,
                       "limit_exceeded")
           f4 == Fault(page.size \notin 0..MaxPageSize, "limit_exceeded")
           f5 == Fault(both, "conflict")
           f6 == Fault(page.after = "oversized", "limit_exceeded")
           f7 == Fault(page.before = "oversized", "limit_exceeded")
           f8 == Fault(page.mode \notin {"none", "cursor", "offset"}, "unsupported_operation")
           f9 == Fault(page.mode = "none" /\ (page.size # 0 \/ tokens # {} \/ page.offset # 0),
                       "conflict")
           f10 == Fault(page.mode = "cursor" /\ page.offset # 0, "conflict")
           f11 == Fault(page.mode = "offset" /\ tokens # {}, "conflict")
<1>1. PageFaults(page) = f1 \o f2 \o f3 \o f4 \o f5 \o f6 \o f7 \o f8 \o f9 \o f10 \o f11
    BY DEF PageFaults
<1>2. /\ f1 \in Seq(Early) /\ f2 \in Seq(Early) /\ f3 \in Seq(Early) /\ f4 \in Seq(Early)
      /\ f5 \in Seq(Early) /\ f6 \in Seq(Early) /\ f7 \in Seq(Early) /\ f8 \in Seq(Early)
      /\ f9 \in Seq(Early) /\ f10 \in Seq(Early) /\ f11 \in Seq(Early)
    BY EarlyIs, FaultTyped
<1>3. /\ f1 = <<>> => ~(page.mode = "cursor" /\ ~Pagination.cursor)
      /\ f5 = <<>> => ~both
      /\ f8 = <<>> => page.mode \in {"none", "cursor", "offset"}
      /\ f9 = <<>> => ~(page.mode = "none" /\ tokens # {})
      /\ f11 = <<>> => ~(page.mode = "offset" /\ tokens # {})
  <2>1. f1 = <<>> => ~(page.mode = "cursor" /\ ~Pagination.cursor)
      BY NoFault
  <2>2. f5 = <<>> => ~both
      BY NoFault
  <2>3. f8 = <<>> => page.mode \in {"none", "cursor", "offset"}
      BY NoFault
  <2>4. f9 = <<>> => ~(page.mode = "none" /\ (page.size # 0 \/ tokens # {} \/ page.offset # 0))
      BY NoFault
  <2>5. f11 = <<>> => ~(page.mode = "offset" /\ tokens # {})
      BY NoFault
  <2> HIDE DEF f1, f5, f8, f9, f11, both, tokens
  <2> QED BY <2>1, <2>2, <2>3, <2>4, <2>5
<1> HIDE DEF f1, f2, f3, f4, f5, f6, f7, f8, f9, f10, f11
<1> DEFINE g2 == f1 \o f2
           g3 == g2 \o f3
           g4 == g3 \o f4
           g5 == g4 \o f5
           g6 == g5 \o f6
           g7 == g6 \o f7
           g8 == g7 \o f8
           g9 == g8 \o f9
           g10 == g9 \o f10
           g11 == g10 \o f11
<1>4. PageFaults(page) = g11
    BY <1>1
<1>5. g2 \in Seq(Early) /\ (g2 = <<>> => f1 = <<>>)
    BY <1>2, NothingJoined
<1> HIDE DEF g2
<1>6. g3 \in Seq(Early) /\ (g3 = <<>> => g2 = <<>>)
    BY <1>2, <1>5, NothingJoined
<1> HIDE DEF g3
<1>7. g4 \in Seq(Early) /\ (g4 = <<>> => g3 = <<>>)
    BY <1>2, <1>6, NothingJoined
<1> HIDE DEF g4
<1>8. g5 \in Seq(Early) /\ (g5 = <<>> => g4 = <<>> /\ f5 = <<>>)
    BY <1>2, <1>7, NothingJoined
<1> HIDE DEF g5
<1>9. g6 \in Seq(Early) /\ (g6 = <<>> => g5 = <<>>)
    BY <1>2, <1>8, NothingJoined
<1> HIDE DEF g6
<1>10. g7 \in Seq(Early) /\ (g7 = <<>> => g6 = <<>>)
    BY <1>2, <1>9, NothingJoined
<1> HIDE DEF g7
<1>11. g8 \in Seq(Early) /\ (g8 = <<>> => g7 = <<>> /\ f8 = <<>>)
    BY <1>2, <1>10, NothingJoined
<1> HIDE DEF g8
<1>12. g9 \in Seq(Early) /\ (g9 = <<>> => g8 = <<>> /\ f9 = <<>>)
    BY <1>2, <1>11, NothingJoined
<1> HIDE DEF g9
<1>13. g10 \in Seq(Early) /\ (g10 = <<>> => g9 = <<>>)
    BY <1>2, <1>12, NothingJoined
<1> HIDE DEF g10
<1>14. g11 \in Seq(Early) /\ (g11 = <<>> => g10 = <<>> /\ f11 = <<>>)
    BY <1>2, <1>13, NothingJoined
<1> HIDE DEF g11, tokens
<1> QED BY <1>3, <1>4, <1>5, <1>6, <1>7, <1>8, <1>9, <1>10, <1>11, <1>12, <1>13, <1>14
    DEF tokens

-----------------------------------------------------------------------------
\* Parts that most steps leave alone.

LEMMA SameRequest ==
    ASSUME request' = request
    PROVE  /\ RequestedFields' = RequestedFields /\ RequestedIncludes' = RequestedIncludes
           /\ RequestedSorts' = RequestedSorts
BY DEF RequestedFields, RequestedIncludes, RequestedSorts

LEMMA Silent ==
    ASSUME Base, job.phase # "done", UNCHANGED violations
    PROVE  Reported(FALSE)
<1>1. violations \in Seq(Early) /\ Len(violations) <= MaxErrors
    BY DEF Base, Told, WalkInv, WTyped
<1> QED BY <1>1 DEF Reported

LEMMA WalkStays ==
    ASSUME Base, UNCHANGED <<walk, tree>>, NEW bad, Reported(bad)
    PROVE  WalkInv' /\ violations' \in Seq(Early)
<1>1. /\ violations' \in Seq(Early) /\ Len(violations') <= MaxErrors
      /\ violations' = <<>> => violations = <<>>
    BY DEF Reported
<1>2. violations' \in Seq(Codes)
    BY <1>1 DEF Early
<1>3. WalkInv /\ UNCHANGED <<tree, walk>>
    BY DEF Base
<1> QED BY <1>1, <1>2, <1>3, ElsewhereKeeps

LEMMA Asking ==
    ASSUME asked \in Seq(Answers), NEW kind \in DOMAIN Capabilities, NEW name,
           NEW ok \in BOOLEAN, AsksFor(kind, name, ok)
    PROVE  /\ asked' \in Seq(Answers) /\ Len(asked) \in Nat /\ Len(asked') = Len(asked) + 1
           /\ DOMAIN asked = 1..Len(asked) /\ DOMAIN asked' = 1..(Len(asked) + 1)
           /\ \A i \in DOMAIN asked : asked'[i] = asked[i]
           /\ asked'[Len(asked) + 1] = Answer(kind, name, ok)
           /\ Answer(kind, name, ok).kind = kind /\ Answer(kind, name, ok).name = name
           /\ Answer(kind, name, ok).ok = ok
<1>1. asked' = Append(asked, Answer(kind, name, ok)) /\ name \in Capabilities[kind]
    BY DEF AsksFor, Ask
<1>2. Answer(kind, name, ok) \in Answers
  <2>1. name \in UNION Range(Capabilities)
      BY <1>1 DEF Range
  <2> QED BY <1>1, <2>1 DEF Answers, Answer
<1>3. /\ Answer(kind, name, ok).kind = kind /\ Answer(kind, name, ok).name = name
      /\ Answer(kind, name, ok).ok = ok
    BY DEF Answer
<1> QED BY <1>1, <1>2, <1>3

\* Steps that neither ask nor touch the walk.
LEMMA BaseRest ==
    ASSUME Base, UNCHANGED <<request, tree, walk>>, NEW bad, Reported(bad),
           asked' = asked \/ (\E kind \in DOMAIN Capabilities : \E name, ok :
                                 AsksFor(kind, name, ok) /\ ok \in BOOLEAN),
           JobTyped', PlanTyped', EdgesLeft'
    PROVE  Base'
<1>1. WalkInv' /\ violations' \in Seq(Early)
    BY WalkStays
<1>2. AskedTyped'
  <2>1. CASE asked' = asked
      BY <2>1 DEF Base, AskedTyped
  <2>2. ASSUME NEW kind \in DOMAIN Capabilities, NEW name, NEW ok,
               AsksFor(kind, name, ok), ok \in BOOLEAN
        PROVE  asked' \in Seq(Answers)
      BY <2>2, Asking DEF Base, AskedTyped
  <2> QED BY <2>1, <2>2 DEF AskedTyped
<1>3. RequestTyped' /\ Told'
    BY <1>1 DEF Base, RequestTyped, Told
<1> QED BY <1>1, <1>2, <1>3 DEF Base

-----------------------------------------------------------------------------
\* Each step keeps the shape.

LEMMA PathIs ==
    ASSUME NEW path \in DOMAIN Relations
    PROVE  /\ path \in Seq(Range(path)) /\ Len(path) \in Nat \ {0}
           /\ \A n \in DOMAIN path : /\ SubSeq(path, 1, n) \in DOMAIN Relations
                                     /\ Len(SubSeq(path, 1, n)) = n
<1>1. /\ path \in Seq(Range(path)) /\ path # <<>>
      /\ \A n \in DOMAIN path : SubSeq(path, 1, n) \in DOMAIN Relations
    BY SchemaAssumption DEF IsList
<1>2. Len(path) \in Nat /\ Len(path) # 0 /\ DOMAIN path = 1..Len(path)
    BY <1>1
<1>3. ASSUME NEW n \in DOMAIN path
      PROVE  Len(SubSeq(path, 1, n)) = n
    BY <1>1, <1>2
<1> QED BY <1>1, <1>2, <1>3

\* The edges of a path that are not paid for yet.
LEMMA UnpaidAre ==
    ASSUME NEW path \in DOMAIN Relations
    PROVE  /\ Unpaid(path) \in Seq(DOMAIN Relations) /\ Len(Unpaid(path)) <= Len(path)
           /\ \A i \in DOMAIN Unpaid(path) :
                 /\ Unpaid(path)[i] \notin job.paid
                 /\ \E n \in DOMAIN path : Unpaid(path)[i] = SubSeq(path, 1, n)
           /\ \A i, j \in DOMAIN Unpaid(path) : Unpaid(path)[i] = Unpaid(path)[j] => i = j
           /\ \A n \in DOMAIN path : SubSeq(path, 1, n) \in job.paid \cup Range(Unpaid(path))
<1> DEFINE es == Edges(path)
           S  == {es[i] : i \in {j \in DOMAIN es : es[j] \notin job.paid}}
           us == Picked(es, S)
           N  == Len(path)
<1>1. /\ path \in Seq(Range(path)) /\ N \in Nat \ {0} /\ DOMAIN path = 1..N
      /\ \A n \in 1..N : SubSeq(path, 1, n) \in DOMAIN Relations /\ Len(SubSeq(path, 1, n)) = n
    BY PathIs
<1>2. /\ es \in Seq(DOMAIN Relations) /\ Len(es) = N /\ DOMAIN es = 1..N
      /\ \A n \in 1..N : es[n] = SubSeq(path, 1, n)
    BY <1>1 DEF Edges
<1>3. \A i, j \in 1..N : es[i] = es[j] => i = j
    BY <1>1, <1>2
<1>4. Unpaid(path) = us
    BY DEF Unpaid, Only
<1>5. PickedUpto(us, es, S, DOMAIN Relations, Len(es))
  <2> HIDE DEF es, S
  <2> QED BY <1>2, PickedIs
<1> HIDE DEF us
<1>6. /\ us \in Seq(DOMAIN Relations) /\ Len(us) <= N
      /\ \A j \in DOMAIN us : us[j] \in S /\ \E i \in 1..N : es[i] = us[j]
      /\ \A i \in 1..N : es[i] \in S => \E j \in DOMAIN us : us[j] = es[i]
      /\ \A i, j \in DOMAIN us : us[i] = us[j] => i = j
  <2> HIDE DEF es, S
  <2> QED BY <1>2, <1>3, <1>5 DEF PickedUpto
<1> HIDE DEF es
<1>7. \A e \in S : e \notin job.paid
    OBVIOUS
<1>8. \A n \in 1..N : es[n] \notin job.paid => es[n] \in S
    BY <1>2
<1> HIDE DEF S
<1>9. \A n \in 1..N : es[n] \in job.paid \cup Range(us)
    BY <1>6, <1>8 DEF Range
<1>10. \A j \in DOMAIN us : us[j] \notin job.paid /\ \E n \in DOMAIN path :
                                                       us[j] = SubSeq(path, 1, n)
  <2> SUFFICES ASSUME NEW j \in DOMAIN us
               PROVE  us[j] \notin job.paid /\ \E n \in DOMAIN path : us[j] = SubSeq(path, 1, n)
      OBVIOUS
  <2>1. us[j] \in S /\ \E i \in 1..N : es[i] = us[j]
      BY <1>6
  <2>2. PICK i \in 1..N : es[i] = us[j]
      BY <2>1
  <2>3. us[j] = SubSeq(path, 1, i) /\ i \in DOMAIN path
      BY <1>1, <1>2, <2>2
  <2>4. us[j] \notin job.paid
      BY <1>7, <2>1
  <2> QED BY <2>3, <2>4
<1>11. \A n \in DOMAIN path : SubSeq(path, 1, n) \in job.paid \cup Range(us)
  <2> SUFFICES ASSUME NEW n \in DOMAIN path
               PROVE  SubSeq(path, 1, n) \in job.paid \cup Range(us)
      OBVIOUS
  <2>1. n \in 1..N
      BY <1>1
  <2>2. es[n] = SubSeq(path, 1, n)
      BY <1>2, <2>1
  <2>3. es[n] \in job.paid \cup Range(us)
      BY <1>9, <2>1
  <2> QED BY <2>2, <2>3
<1> QED BY <1>4, <1>6, <1>10, <1>11, Zenon

LEMMA NoEdges ==
    ASSUME job'.edges = <<>>
    PROVE  EdgesLeft'
BY BoundsAre DEF EdgesLeft

\* The element of a phase that is next, and those after it.
LEMMA ElementIs ==
    ASSUME NEW A, job.todo \in Seq(A), job.todo # <<>>
    PROVE  /\ Element \in A /\ Tail(job.todo) \in Seq(A)
           /\ Len(Tail(job.todo)) = Len(job.todo) - 1 /\ Len(job.todo) \in Nat \ {0}
           /\ Element = job.todo[1]
           /\ \A i \in DOMAIN Tail(job.todo) : Tail(job.todo)[i] = job.todo[i + 1]
BY DEF Element

LEMMA SkippedKeeps ==
    ASSUME Base, Skipped
    PROVE  Base'
<1>1. /\ job.phase \in DOMAIN KindOf /\ job.todo # <<>> /\ Reported(TRUE)
      /\ job' = [job EXCEPT !.todo = Tail(@), !.seen = job'.seen, !.edges = <<>>]
      /\ UNCHANGED <<plan, walk, tree, request>>
    BY DEF Skipped
<1>2. JobTyped /\ PlanTyped
    BY DEF Base
<1>3. job.phase \in {"fields", "includes", "sorts"}
    BY <1>1 DEF KindOf
<1>4. /\ job'.phase = job.phase /\ job'.todo = Tail(job.todo) /\ job'.edges = <<>>
      /\ job'.paid = job.paid /\ IsJob(job')
    BY <1>1, <1>2 DEF JobTyped, IsJob
<1>5. JobTyped'
  <2>1. /\ In("fields") => /\ Tail(job.todo) \in Seq(Range(RequestedFields))
                           /\ Len(Tail(job.todo)) <= MaxFields
        /\ In("includes") => /\ Tail(job.todo) \in Seq(Range(RequestedIncludes))
                             /\ Len(Tail(job.todo)) <= MaxIncludes
        /\ In("sorts") => /\ Tail(job.todo) \in Seq(Range(RequestedSorts))
                          /\ Len(Tail(job.todo)) <= MaxSorts
      BY <1>1, <1>2, ElementIs, BoundsAre, SMTT(30) DEF JobTyped
  <2>2. In("fields")' = In("fields") /\ In("includes")' = In("includes")
        /\ In("sorts")' = In("sorts")
      BY <1>4 DEF In
  <2>3. <<>> \in Seq(DOMAIN Relations)
      OBVIOUS
  <2>4. walk' = walk
      BY <1>1
  <2> QED BY <1>1, <1>2, <1>4, <2>1, <2>2, <2>3, <2>4, SameRequest DEF JobTyped
<1>6. PlanTyped'
    BY <1>1, <1>2, SameRequest DEF PlanTyped
<1>7. asked' = asked \/ (\E kind \in DOMAIN Capabilities : \E name, ok :
                            AsksFor(kind, name, ok) /\ ok \in BOOLEAN)
  <2>1. KindOf[job.phase] \in DOMAIN Capabilities
      BY <1>3, CapabilitiesAre DEF KindOf
  <2> QED BY <2>1 DEF Skipped
<1> QED BY <1>1, <1>4, <1>5, <1>6, <1>7, NoEdges, BaseRest

LEMMA FieldTakenKeeps ==
    ASSUME Base, FieldTaken
    PROVE  Base'
<1>1. /\ job.phase = "fields" /\ job.todo # <<>> /\ AsksFor("field", Element, TRUE)
      /\ plan' = [plan EXCEPT !.responseFields = Append(@, Element)] /\ job' = Marked
      /\ UNCHANGED <<violations, walk, tree, request>>
    BY DEF FieldTaken, In
<1>2. /\ IsJob(job) /\ IsPlan(plan) /\ job.edges = <<>>
      /\ job.todo \in Seq(Range(RequestedFields)) /\ Len(job.todo) <= MaxFields
      /\ plan.responseFields \in Seq(Range(RequestedFields) \cap ToNames(Fields))
      /\ plan.includes \in Seq(Range(RequestedIncludes) \cap DOMAIN Relations)
      /\ plan.sorts \in Seq(SortTerms)
    BY <1>1 DEF Base, JobTyped, PlanTyped, In
<1>3. /\ job'.phase = "fields" /\ job'.todo = Tail(job.todo) /\ job'.edges = <<>>
      /\ job'.paid = job.paid /\ IsJob(job')
    BY <1>1, <1>2 DEF Marked, Next1, IsJob
<1>4. /\ Tail(job.todo) \in Seq(Range(RequestedFields)) /\ Len(Tail(job.todo)) <= MaxFields
      /\ Element \in Range(RequestedFields)
    BY <1>1, <1>2, ElementIs, BoundsAre
<1>5. JobTyped'
    BY <1>1, <1>3, <1>4, SameRequest DEF JobTyped, In, Phases, Walked
<1>6. PlanTyped'
  <2>1. Element \in Range(RequestedFields) \cap ToNames(Fields)
      BY <1>1, <1>4, CapabilitiesAre DEF AsksFor
  <2>2. /\ plan'.responseFields = Append(plan.responseFields, Element)
        /\ plan'.includes = plan.includes /\ plan'.sorts = plan.sorts /\ IsPlan(plan')
      BY <1>1, <1>2 DEF IsPlan
  <2>3. plan'.responseFields \in Seq(Range(RequestedFields) \cap ToNames(Fields))
      BY <1>2, <2>1, <2>2
  <2> QED BY <1>1, <1>2, <2>2, <2>3, SameRequest DEF PlanTyped
<1>7. Reported(FALSE)
    BY <1>1, Silent
<1>8. \E kind \in DOMAIN Capabilities : \E name, ok : AsksFor(kind, name, ok) /\ ok \in BOOLEAN
    BY <1>1, CapabilitiesAre
<1> QED BY <1>1, <1>3, <1>5, <1>6, <1>7, <1>8, NoEdges, BaseRest

LEMMA SortTakenKeeps ==
    ASSUME Base, SortTaken
    PROVE  Base'
<1>1. /\ job.phase = "sorts" /\ job.todo # <<>> /\ AsksFor("sort", Element.name, TRUE)
      /\ job' = SortMarked /\ UNCHANGED <<violations, walk, tree, request>>
    BY DEF SortTaken, In
<1>2. /\ IsJob(job) /\ IsPlan(plan) /\ job.edges = <<>> /\ walk.todo = <<>>
      /\ job.todo \in Seq(Range(RequestedSorts)) /\ Len(job.todo) <= MaxSorts
      /\ plan.responseFields \in Seq(Range(RequestedFields) \cap ToNames(Fields))
      /\ plan.includes \in Seq(Range(RequestedIncludes) \cap DOMAIN Relations)
      /\ plan.sorts \in Seq(SortTerms)
    BY <1>1 DEF Base, JobTyped, PlanTyped, In, Walked
<1>3. /\ job'.phase = "sorts" /\ job'.todo = Tail(job.todo) /\ job'.edges = <<>>
      /\ job'.paid = job.paid /\ IsJob(job')
    BY <1>1, <1>2 DEF SortMarked, Next1, IsJob
<1>4. /\ Tail(job.todo) \in Seq(Range(RequestedSorts)) /\ Len(Tail(job.todo)) <= MaxSorts
    BY <1>1, <1>2, ElementIs, BoundsAre
<1>5. JobTyped'
    BY <1>1, <1>2, <1>3, <1>4, SameRequest DEF JobTyped, In, Phases, Walked
<1>6. PlanTyped'
  <2>1. PICK s \in SortTerms : plan' = [plan EXCEPT !.sorts = Append(@, s)]
      BY DEF SortTaken
  <2>2. /\ plan'.sorts = Append(plan.sorts, s) /\ IsPlan(plan')
        /\ plan'.includes = plan.includes /\ plan'.responseFields = plan.responseFields
      BY <1>2, <2>1 DEF IsPlan
  <2>3. plan'.sorts \in Seq(SortTerms)
      BY <1>2, <2>1, <2>2
  <2> QED BY <1>1, <1>2, <2>2, <2>3, SameRequest DEF PlanTyped
<1>7. Reported(FALSE)
    BY <1>1, Silent
<1>8. \E kind \in DOMAIN Capabilities : \E name, ok : AsksFor(kind, name, ok) /\ ok \in BOOLEAN
    BY <1>1, CapabilitiesAre
<1> QED BY <1>1, <1>3, <1>5, <1>6, <1>7, <1>8, NoEdges, BaseRest

LEMMA TakeIncludeKeeps ==
    ASSUME Base, TakeInclude
    PROVE  Base'
<1> DEFINE j == [job EXCEPT !.seen = @ \cup {Element}]
<1>1. /\ job.phase = "includes" /\ job.todo # <<>> /\ job.edges = <<>>
      /\ Element \in DOMAIN Relations /\ Len(Element) <= MaxIncludeDepth
      /\ UNCHANGED <<violations, asked, walk, tree, request>>
      /\ \/ /\ Unpaid(Element) # <<>> /\ job' = [j EXCEPT !.edges = Unpaid(Element)]
            /\ plan' = plan
         \/ /\ Unpaid(Element) = <<>> /\ job' = [j EXCEPT !.todo = Tail(@)]
            /\ plan' = [plan EXCEPT !.includes = Append(@, Element)]
    BY DEF TakeInclude, In
<1>2. /\ IsJob(job) /\ IsPlan(plan)
      /\ job.todo \in Seq(Range(RequestedIncludes)) /\ Len(job.todo) <= MaxIncludes
      /\ plan.responseFields \in Seq(Range(RequestedFields) \cap ToNames(Fields))
      /\ plan.includes \in Seq(Range(RequestedIncludes) \cap DOMAIN Relations)
      /\ plan.sorts \in Seq(SortTerms)
    BY <1>1 DEF Base, JobTyped, PlanTyped, In
<1>3. Reported(FALSE)
    BY <1>1, Silent
<1>4. /\ Tail(job.todo) \in Seq(Range(RequestedIncludes)) /\ Len(Tail(job.todo)) <= MaxIncludes
      /\ Element \in Range(RequestedIncludes)
    BY <1>1, <1>2, ElementIs, BoundsAre
<1>5. CASE /\ Unpaid(Element) # <<>> /\ job' = [j EXCEPT !.edges = Unpaid(Element)]
           /\ plan' = plan
  <2>1. /\ job'.phase = "includes" /\ job'.todo = job.todo /\ job'.edges = Unpaid(Element)
        /\ job'.paid = job.paid /\ IsJob(job')
      BY <1>1, <1>2, <1>5 DEF IsJob
  <2>2. /\ Unpaid(Element) \in Seq(DOMAIN Relations) /\ Len(Unpaid(Element)) <= Len(Element)
        /\ \A i \in DOMAIN Unpaid(Element) : Unpaid(Element)[i] \notin job.paid
        /\ \A i, k \in DOMAIN Unpaid(Element) :
              Unpaid(Element)[i] = Unpaid(Element)[k] => i = k
        /\ \A n \in DOMAIN Element :
              SubSeq(Element, 1, n) \in job.paid \cup Range(Unpaid(Element))
    <3> HIDE DEF j
    <3> QED BY <1>1, UnpaidAre
  <2>3. JobTyped'
    <3> HIDE DEF j
    <3> QED BY <1>1, <1>2, <2>1, <2>2, SameRequest DEF JobTyped, In, Phases, Walked
  <2>4. PlanTyped'
      BY <1>1, <1>2, <1>5, SameRequest DEF PlanTyped
  <2>5. EdgesLeft'
    <3>1. Element' = Element
        BY <2>1 DEF Element
    <3>2. Len(Unpaid(Element)) <= MaxIncludeDepth
      <4>1. Len(Element) \in Nat /\ Len(Unpaid(Element)) \in Nat
          BY <1>1, <2>2, PathIs
      <4> QED BY <1>1, <2>2, <4>1, BoundsAre
    <3> DEFINE us == Unpaid(Element)
    <3>3. job'.edges = us /\ job'.paid = job.paid
        BY <2>1
    <3> HIDE DEF us, j
    <3> QED BY <1>1, <2>2, <3>1, <3>2, <3>3 DEF EdgesLeft, us
  <2> HIDE DEF j
  <2> QED BY <1>1, <1>3, <2>3, <2>4, <2>5, BaseRest
<1>6. CASE /\ Unpaid(Element) = <<>> /\ job' = [j EXCEPT !.todo = Tail(@)]
           /\ plan' = [plan EXCEPT !.includes = Append(@, Element)]
  <2>1. /\ job'.phase = "includes" /\ job'.todo = Tail(job.todo) /\ job'.edges = <<>>
        /\ job'.paid = job.paid /\ IsJob(job')
      BY <1>1, <1>2, <1>6 DEF IsJob
  <2>2. /\ plan'.includes = Append(plan.includes, Element) /\ IsPlan(plan')
        /\ plan'.responseFields = plan.responseFields /\ plan'.sorts = plan.sorts
      BY <1>2, <1>6 DEF IsPlan
  <2> HIDE DEF j
  <2>3. JobTyped'
    <3>1. <<>> \in Seq(DOMAIN Relations)
        OBVIOUS
    <3> QED BY <1>1, <1>4, <2>1, <3>1, SameRequest DEF JobTyped, In, Phases, Walked
  <2>4. plan'.includes \in Seq(Range(RequestedIncludes) \cap DOMAIN Relations)
      BY <1>1, <1>2, <1>4, <2>2
  <2>5. PlanTyped'
      BY <1>1, <1>2, <2>2, <2>4, SameRequest DEF PlanTyped
  <2> QED BY <1>1, <1>3, <2>1, <2>3, <2>5, NoEdges, BaseRest
<1> HIDE DEF j
<1> QED BY <1>1, <1>5, <1>6

LEMMA TailIs ==
    ASSUME NEW A, NEW s \in Seq(A), s # <<>>
    PROVE  /\ Len(s) \in Nat \ {0} /\ DOMAIN s = 1..Len(s)
           /\ Tail(s) \in Seq(A) /\ Len(Tail(s)) = Len(s) - 1
           /\ DOMAIN Tail(s) = 1..(Len(s) - 1) /\ Head(s) = s[1] /\ Head(s) \in A
           /\ \A i \in DOMAIN Tail(s) : Tail(s)[i] = s[i + 1] /\ i + 1 \in DOMAIN s
<1>1. /\ Len(s) \in Nat \ {0} /\ DOMAIN s = 1..Len(s)
      /\ Tail(s) \in Seq(A) /\ Len(Tail(s)) = Len(s) - 1 /\ Head(s) = s[1] /\ Head(s) \in A
    OBVIOUS
<1>2. DOMAIN Tail(s) = 1..(Len(s) - 1)
    BY <1>1
<1>3. \A i \in 1..(Len(s) - 1) : Tail(s)[i] = s[i + 1] /\ i + 1 \in 1..Len(s)
    OBVIOUS
<1> QED BY <1>1, <1>2, <1>3

LEMMA EdgeTakenKeeps ==
    ASSUME Base, EdgeTaken
    PROVE  Base'
<1> DEFINE edge == Head(job.edges)
           j    == [job EXCEPT !.edges = Tail(@), !.paid = @ \cup {edge}]
           rest == Tail(job.edges)
<1>1. /\ job.phase = "includes" /\ job.edges # <<>>
      /\ AsksFor("relationship", edge, TRUE)
      /\ UNCHANGED <<violations, walk, tree, request>>
      /\ \/ /\ rest = <<>> /\ job' = [j EXCEPT !.todo = Tail(@)]
            /\ plan' = [plan EXCEPT !.includes = Append(@, Element)]
         \/ rest # <<>> /\ job' = j /\ plan' = plan
    BY DEF EdgeTaken, In
<1>2. /\ IsJob(job) /\ IsPlan(plan) /\ job.todo # <<>>
      /\ job.edges \in Seq(DOMAIN Relations)
      /\ job.todo \in Seq(Range(RequestedIncludes)) /\ Len(job.todo) <= MaxIncludes
      /\ plan.responseFields \in Seq(Range(RequestedFields) \cap ToNames(Fields))
      /\ plan.includes \in Seq(Range(RequestedIncludes) \cap DOMAIN Relations)
      /\ plan.sorts \in Seq(SortTerms)
    BY <1>1 DEF Base, JobTyped, PlanTyped, In
<1>3. Reported(FALSE)
    BY <1>1, Silent
<1>4. /\ Tail(job.todo) \in Seq(Range(RequestedIncludes)) /\ Len(Tail(job.todo)) <= MaxIncludes
      /\ Element \in Range(RequestedIncludes)
    BY <1>2, ElementIs, BoundsAre
<1>5. /\ \A i \in DOMAIN job.edges : job.edges[i] \notin job.paid
      /\ \A i, k \in DOMAIN job.edges : job.edges[i] = job.edges[k] => i = k
      /\ Len(job.edges) <= MaxIncludeDepth
      /\ Element \in DOMAIN Relations
      /\ \A n \in DOMAIN Element : SubSeq(Element, 1, n) \in job.paid \cup Range(job.edges)
    BY <1>1 DEF Base, EdgesLeft
<1>6. /\ Len(job.edges) \in Nat \ {0} /\ DOMAIN job.edges = 1..Len(job.edges)
      /\ rest \in Seq(DOMAIN Relations) /\ Len(rest) = Len(job.edges) - 1
      /\ DOMAIN rest = 1..(Len(job.edges) - 1) /\ edge = job.edges[1]
      /\ \A i \in DOMAIN rest : rest[i] = job.edges[i + 1] /\ i + 1 \in DOMAIN job.edges
    BY <1>1, <1>2, TailIs
<1>7. \E kind \in DOMAIN Capabilities : \E name, ok : AsksFor(kind, name, ok) /\ ok \in BOOLEAN
    BY <1>1, CapabilitiesAre
<1>8. CASE /\ rest = <<>> /\ job' = [j EXCEPT !.todo = Tail(@)]
           /\ plan' = [plan EXCEPT !.includes = Append(@, Element)]
  <2>1. /\ job'.phase = "includes" /\ job'.todo = Tail(job.todo) /\ job'.edges = <<>>
        /\ IsJob(job')
      BY <1>1, <1>2, <1>8 DEF IsJob
  <2>2. /\ plan'.includes = Append(plan.includes, Element) /\ IsPlan(plan')
        /\ plan'.responseFields = plan.responseFields /\ plan'.sorts = plan.sorts
      BY <1>2, <1>8 DEF IsPlan
  <2> HIDE DEF j, edge, rest
  <2>3. JobTyped'
    <3>1. <<>> \in Seq(DOMAIN Relations)
        OBVIOUS
    <3> QED BY <1>1, <1>4, <2>1, <3>1, SameRequest DEF JobTyped, In, Phases, Walked
  <2>4. plan'.includes \in Seq(Range(RequestedIncludes) \cap DOMAIN Relations)
      BY <1>2, <1>4, <1>5, <2>2
  <2>5. PlanTyped'
      BY <1>1, <1>2, <2>2, <2>4, SameRequest DEF PlanTyped
  <2> QED BY <1>1, <1>3, <1>7, <2>1, <2>3, <2>5, NoEdges, BaseRest
<1>9. CASE rest # <<>> /\ job' = j /\ plan' = plan
  <2>1. /\ job'.phase = "includes" /\ job'.todo = job.todo /\ job'.edges = rest
        /\ job'.paid = job.paid \cup {edge} /\ IsJob(job')
      BY <1>1, <1>2, <1>9 DEF IsJob
  <2> HIDE DEF j
  <2>2. JobTyped'
    <3> HIDE DEF edge, rest
    <3> QED BY <1>1, <1>2, <1>6, <2>1, SameRequest DEF JobTyped, In, Phases, Walked
  <2>3. PlanTyped'
      BY <1>1, <1>2, <1>9, SameRequest DEF PlanTyped
  <2>4. EdgesLeft'
    <3>1. Element' = Element
        BY <2>1 DEF Element
    <3> HIDE DEF edge, rest
    <3>2. \A i \in DOMAIN rest : rest[i] \notin job.paid /\ rest[i] # edge
      <4> SUFFICES ASSUME NEW i \in DOMAIN rest
                   PROVE  rest[i] \notin job.paid /\ rest[i] # edge
          OBVIOUS
      <4>1. rest[i] = job.edges[i + 1] /\ i + 1 \in DOMAIN job.edges /\ i + 1 # 1
            /\ 1 \in DOMAIN job.edges
          BY <1>6
      <4> QED BY <1>5, <1>6, <4>1
    <3>3. \A i, k \in DOMAIN rest : rest[i] = rest[k] => i = k
      <4> SUFFICES ASSUME NEW i \in DOMAIN rest, NEW k \in DOMAIN rest, rest[i] = rest[k]
                   PROVE  i = k
          OBVIOUS
      <4>1. job.edges[i + 1] = job.edges[k + 1]
          BY <1>6
      <4>2. i + 1 = k + 1
          BY <1>5, <1>6, <4>1
      <4> QED BY <1>6, <4>2
    <3>4. Range(job.edges) \subseteq {edge} \cup Range(rest)
      <4> SUFFICES ASSUME NEW i \in DOMAIN job.edges
                   PROVE  job.edges[i] \in {edge} \cup Range(rest)
          BY DEF Range
      <4>1. CASE i = 1
          BY <1>6, <4>1
      <4>2. CASE i # 1
        <5>1. i - 1 \in DOMAIN rest /\ (i - 1) + 1 = i
            BY <1>6, <4>2
        <5>2. rest[i - 1] = job.edges[i]
            BY <1>6, <5>1
        <5> QED BY <5>1, <5>2 DEF Range
      <4> QED BY <4>1, <4>2
    <3>5. \A n \in DOMAIN Element :
             SubSeq(Element, 1, n) \in (job.paid \cup {edge}) \cup Range(rest)
        BY <1>5, <3>4
    <3>6. Len(rest) <= MaxIncludeDepth
        BY <1>5, <1>6, BoundsAre
    <3>7. job'.edges = rest /\ job'.paid = job.paid \cup {edge}
        BY <2>1
    <3> QED BY <1>5, <3>1, <3>2, <3>3, <3>5, <3>6, <3>7 DEF EdgesLeft
  <2> HIDE DEF edge, rest
  <2> QED BY <1>1, <1>3, <1>7, <2>2, <2>3, <2>4, BaseRest
<1> HIDE DEF j, edge, rest
<1> QED BY <1>1, <1>8, <1>9

LEMMA FilterNodeKeeps ==
    ASSUME Base, FilterNode
    PROVE  Base'
<1>1. job.phase = "filter" /\ Visit /\ UNCHANGED <<job, plan, tree, request>>
    BY DEF FilterNode, In
<1>2. WalkInv'
    BY <1>1, VisitKeeps DEF Base
<1>3. Told'
  <2>1. PICK bad : Reported(bad)
      BY <1>1, VisitMoves DEF In
  <2> QED BY <2>1 DEF Reported, Told
<1>4. AskedTyped'
  <2>1. CASE WalkQuiet
      BY <2>1 DEF WalkQuiet, Base, AskedTyped
  <2>2. CASE WalkAsks
    <3>1. PICK name, ok : AsksFor("filter", name, ok) /\ ok \in BOOLEAN
        BY <2>2 DEF WalkAsks
    <3>2. "filter" \in DOMAIN Capabilities /\ asked \in Seq(Answers)
        BY CapabilitiesAre DEF Base, AskedTyped
    <3> QED BY <3>1, <3>2, Asking DEF AskedTyped
  <2> QED BY <1>1, <2>1, <2>2, VisitMoves DEF In
<1>5. JobTyped' /\ EdgesLeft'
  <2>1. JobTyped /\ EdgesLeft /\ job.phase \notin Walked
      BY <1>1 DEF Base, Walked
  <2>2. job' = job
      BY <1>1
  <2>3. JobTyped'
      BY <1>1, <2>1, <2>2, SameRequest DEF JobTyped, In
  <2>4. EdgesLeft'
      BY <2>1, <2>2 DEF EdgesLeft, Element
  <2> QED BY <2>3, <2>4
<1>6. PlanTyped'
    BY <1>1, SameRequest DEF Base, PlanTyped
<1>7. RequestTyped'
    BY <1>1 DEF Base, RequestTyped
<1> QED BY <1>2, <1>3, <1>4, <1>5, <1>6, <1>7 DEF Base

\* The next phase begins with the right elements.
LEMMA EndShape ==
    ASSUME Base, UNCHANGED <<request, walk>>, NEW phase \in Phases, NEW todo,
           job' = Job(phase, todo),
           phase = "fields" => todo \in Seq(Range(RequestedFields)) /\ Len(todo) <= MaxFields,
           phase = "includes" => /\ todo \in Seq(Range(RequestedIncludes))
                                 /\ Len(todo) <= MaxIncludes,
           phase = "sorts" => todo \in Seq(Range(RequestedSorts)) /\ Len(todo) <= MaxSorts,
           phase \in Walked => walk.todo = <<>>
    PROVE  JobTyped' /\ EdgesLeft'
<1>1. /\ job'.phase = phase /\ job'.todo = todo /\ job'.edges = <<>> /\ job'.paid = {}
      /\ job'.seen = {} /\ IsJob(job')
    BY DEF Job, IsJob
<1>2. <<>> \in Seq(DOMAIN Relations)
    OBVIOUS
<1>3. JobTyped'
    BY <1>1, <1>2, SameRequest DEF JobTyped, In
<1> QED BY <1>1, <1>3, NoEdges

LEMMA PlanStays ==
    ASSUME Base, UNCHANGED request, IsPlan(plan'),
           plan'.responseFields = plan.responseFields, plan'.includes = plan.includes,
           plan'.sorts \in Seq(SortTerms)
    PROVE  PlanTyped'
BY SameRequest DEF Base, PlanTyped

LEMMA EndsKeep ==
    ASSUME Base, Start \/ EndFields \/ EndIncludes \/ EndFilter \/ EndSorts
    PROVE  Base'
<1>0. /\ JobTyped /\ PlanTyped /\ IsPlan(plan) /\ request \in Requests
      /\ plan.sorts \in Seq(SortTerms)
    BY DEF Base, PlanTyped, RequestTyped
<1>1. CASE Start
  <2>1. /\ plan' = [plan EXCEPT !.constraints = Upto(request.constraints, MaxValues)]
        /\ job' = Job("fields", Upto(RequestedFields, MaxFields))
        /\ UNCHANGED <<bill, decoder, asked, walk, tree, request>>
      BY <1>1 DEF Start
  <2>2. PICK bad : Reported(bad)
      BY <1>1, StartTells
  <2>3. /\ Upto(RequestedFields, MaxFields) \in Seq(Range(RequestedFields))
        /\ Len(Upto(RequestedFields, MaxFields)) <= MaxFields
      BY <1>0, RequestedAre, BoundsAre, UptoIs
  <2>4. JobTyped' /\ EdgesLeft'
      BY <2>1, <2>3, EndShape DEF Phases, Walked
  <2>5. PlanTyped'
      BY <1>0, <2>1, PlanStays DEF IsPlan
  <2> QED BY <2>1, <2>2, <2>4, <2>5, BaseRest
<1>2. CASE EndFields
  <2>1. /\ job.phase = "fields"
        /\ plan' = [plan EXCEPT !.executionFields = RequiredMissing \o plan.responseFields]
        /\ Report(TooMany(RequestedIncludes, MaxIncludes))
        /\ job' = Job("includes", Upto(RequestedIncludes, MaxIncludes))
        /\ UNCHANGED <<asked, walk, tree, request>>
      BY <1>2 DEF EndFields, In
  <2>2. Reported(Len(RequestedIncludes) > MaxIncludes)
      BY <1>0, <2>1, RequestedAre, BoundsAre, LengthTells
  <2>3. /\ Upto(RequestedIncludes, MaxIncludes) \in Seq(Range(RequestedIncludes))
        /\ Len(Upto(RequestedIncludes, MaxIncludes)) <= MaxIncludes
      BY <1>0, RequestedAre, BoundsAre, UptoIs
  <2>4. JobTyped' /\ EdgesLeft'
      BY <2>1, <2>3, EndShape DEF Phases, Walked
  <2>5. PlanTyped'
      BY <1>0, <2>1, PlanStays DEF IsPlan
  <2> QED BY <2>1, <2>2, <2>4, <2>5, BaseRest
<1>3. CASE EndIncludes
  <2>1. /\ job.phase = "includes" /\ job' = Job("filter", <<>>)
        /\ UNCHANGED <<plan, violations, asked, walk, tree, request>>
      BY <1>3 DEF EndIncludes, In
  <2>2. Reported(FALSE)
      BY <2>1, Silent
  <2>3. JobTyped' /\ EdgesLeft'
      BY <2>1, EndShape DEF Phases, Walked
  <2>4. PlanTyped'
      BY <1>0, <2>1, PlanStays
  <2> QED BY <2>1, <2>2, <2>3, <2>4, BaseRest
<1>4. CASE EndFilter
  <2>1. /\ job.phase = "filter" /\ walk.todo = <<>>
        /\ Report(TooMany(RequestedSorts, MaxSorts))
        /\ job' = Job("sorts", Upto(RequestedSorts, MaxSorts))
        /\ UNCHANGED <<plan, asked, walk, tree, request>>
      BY <1>4 DEF EndFilter, In
  <2>2. Reported(Len(RequestedSorts) > MaxSorts)
      BY <1>0, <2>1, RequestedAre, BoundsAre, LengthTells
  <2>3. /\ Upto(RequestedSorts, MaxSorts) \in Seq(Range(RequestedSorts))
        /\ Len(Upto(RequestedSorts, MaxSorts)) <= MaxSorts
      BY <1>0, RequestedAre, BoundsAre, UptoIs
  <2>4. JobTyped' /\ EdgesLeft'
      BY <2>1, <2>3, EndShape DEF Phases, Walked
  <2>5. PlanTyped'
      BY <1>0, <2>1, PlanStays
  <2> QED BY <2>1, <2>2, <2>4, <2>5, BaseRest
<1>5. CASE EndSorts
  <2>1. /\ job.phase = "sorts" /\ walk.todo = <<>>
        /\ plan' = [plan EXCEPT !.page = Normalized(request.page)]
        /\ Report(PageFaults(Normalized(request.page)))
        /\ job' = Job("page", <<>>)
        /\ UNCHANGED <<asked, walk, tree, request>>
      BY <1>0, <1>5 DEF EndSorts, In, JobTyped, Walked
  <2>2. Reported(PageFaults(Normalized(request.page)) # <<>>)
      BY <2>1, PageTells, Telling
  <2>3. JobTyped' /\ EdgesLeft'
      BY <2>1, EndShape DEF Phases, Walked
  <2>4. PlanTyped'
      BY <1>0, <2>1, PlanStays DEF IsPlan
  <2> QED BY <2>1, <2>2, <2>3, <2>4, BaseRest
<1> QED BY <1>1, <1>2, <1>3, <1>4, <1>5

\* The tie-breakers of a schema are among its sorts, and cursor pages have one.
LEMMA TieBreakersAre ==
    /\ TieBreakers \in Seq(Range(SortDefs))
    /\ TieBreakers # <<>> => \E i \in DOMAIN SortDefs : Head(TieBreakers) = SortDefs[i]
    /\ Pagination.cursor => TieBreakers # <<>>
<1> DEFINE S == {SortDefs[i] : i \in {j \in DOMAIN SortDefs : SortDefs[j].tie}}
           ts == Picked(SortDefs, S)
<1>1. SortDefs \in Seq(Range(SortDefs)) /\ DOMAIN SortDefs = 1..Len(SortDefs)
    BY SchemaAssumption DEF IsList
<1>2. TieBreakers = ts
    BY DEF TieBreakers, Only
<1>3. PickedUpto(ts, SortDefs, S, Range(SortDefs), Len(SortDefs))
  <2> HIDE DEF S
  <2> QED BY <1>1, PickedIs
<1>4. Pagination.cursor => \E i \in 1..Len(SortDefs) : SortDefs[i] \in S
    BY <1>1, SchemaAssumption
<1> HIDE DEF ts, S
<1>5. /\ ts \in Seq(Range(SortDefs))
      /\ \A i \in 1..Len(SortDefs) : SortDefs[i] \in S => \E j \in DOMAIN ts : ts[j] = SortDefs[i]
    BY <1>3 DEF PickedUpto
<1>6. Pagination.cursor => DOMAIN ts # {}
    BY <1>4, <1>5
<1>7. Pagination.cursor => ts # <<>>
    BY <1>6
<1>8. ts # <<>> => Head(ts) \in Range(SortDefs)
    BY <1>5
<1> QED BY <1>2, <1>5, <1>7, <1>8 DEF Range

LEMMA PageEndsKeep ==
    ASSUME Base, NoTie \/ NoDecode \/ (\E ok \in BOOLEAN : Tie(ok))
                   \/ (\E state \in DecoderStates \cup {NoCursor} : Decode(state))
    PROVE  Base'
<1>0. /\ JobTyped /\ PlanTyped /\ IsPlan(plan) /\ plan.sorts \in Seq(SortTerms)
    BY DEF Base, PlanTyped
<1>1. ASSUME job.phase \in {"page", "cursor"}, NEW phase \in {"cursor", "cost"},
             job' = Job(phase, <<>>), UNCHANGED <<request, walk, tree>>, PlanTyped',
             NEW bad, Reported(bad),
             asked' = asked \/ (\E kind \in DOMAIN Capabilities : \E name, ok :
                                   AsksFor(kind, name, ok) /\ ok \in BOOLEAN)
      PROVE  Base'
  <2>1. walk.todo = <<>>
      BY <1>0, <1>1 DEF JobTyped, Walked
  <2>2. JobTyped' /\ EdgesLeft'
      BY <1>1, <2>1, EndShape DEF Phases, Walked
  <2> QED BY <1>1, <2>2, BaseRest
<1>2. CASE NoTie
  <2>1. /\ job.phase = "page" /\ Report(Fault(NeedsTie, "limit_exceeded"))
        /\ job' = Job("cursor", <<>>) /\ UNCHANGED <<plan, asked, walk, tree, request>>
      BY <1>2 DEF NoTie, In
  <2>2. Reported(NeedsTie)
      BY <2>1, FaultTells, EarlyIs
  <2>3. PlanTyped'
      BY <1>0, <2>1, PlanStays
  <2> QED BY <1>1, <2>1, <2>2, <2>3
<1>3. ASSUME NEW ok \in BOOLEAN, Tie(ok)
      PROVE  Base'
  <2> DEFINE d == Head(TieBreakers)
             s == [name |-> d.name, dir |-> "asc", nulls |-> d.nulls]
  <2>1. /\ job.phase = "page" /\ NeedsTie /\ Ask("sort", d.name, ok)
        /\ Report(Fault(~ok, "authorization_rejected"))
        /\ plan' = IF ok THEN [plan EXCEPT !.sorts = Append(@, s)] ELSE plan
        /\ job' = Job("cursor", <<>>) /\ UNCHANGED <<walk, tree, request>>
      BY <1>3 DEF Tie, In
  <2>2. Reported(~ok)
      BY <2>1, FaultTells, EarlyIs
  <2>3. PICK i \in DOMAIN SortDefs : d = SortDefs[i]
      BY <2>1, TieBreakersAre DEF NeedsTie
  <2>4. d.name \in ToNames(SortDefs) /\ s \in SortTerms
      BY <2>3 DEF ToNames, SortTerms
  <2>5. AsksFor("sort", d.name, ok) /\ "sort" \in DOMAIN Capabilities
      BY <2>1, <2>4, CapabilitiesAre DEF AsksFor
  <2> HIDE DEF d, s
  <2>6. PlanTyped'
    <3>1. /\ IsPlan(plan') /\ plan'.responseFields = plan.responseFields
          /\ plan'.includes = plan.includes
          /\ plan'.sorts = Append(plan.sorts, s) \/ plan'.sorts = plan.sorts
        BY <1>0, <2>1 DEF IsPlan
    <3>2. plan'.sorts \in Seq(SortTerms)
        BY <1>0, <2>4, <3>1
    <3> QED BY <2>1, <3>1, <3>2, PlanStays
  <2>7. \E kind \in DOMAIN Capabilities : \E name, answer :
           AsksFor(kind, name, answer) /\ answer \in BOOLEAN
      BY <2>5
  <2> QED BY <1>1, <2>1, <2>2, <2>6, <2>7
<1>4. CASE NoDecode
  <2>1. /\ job.phase = "cursor" /\ Report(Fault(OneToken, "cursor_failure"))
        /\ job' = Job("cost", <<>>) /\ UNCHANGED <<plan, asked, walk, tree, request>>
      BY <1>4 DEF NoDecode, In
  <2>2. Reported(OneToken)
      BY <2>1, FaultTells, EarlyIs
  <2>3. PlanTyped'
      BY <1>0, <2>1, PlanStays
  <2> QED BY <1>1, <2>1, <2>2, <2>3
<1>5. ASSUME NEW state, Decode(state)
      PROVE  Base'
  <2>1. /\ job.phase = "cursor" /\ job' = Job("cost", <<>>)
        /\ UNCHANGED <<asked, walk, tree, request>>
        /\ \/ /\ plan' = [plan EXCEPT !.cursor = state, !.page.after = NoCursor,
                                      !.page.before = NoCursor]
              /\ UNCHANGED violations
           \/ Report(<<"cursor_failure">>) /\ plan' = plan
      BY <1>5 DEF Decode, In
  <2>2. \E bad : Reported(bad)
      BY <2>1, Silent, TellingOne, EarlyIs
  <2>3. PlanTyped'
    <3>1. /\ IsPlan(plan') /\ plan'.responseFields = plan.responseFields
          /\ plan'.includes = plan.includes /\ plan'.sorts = plan.sorts
        BY <1>0, <2>1 DEF IsPlan
    <3> QED BY <1>0, <2>1, <3>1, PlanStays
  <2> QED BY <1>1, <2>1, <2>2, <2>3
<1> QED BY <1>2, <1>3, <1>4, <1>5

LEMMA FinishKeeps ==
    ASSUME Base, Finish
    PROVE  Base'
<1>1. /\ job.phase = "cost" /\ job' = Job("done", <<>>)
      /\ UNCHANGED <<plan, asked, walk, tree, request>>
      /\ \E broken : Report(Fault(broken, "cost_limit"))
    BY DEF Finish, In
<1>2. /\ JobTyped /\ PlanTyped /\ IsPlan(plan) /\ plan.sorts \in Seq(SortTerms)
      /\ walk.todo = <<>> /\ WTyped /\ WalkInv
    BY <1>1 DEF Base, PlanTyped, JobTyped, Walked, WalkInv
<1>3. JobTyped' /\ EdgesLeft'
    BY <1>1, <1>2, EndShape DEF Phases, Walked
<1>4. PlanTyped'
    BY <1>1, <1>2, PlanStays
<1>5. WalkInv'
  <2>1. PICK broken : Report(Fault(broken, "cost_limit"))
      BY <1>1
  <2>2. Fault(broken, "cost_limit") \in Seq(Codes)
      BY FaultTyped DEF Codes
  <2>3. /\ violations' \in Seq(Codes) /\ Len(violations') <= MaxErrors
        /\ violations' = <<>> => violations = <<>>
      BY <1>2, <2>1, <2>2, Reporting
  <2> QED BY <1>1, <1>2, <2>3, ElsewhereKeeps
<1>6. RequestTyped' /\ AskedTyped'
    BY <1>1 DEF Base, RequestTyped, AskedTyped
<1>7. Told'
    BY <1>1 DEF Told, Job
<1> QED BY <1>3, <1>4, <1>5, <1>6, <1>7 DEF Base

-----------------------------------------------------------------------------
\* Base is an invariant.

Ends  == Start \/ EndFields \/ EndIncludes \/ EndFilter \/ EndSorts \/ NoTie \/ NoDecode
           \/ (\E state \in DecoderStates \cup {NoCursor} : Decode(state)) \/ Finish
Taken == FieldTaken \/ TakeInclude \/ EdgeTaken \/ SortTaken
Tied  == \E ok \in BOOLEAN : Tie(ok)

LEMMA NextMoves ==
    ASSUME Base, CompileNext
    PROVE  Skipped \/ Taken \/ FilterNode \/ Ends \/ Tied
<1>1. CASE RefuseField \/ RefuseInclude \/ RefuseSort
    BY <1>1, RefusalsSkip
<1>2. CASE \E ok \in BOOLEAN : Field(ok)
    BY <1>2, FieldMoves DEF Taken
<1>3. CASE \E ok \in BOOLEAN : Edge(ok)
    BY <1>3, EdgeMoves DEF Taken
<1>4. CASE \E ok \in BOOLEAN : Sort(ok)
    BY <1>4, SortMoves DEF Taken
<1>5. CASE TakeInclude
    BY <1>5 DEF Taken
<1>6. CASE \E ok \in BOOLEAN : Tie(ok)
    BY <1>6 DEF Tied
<1>7. CASE Start \/ EndFields \/ EndIncludes \/ EndFilter \/ EndSorts \/ NoTie \/ NoDecode
             \/ (\E state \in DecoderStates \cup {NoCursor} : Decode(state)) \/ Finish
    BY <1>7 DEF Ends
<1>8. CASE FilterNode
    BY <1>8
<1> QED BY <1>1, <1>2, <1>3, <1>4, <1>5, <1>6, <1>7, <1>8, Zenon DEF CompileNext

LEMMA BaseInit ==
    ASSUME CompileInit
    PROVE  Base
<1>1. /\ request \in Requests /\ tree = request.filter /\ walk = NoWalk(tree)
      /\ violations = <<>> /\ asked = <<>> /\ job = Job("start", <<>>) /\ plan = NoPlan
    BY DEF CompileInit
<1>2. WalkInv
  <2>1. IsTree(tree)
      BY <1>1, RequestsAssumption
  <2> QED BY <1>1, <2>1, WalkInvInit
<1>3. JobTyped /\ EdgesLeft
    BY <1>1, BoundsAre DEF JobTyped, EdgesLeft, Job, IsJob, Phases, Walked, In
<1>4. PlanTyped
    BY <1>1 DEF PlanTyped, NoPlan, IsPlan
<1> QED BY <1>1, <1>2, <1>3, <1>4 DEF Base, RequestTyped, Told, AskedTyped

LEMMA BaseStutters ==
    ASSUME Base, UNCHANGED cvars
    PROVE  Base'
<1>1. /\ request' = request /\ job' = job /\ plan' = plan /\ tree' = tree /\ walk' = walk
      /\ violations' = violations /\ asked' = asked
    BY DEF cvars
<1>2. WalkInv'
  <2>1. violations \in Seq(Codes) /\ Len(violations) <= MaxErrors
      BY DEF Base, WalkInv, WTyped
  <2> QED BY <1>1, <2>1, ElsewhereKeeps DEF Base
<1>3. JobTyped'
    BY <1>1, SameRequest DEF Base, JobTyped, In
<1>4. EdgesLeft'
    BY <1>1 DEF Base, EdgesLeft, Element
<1>5. PlanTyped'
    BY <1>1, SameRequest DEF Base, PlanTyped
<1> QED BY <1>1, <1>2, <1>3, <1>4, <1>5 DEF Base, RequestTyped, Told, AskedTyped

LEMMA BaseKeeps ==
    ASSUME Base, [CompileNext]_cvars
    PROVE  Base'
<1>1. CASE CompileNext
  <2>1. CASE Taken
      BY <2>1, FieldTakenKeeps, TakeIncludeKeeps, EdgeTakenKeeps, SortTakenKeeps DEF Taken
  <2>2. CASE Ends
      BY <2>2, EndsKeep, PageEndsKeep, FinishKeeps DEF Ends
  <2>3. CASE Tied
      BY <2>3, PageEndsKeep DEF Tied
  <2> QED BY <1>1, <2>1, <2>2, <2>3, NextMoves, SkippedKeeps, FilterNodeKeeps
<1>2. CASE UNCHANGED cvars
    BY <1>2, BaseStutters
<1> QED BY <1>1, <1>2

\* At every phase of Compile the request is as it came, the job holds parts of it
\* that are still to do, the plan holds parts that were vouched for, and once a
\* violation has been recorded nothing says that there was none
\* (src/compile.go:81-112).  The other invariants are proved beside this one.
THEOREM BaseInvariant == CompileSpec => []Base
<1>1. CompileInit => Base
    BY BaseInit
<1>2. Base /\ [CompileNext]_cvars => Base'
    BY BaseKeeps
<1> QED BY <1>1, <1>2, PTL DEF CompileSpec

-----------------------------------------------------------------------------
\* What the steps leave alone, for all the properties that follow.

LEMMA SkippedLeaves ==
    ASSUME Base, Skipped
    PROVE  /\ UNCHANGED <<plan, bill, decoder, walk, tree, request>>
           /\ job'.phase = job.phase /\ job'.todo = Tail(job.todo)
           /\ job'.edges = <<>> /\ job'.paid = job.paid
           /\ violations' # <<>>
<1>1. IsJob(job)
    BY DEF Base, JobTyped
<1>2. /\ Reported(TRUE) /\ UNCHANGED <<plan, bill, decoder, walk, tree, request>>
      /\ job' = [job EXCEPT !.todo = Tail(@), !.seen = job'.seen, !.edges = <<>>]
    BY DEF Skipped
<1>3. /\ job'.phase = job.phase /\ job'.todo = Tail(job.todo)
      /\ job'.edges = <<>> /\ job'.paid = job.paid
    BY <1>1, <1>2 DEF IsJob
<1> QED BY <1>2, <1>3 DEF Reported

LEMMA FieldTakenLeaves ==
    ASSUME Base, FieldTaken
    PROVE  /\ UNCHANGED <<violations, decoder, walk, tree, request>>
           /\ plan'.responseFields = Append(plan.responseFields, Element)
           /\ plan'.executionFields = plan.executionFields
           /\ plan'.includes = plan.includes /\ plan'.sorts = plan.sorts
           /\ plan'.constraints = plan.constraints /\ plan'.page = plan.page
           /\ plan'.cursor = plan.cursor
           /\ job.phase = "fields" /\ job.todo # <<>>
           /\ job'.phase = "fields" /\ job'.todo = Tail(job.todo)
           /\ job'.seen = job.seen \cup {Element}
           /\ job'.edges = job.edges /\ job'.paid = job.paid
<1>1. IsJob(job) /\ IsPlan(plan)
    BY DEF Base, JobTyped, PlanTyped
<1>2. /\ UNCHANGED <<violations, decoder, walk, tree, request>>
      /\ plan' = [plan EXCEPT !.responseFields = Append(@, Element)]
      /\ job.phase = "fields" /\ job.todo # <<>> /\ job' = Marked
    BY DEF FieldTaken, In
<1>3. /\ job'.phase = job.phase /\ job'.todo = Tail(job.todo)
      /\ job'.seen = job.seen \cup {Element}
      /\ job'.edges = job.edges /\ job'.paid = job.paid
    BY <1>1, <1>2 DEF Marked, Next1, IsJob
<1>4. /\ plan'.responseFields = Append(plan.responseFields, Element)
      /\ plan'.executionFields = plan.executionFields
      /\ plan'.includes = plan.includes /\ plan'.sorts = plan.sorts
      /\ plan'.constraints = plan.constraints /\ plan'.page = plan.page
      /\ plan'.cursor = plan.cursor
    BY <1>1, <1>2 DEF IsPlan
<1> QED BY <1>2, <1>3, <1>4

LEMMA SortTakenLeaves ==
    ASSUME Base, SortTaken
    PROVE  /\ UNCHANGED <<violations, bill, decoder, walk, tree, request>>
           /\ \E s \in SortTerms : s.name = Element.name /\ plan'.sorts = Append(plan.sorts, s)
           /\ plan'.responseFields = plan.responseFields /\ plan'.includes = plan.includes
           /\ plan'.executionFields = plan.executionFields
           /\ plan'.constraints = plan.constraints /\ plan'.page = plan.page
           /\ plan'.cursor = plan.cursor
           /\ job.phase = "sorts" /\ job.todo # <<>>
           /\ job'.phase = "sorts" /\ job'.todo = Tail(job.todo)
           /\ job'.edges = <<>> /\ job'.paid = job.paid
<1>1. IsJob(job) /\ IsPlan(plan)
    BY DEF Base, JobTyped, PlanTyped
<1>2. /\ UNCHANGED <<violations, bill, decoder, walk, tree, request>>
      /\ job.phase = "sorts" /\ job.todo # <<>> /\ job' = SortMarked
    BY DEF SortTaken, In
<1>3. PICK s \in SortTerms : /\ s.name = Element.name
                             /\ plan' = [plan EXCEPT !.sorts = Append(@, s)]
    BY DEF SortTaken
<1>4. /\ job'.phase = job.phase /\ job'.todo = Tail(job.todo)
      /\ job'.edges = job.edges /\ job'.paid = job.paid
    BY <1>1, <1>2 DEF SortMarked, Next1, IsJob
<1>5. job.edges = <<>>
    BY <1>2 DEF Base, JobTyped, In
<1>6. /\ plan'.sorts = Append(plan.sorts, s)
      /\ plan'.responseFields = plan.responseFields /\ plan'.includes = plan.includes
      /\ plan'.executionFields = plan.executionFields
      /\ plan'.constraints = plan.constraints /\ plan'.page = plan.page
      /\ plan'.cursor = plan.cursor
    BY <1>1, <1>3 DEF IsPlan
<1> QED BY <1>2, <1>3, <1>4, <1>5, <1>6

\* An include goes into the plan with its last edge.
IncludeDone ==
    /\ job'.todo = Tail(job.todo) /\ job'.edges = <<>>
    /\ plan'.includes = Append(plan.includes, Element)
    /\ plan'.responseFields = plan.responseFields /\ plan'.sorts = plan.sorts
    /\ plan'.executionFields = plan.executionFields
    /\ plan'.constraints = plan.constraints /\ plan'.page = plan.page
    /\ plan'.cursor = plan.cursor
IncludeOpen == job'.todo = job.todo /\ job'.edges # <<>> /\ plan' = plan

LEMMA TakeIncludeLeaves ==
    ASSUME Base, TakeInclude
    PROVE  /\ UNCHANGED <<violations, asked, bill, decoder, walk, tree, request>>
           /\ job.phase = "includes" /\ job'.phase = "includes" /\ job'.paid = job.paid
           /\ job.todo # <<>> /\ job.edges = <<>> /\ job'.edges = Unpaid(Element)
           /\ Element \in DOMAIN Relations /\ Len(Element) <= MaxIncludeDepth
           /\ IncludeDone \/ IncludeOpen
<1> DEFINE j == [job EXCEPT !.seen = @ \cup {Element}]
<1>1. /\ job.phase = "includes" /\ job.todo # <<>> /\ job.edges = <<>>
      /\ Element \in DOMAIN Relations /\ Len(Element) <= MaxIncludeDepth
      /\ UNCHANGED <<violations, asked, bill, decoder, walk, tree, request>>
      /\ \/ /\ Unpaid(Element) # <<>> /\ job' = [j EXCEPT !.edges = Unpaid(Element)]
            /\ plan' = plan
         \/ /\ Unpaid(Element) = <<>> /\ job' = [j EXCEPT !.todo = Tail(@)]
            /\ plan' = [plan EXCEPT !.includes = Append(@, Element)]
    BY DEF TakeInclude, In
<1>2. IsJob(job) /\ IsPlan(plan)
    BY DEF Base, JobTyped, PlanTyped
<1>3. job'.phase = job.phase /\ job'.paid = job.paid /\ job'.edges = Unpaid(Element)
    BY <1>1, <1>2 DEF IsJob
<1>4. IncludeDone \/ IncludeOpen
    BY <1>1, <1>2 DEF IsJob, IsPlan, IncludeDone, IncludeOpen
<1> HIDE DEF j
<1> QED BY <1>1, <1>3, <1>4

LEMMA EdgeTakenLeaves ==
    ASSUME Base, EdgeTaken
    PROVE  /\ UNCHANGED <<violations, decoder, walk, tree, request>>
           /\ job.phase = "includes" /\ job'.phase = "includes"
           /\ job'.paid = job.paid \cup {Head(job.edges)}
           /\ job.edges \in Seq(DOMAIN Relations) /\ job.edges # <<>>
           /\ job'.edges = Tail(job.edges) /\ job.todo # <<>>
           /\ Head(job.edges) \in DOMAIN Relations /\ Head(job.edges) \notin job.paid
           /\ AsksFor("relationship", Head(job.edges), TRUE)
           /\ bill' = Charge(bill, Relations[Head(job.edges)].cost)
           /\ IncludeDone \/ IncludeOpen
<1> DEFINE edge == Head(job.edges)
           j    == [job EXCEPT !.edges = Tail(@), !.paid = @ \cup {edge}]
           rest == Tail(job.edges)
<1>1. /\ job.phase = "includes" /\ job.edges # <<>>
      /\ AsksFor("relationship", edge, TRUE)
      /\ bill' = Charge(bill, Relations[edge].cost)
      /\ UNCHANGED <<violations, decoder, walk, tree, request>>
      /\ \/ /\ rest = <<>> /\ job' = [j EXCEPT !.todo = Tail(@)]
            /\ plan' = [plan EXCEPT !.includes = Append(@, Element)]
         \/ rest # <<>> /\ job' = j /\ plan' = plan
    BY DEF EdgeTaken, In
<1>2. /\ IsJob(job) /\ IsPlan(plan) /\ job.edges \in Seq(DOMAIN Relations)
      /\ job.todo # <<>> /\ \A i \in DOMAIN job.edges : job.edges[i] \notin job.paid
    BY <1>1 DEF Base, JobTyped, PlanTyped, EdgesLeft, In
<1>3. edge \in DOMAIN Relations /\ edge \notin job.paid
    BY <1>1, <1>2
<1>4. job'.phase = job.phase /\ job'.paid = job.paid \cup {edge} /\ job'.edges = rest
    BY <1>1, <1>2 DEF IsJob
<1>5. IncludeDone \/ IncludeOpen
    BY <1>1, <1>2 DEF IsJob, IsPlan, IncludeDone, IncludeOpen
<1> HIDE DEF j, edge, rest
<1> QED BY <1>1, <1>2, <1>3, <1>4, <1>5 DEF edge, rest

LEMMA EndsLeave ==
    ASSUME Base, Ends
    PROVE  /\ UNCHANGED <<asked, walk, tree, request>>
           /\ plan'.responseFields = plan.responseFields
           /\ plan'.includes = plan.includes /\ plan'.sorts = plan.sorts
           /\ job'.edges = <<>> /\ job'.paid = {}
           /\ violations' = <<>> => violations = <<>>
<1>1. IsPlan(plan) /\ WTyped
    BY DEF Base, PlanTyped, WalkInv
<1>2. ASSUME NEW codes \in Seq(Codes), Report(codes)
      PROVE  violations' = <<>> => violations = <<>>
    BY <1>1, <1>2, Reporting
<1>3. ASSUME NEW broken, NEW code \in Codes, Report(Fault(broken, code))
      PROVE  violations' = <<>> => violations = <<>>
    BY <1>2, <1>3, FaultTyped
<1>4. ASSUME NEW phase, NEW todo, job' = Job(phase, todo)
      PROVE  job'.edges = <<>> /\ job'.paid = {}
    BY <1>4 DEF Job
<1>5. ASSUME NEW bad, Reported(bad)
      PROVE  violations' = <<>> => violations = <<>>
    BY <1>5 DEF Reported
<1>6. CASE Start
  <2>1. /\ plan' = [plan EXCEPT !.constraints = Upto(request.constraints, MaxValues)]
        /\ job' = Job("fields", Upto(RequestedFields, MaxFields))
        /\ UNCHANGED <<asked, walk, tree, request>>
      BY <1>6 DEF Start
  <2>2. /\ plan'.responseFields = plan.responseFields
        /\ plan'.includes = plan.includes /\ plan'.sorts = plan.sorts
      BY <1>1, <2>1 DEF IsPlan
  <2> QED BY <1>4, <1>5, <1>6, <2>1, <2>2, StartTells
<1>7. CASE EndFields
  <2>1. /\ plan' = [plan EXCEPT !.executionFields = RequiredMissing \o plan.responseFields]
        /\ Report(TooMany(RequestedIncludes, MaxIncludes))
        /\ job' = Job("includes", Upto(RequestedIncludes, MaxIncludes))
        /\ UNCHANGED <<asked, walk, tree, request>>
      BY <1>7 DEF EndFields
  <2>2. /\ plan'.responseFields = plan.responseFields
        /\ plan'.includes = plan.includes /\ plan'.sorts = plan.sorts
      BY <1>1, <2>1 DEF IsPlan
  <2> QED BY <1>3, <1>4, <2>1, <2>2 DEF TooMany, Codes
<1>8. CASE EndIncludes
    BY <1>4, <1>8 DEF EndIncludes
<1>9. CASE EndFilter
  <2>1. /\ Report(TooMany(RequestedSorts, MaxSorts))
        /\ job' = Job("sorts", Upto(RequestedSorts, MaxSorts))
        /\ UNCHANGED <<plan, asked, walk, tree, request>>
      BY <1>9 DEF EndFilter
  <2> QED BY <1>3, <1>4, <2>1 DEF TooMany, Codes
<1>10. CASE EndSorts
  <2>1. /\ plan' = [plan EXCEPT !.page = Normalized(request.page)]
        /\ Report(PageFaults(Normalized(request.page)))
        /\ job.phase = "sorts" /\ job' = Job("page", <<>>)
        /\ UNCHANGED <<asked, walk, tree, request>>
      BY <1>10 DEF EndSorts, In
  <2>2. /\ plan'.responseFields = plan.responseFields
        /\ plan'.includes = plan.includes /\ plan'.sorts = plan.sorts
      BY <1>1, <2>1 DEF IsPlan
  <2>3. Reported(PageFaults(Normalized(request.page)) # <<>>)
      BY <2>1, PageTells, Telling
  <2> QED BY <1>4, <1>5, <2>1, <2>2, <2>3
<1>11. CASE NoTie \/ NoDecode
    BY <1>3, <1>4, <1>11 DEF NoTie, NoDecode, Codes
<1>12. ASSUME NEW state, Decode(state)
       PROVE  /\ UNCHANGED <<asked, walk, tree, request>>
              /\ plan'.responseFields = plan.responseFields
              /\ plan'.includes = plan.includes /\ plan'.sorts = plan.sorts
              /\ job'.edges = <<>> /\ job'.paid = {}
              /\ violations' = <<>> => violations = <<>>
  <2>1. /\ job' = Job("cost", <<>>) /\ UNCHANGED <<asked, walk, tree, request>>
        /\ \/ /\ plan' = [plan EXCEPT !.cursor = state, !.page.after = NoCursor,
                                      !.page.before = NoCursor]
              /\ UNCHANGED violations
           \/ Report(<<"cursor_failure">>) /\ plan' = plan
      BY <1>12 DEF Decode
  <2>2. /\ plan'.responseFields = plan.responseFields
        /\ plan'.includes = plan.includes /\ plan'.sorts = plan.sorts
      BY <1>1, <2>1 DEF IsPlan
  <2>3. <<"cursor_failure">> \in Seq(Codes)
      BY DEF Codes
  <2> QED BY <1>2, <1>4, <2>1, <2>2, <2>3
<1>13. CASE Finish
    BY <1>3, <1>4, <1>13 DEF Finish, Codes
<1> QED BY <1>6, <1>7, <1>8, <1>9, <1>10, <1>11, <1>12, <1>13 DEF Ends

LEMMA TiedLeaves ==
    ASSUME Base, NEW ok \in BOOLEAN, Tie(ok)
    PROVE  /\ UNCHANGED <<bill, decoder, walk, tree, request>>
           /\ NeedsTie /\ HasRoom /\ job.phase = "page" /\ job'.phase = "cursor"
           /\ AsksFor("sort", Head(TieBreakers).name, ok)
           /\ Reported(~ok)
           /\ plan'.responseFields = plan.responseFields /\ plan'.includes = plan.includes
           /\ plan'.executionFields = plan.executionFields
           /\ plan'.constraints = plan.constraints /\ plan'.page = plan.page
           /\ plan'.cursor = plan.cursor
           /\ ok => \E s \in SortTerms : /\ s.name = Head(TieBreakers).name
                                         /\ plan'.sorts = Append(plan.sorts, s)
           /\ ~ok => plan'.sorts = plan.sorts
           /\ job'.edges = <<>> /\ job'.paid = {}
<1> DEFINE d == Head(TieBreakers)
           s == [name |-> d.name, dir |-> "asc", nulls |-> d.nulls]
<1>1. /\ job.phase = "page" /\ NeedsTie /\ HasRoom /\ Ask("sort", d.name, ok)
      /\ Report(Fault(~ok, "authorization_rejected"))
      /\ plan' = IF ok THEN [plan EXCEPT !.sorts = Append(@, s)] ELSE plan
      /\ job' = Job("cursor", <<>>) /\ UNCHANGED <<bill, decoder, walk, tree, request>>
    BY DEF Tie, In
<1>2. Reported(~ok)
    BY <1>1, FaultTells, EarlyIs
<1>3. PICK i \in DOMAIN SortDefs : d = SortDefs[i]
    BY <1>1, TieBreakersAre DEF NeedsTie
<1>4. d.name \in ToNames(SortDefs) /\ s \in SortTerms /\ s.name = d.name
    BY <1>3 DEF ToNames, SortTerms
<1>5. AsksFor("sort", d.name, ok)
    BY <1>1, <1>4, CapabilitiesAre DEF AsksFor
<1>6. IsPlan(plan)
    BY DEF Base, PlanTyped
<1> HIDE DEF d, s
<1>7. /\ plan'.responseFields = plan.responseFields /\ plan'.includes = plan.includes
      /\ plan'.executionFields = plan.executionFields
      /\ plan'.constraints = plan.constraints /\ plan'.page = plan.page
      /\ plan'.cursor = plan.cursor
      /\ ok => plan'.sorts = Append(plan.sorts, s)
      /\ ~ok => plan'.sorts = plan.sorts
    BY <1>1, <1>6 DEF IsPlan
<1>8. job'.phase = "cursor" /\ job'.edges = <<>> /\ job'.paid = {}
    BY <1>1 DEF Job
<1> QED BY <1>1, <1>2, <1>4, <1>5, <1>7, <1>8 DEF d

-----------------------------------------------------------------------------
\* What is in the plan was granted.

GrantedNames(kind) ==
    {asked[i].name : i \in {j \in DOMAIN asked : asked[j].kind = kind /\ asked[j].ok}}
AllGranted == \A i \in DOMAIN asked : asked[i].ok

Vouched ==
    /\ Range(plan.responseFields) \subseteq GrantedNames("field")
    /\ job.paid \subseteq GrantedNames("relationship")
    /\ \A p \in Range(plan.includes) : \A n \in 1..Len(p) :
          SubSeq(p, 1, n) \in GrantedNames("relationship")
    /\ \A at \in Leaves(walk.kept) : tree[at].pred.name \in GrantedNames("filter")
    /\ \A s \in Range(plan.sorts) : s.name \in GrantedNames("sort")
    /\ violations = <<>> => AllGranted

AskStep == asked' = asked \/ (\E kind \in DOMAIN Capabilities : \E name, ok :
                                 AsksFor(kind, name, ok) /\ ok \in BOOLEAN)

LEMMA GrantedStays ==
    ASSUME Base, AskStep, NEW kind
    PROVE  GrantedNames(kind) \subseteq GrantedNames(kind)'
<1>1. CASE asked' = asked
    BY <1>1 DEF GrantedNames
<1>2. ASSUME NEW k \in DOMAIN Capabilities, NEW name, NEW ok \in BOOLEAN,
             AsksFor(k, name, ok)
      PROVE  GrantedNames(kind) \subseteq GrantedNames(kind)'
  <2>1. /\ \A i \in DOMAIN asked : asked'[i] = asked[i]
        /\ DOMAIN asked = 1..Len(asked) /\ DOMAIN asked' = 1..(Len(asked) + 1)
        /\ Len(asked) \in Nat
      BY <1>2, Asking DEF Base, AskedTyped
  <2>2. \A i \in DOMAIN asked : i \in DOMAIN asked'
      BY <2>1
  <2> QED BY <2>1, <2>2 DEF GrantedNames
<1> QED BY <1>1, <1>2 DEF AskStep

LEMMA GrantedNow ==
    ASSUME Base, NEW kind \in DOMAIN Capabilities, NEW name, AsksFor(kind, name, TRUE)
    PROVE  name \in GrantedNames(kind)' /\ (AllGranted => AllGranted')
<1> DEFINE n == Len(asked) + 1
<1>1. /\ \A i \in DOMAIN asked : asked'[i] = asked[i]
      /\ DOMAIN asked = 1..Len(asked) /\ DOMAIN asked' = 1..n /\ Len(asked) \in Nat
      /\ asked'[n].kind = kind /\ asked'[n].name = name /\ asked'[n].ok = TRUE
  <2>1. asked \in Seq(Answers) /\ TRUE \in BOOLEAN
      BY DEF Base, AskedTyped
  <2>2. /\ \A i \in DOMAIN asked : asked'[i] = asked[i]
        /\ DOMAIN asked = 1..Len(asked) /\ DOMAIN asked' = 1..n /\ Len(asked) \in Nat
      BY <2>1, Asking
  <2>3. asked'[n] = Answer(kind, name, TRUE)
      BY <2>1, Asking
  <2> QED BY <2>2, <2>3 DEF Answer
<1>2. \A i : i \in DOMAIN asked' <=> i \in DOMAIN asked \/ i = n
    BY <1>1
<1>3. n \notin DOMAIN asked
    BY <1>1
<1> HIDE DEF n
<1>4. AllGranted => AllGranted'
    BY <1>1, <1>2 DEF AllGranted
<1>5. n \in DOMAIN asked'
    BY <1>2
<1>6. name \in GrantedNames(kind)'
    BY <1>1, <1>5 DEF GrantedNames
<1> QED BY <1>4, <1>6

LEMMA RangeAppend ==
    ASSUME NEW A, NEW s \in Seq(A), NEW e
    PROVE  Range(Append(s, e)) = Range(s) \cup {e}
<1>1. /\ DOMAIN s = 1..Len(s) /\ DOMAIN Append(s, e) = 1..(Len(s) + 1) /\ Len(s) \in Nat
      /\ \A i \in 1..Len(s) : Append(s, e)[i] = s[i]
      /\ Append(s, e)[Len(s) + 1] = e
    OBVIOUS
<1>2. \A i : i \in 1..(Len(s) + 1) <=> i \in 1..Len(s) \/ i = Len(s) + 1
    BY <1>1
<1> DEFINE t == Append(s, e)
           n == Len(s) + 1
<1>3. /\ DOMAIN t = 1..n /\ t[n] = e /\ \A i \in DOMAIN s : t[i] = s[i]
      /\ \A i : i \in DOMAIN t <=> i \in DOMAIN s \/ i = n
    BY <1>1, <1>2
<1> HIDE DEF t, n
<1>4. Range(t) = Range(s) \cup {e}
    BY <1>3 DEF Range
<1> QED BY <1>4 DEF t

LEMMA LastOne ==
    ASSUME NEW A, NEW s \in Seq(A), s # <<>>, Tail(s) = <<>>
    PROVE  Range(s) = {Head(s)}
<1> DEFINE t == Tail(s)
<1>1. Len(t) = Len(s) - 1 /\ Len(s) \in Nat /\ DOMAIN s = 1..Len(s) /\ Head(s) = s[1]
    BY TailIs
<1>2. t = <<>>
    OBVIOUS
<1> HIDE DEF t
<1>3. Len(t) = 0
    BY <1>2
<1>4. DOMAIN s = {1}
    BY <1>1, <1>3
<1> QED BY <1>1, <1>4 DEF Range

LEMMA MovesAsk ==
    ASSUME Base, Skipped \/ Taken \/ FilterNode \/ Ends \/ Tied
    PROVE  AskStep
<1>1. CASE Skipped
  <2>1. KindOf[job.phase] \in DOMAIN Capabilities
      BY <1>1, CapabilitiesAre DEF Skipped, KindOf
  <2> QED BY <1>1, <2>1 DEF Skipped, AskStep
<1>2. CASE Taken
  <2>1. CASE TakeInclude
      BY <2>1, TakeIncludeLeaves DEF AskStep
  <2>2. CASE FieldTaken
      BY <2>2, CapabilitiesAre DEF FieldTaken, AskStep
  <2>3. CASE SortTaken
      BY <2>3, CapabilitiesAre DEF SortTaken, AskStep
  <2>4. CASE EdgeTaken
      BY <2>4, EdgeTakenLeaves, CapabilitiesAre DEF AskStep
  <2> QED BY <1>2, <2>1, <2>2, <2>3, <2>4 DEF Taken
<1>3. CASE FilterNode
  <2>1. In("filter") /\ Visit
      BY <1>3 DEF FilterNode
  <2>2. CASE WalkQuiet
      BY <2>2 DEF WalkQuiet, AskStep
  <2>3. CASE WalkAsks
      BY <2>3, CapabilitiesAre DEF WalkAsks, AskStep
  <2> QED BY <2>1, <2>2, <2>3, VisitMoves
<1>4. CASE Ends
    BY <1>4, EndsLeave DEF AskStep
<1>5. CASE Tied
    BY <1>5, TiedLeaves, CapabilitiesAre DEF Tied, AskStep
<1> QED BY <1>1, <1>2, <1>3, <1>4, <1>5

\* An answer that is reported, or is yes, keeps the last conjunct.
LEMMA VouchedStays ==
    ASSUME Base, Vouched, AskStep, UNCHANGED tree,
           Range(plan'.responseFields) \subseteq
                Range(plan.responseFields) \cup GrantedNames("field")',
           job'.paid \subseteq job.paid \cup GrantedNames("relationship")',
           \A p \in Range(plan'.includes) : p \in Range(plan.includes) \/
                \A n \in 1..Len(p) : SubSeq(p, 1, n) \in GrantedNames("relationship")',
           \A at \in walk'.kept : at \in walk.kept \/ ~IsLeaf(at) \/
                tree[at].pred.name \in GrantedNames("filter")',
           \A s \in Range(plan'.sorts) : s \in Range(plan.sorts) \/
                s.name \in GrantedNames("sort")',
           violations' = <<>> => violations = <<>> /\ (AllGranted => AllGranted')
    PROVE  Vouched'
<1>1. \A kind : GrantedNames(kind) \subseteq GrantedNames(kind)'
    BY GrantedStays
<1>2. Range(plan'.responseFields) \subseteq GrantedNames("field")'
    BY <1>1 DEF Vouched
<1>3. job'.paid \subseteq GrantedNames("relationship")'
    BY <1>1 DEF Vouched
<1>4. \A p \in Range(plan'.includes) : \A n \in 1..Len(p) :
         SubSeq(p, 1, n) \in GrantedNames("relationship")'
    BY <1>1 DEF Vouched
<1>5. \A at \in Leaves(walk.kept)' : tree'[at].pred.name \in GrantedNames("filter")'
    BY <1>1 DEF Vouched, Leaves, IsLeaf
<1>6. \A s \in Range(plan'.sorts) : s.name \in GrantedNames("sort")'
    BY <1>1 DEF Vouched
<1>7. violations' = <<>> => AllGranted'
    BY DEF Vouched
<1> QED BY <1>2, <1>3, <1>4, <1>5, <1>6, <1>7 DEF Vouched

LEMMA VouchedKeeps ==
    ASSUME Base, Vouched, Skipped \/ Taken \/ FilterNode \/ Ends \/ Tied
    PROVE  Vouched'
<1>0. /\ AskStep /\ "field" \in DOMAIN Capabilities
      /\ "relationship" \in DOMAIN Capabilities /\ "filter" \in DOMAIN Capabilities
      /\ "sort" \in DOMAIN Capabilities
      /\ plan.responseFields \in Seq(Range(RequestedFields) \cap ToNames(Fields))
      /\ plan.includes \in Seq(Range(RequestedIncludes) \cap DOMAIN Relations)
      /\ plan.sorts \in Seq(SortTerms)
    BY MovesAsk, CapabilitiesAre DEF Base, PlanTyped
<1>1. CASE Skipped
  <2>1. /\ UNCHANGED <<plan, walk, tree>> /\ job'.paid = job.paid /\ violations' # <<>>
      BY <1>1, SkippedLeaves
  <2> QED BY <1>0, <2>1, VouchedStays
<1>2. CASE FieldTaken
  <2>1. /\ UNCHANGED <<violations, walk, tree>> /\ AsksFor("field", Element, TRUE)
        /\ plan'.responseFields = Append(plan.responseFields, Element)
        /\ plan'.includes = plan.includes /\ plan'.sorts = plan.sorts /\ job'.paid = job.paid
      BY <1>2, FieldTakenLeaves DEF FieldTaken
  <2>2. Range(plan'.responseFields) = Range(plan.responseFields) \cup {Element}
      BY <1>0, <2>1, RangeAppend
  <2>3. Element \in GrantedNames("field")' /\ (AllGranted => AllGranted')
      BY <1>0, <2>1, GrantedNow
  <2> QED BY <1>0, <2>1, <2>2, <2>3, VouchedStays
<1>3. ASSUME IncludeDone,
             \A n \in 1..Len(Element) : SubSeq(Element, 1, n) \in GrantedNames("relationship")'
      PROVE  /\ \A p \in Range(plan'.includes) : p \in Range(plan.includes) \/
                   \A n \in 1..Len(p) : SubSeq(p, 1, n) \in GrantedNames("relationship")'
             /\ plan'.responseFields = plan.responseFields /\ plan'.sorts = plan.sorts
  <2>1. Range(plan'.includes) = Range(plan.includes) \cup {Element}
      BY <1>0, <1>3, RangeAppend DEF IncludeDone
  <2> QED BY <1>3, <2>1 DEF IncludeDone
<1>4. CASE TakeInclude
  <2>1. /\ UNCHANGED <<violations, asked, walk, tree>> /\ job'.paid = job.paid
        /\ job'.edges = Unpaid(Element) /\ Element \in DOMAIN Relations
        /\ IncludeDone \/ IncludeOpen
      BY <1>4, TakeIncludeLeaves
  <2>2. CASE IncludeDone
    <3>1. Unpaid(Element) = <<>> /\ DOMAIN Element = 1..Len(Element)
        BY <2>1, <2>2, PathIs DEF IncludeDone
    <3>2. \A n \in 1..Len(Element) : SubSeq(Element, 1, n) \in job.paid
      <4>1. Range(Unpaid(Element)) = {}
          BY <3>1 DEF Range
      <4> QED BY <2>1, <3>1, <4>1, UnpaidAre
    <3>3. \A n \in 1..Len(Element) : SubSeq(Element, 1, n) \in GrantedNames("relationship")'
        BY <1>0, <3>2, GrantedStays DEF Vouched
    <3>4. AllGranted' = AllGranted
        BY <2>1 DEF AllGranted
    <3> QED BY <1>0, <1>3, <2>1, <2>2, <3>3, <3>4, VouchedStays
  <2>3. CASE IncludeOpen
    <3>1. plan' = plan /\ AllGranted' = AllGranted
        BY <2>1, <2>3 DEF IncludeOpen, AllGranted
    <3> QED BY <1>0, <2>1, <3>1, VouchedStays
  <2> QED BY <2>1, <2>2, <2>3
<1>5. CASE EdgeTaken
  <2> DEFINE edge == Head(job.edges)
  <2>1. /\ UNCHANGED <<violations, walk, tree>> /\ job'.paid = job.paid \cup {edge}
        /\ job.edges \in Seq(DOMAIN Relations) /\ job.edges # <<>>
        /\ job'.edges = Tail(job.edges) /\ AsksFor("relationship", edge, TRUE)
        /\ IncludeDone \/ IncludeOpen
      BY <1>5, EdgeTakenLeaves
  <2>2. edge \in GrantedNames("relationship")' /\ (AllGranted => AllGranted')
    <3> HIDE DEF edge
    <3> QED BY <1>0, <2>1, GrantedNow
  <2>3. CASE IncludeDone
    <3>1. Tail(job.edges) = <<>>
        BY <2>1, <2>3 DEF IncludeDone
    <3>2. Range(job.edges) = {edge}
      <4> HIDE DEF edge
      <4> QED BY <2>1, <3>1, LastOne DEF edge
    <3>3. Element \in DOMAIN Relations /\
          \A n \in DOMAIN Element : SubSeq(Element, 1, n) \in job.paid \cup {edge}
      <4> HIDE DEF edge
      <4> QED BY <2>1, <3>2 DEF Base, EdgesLeft
    <3>4. DOMAIN Element = 1..Len(Element)
        BY <3>3, PathIs
    <3> HIDE DEF edge
    <3>5. \A n \in 1..Len(Element) : SubSeq(Element, 1, n) \in GrantedNames("relationship")'
        BY <1>0, <2>2, <3>3, <3>4, GrantedStays DEF Vouched
    <3> QED BY <1>0, <1>3, <2>1, <2>2, <2>3, <3>5, VouchedStays
  <2>4. CASE IncludeOpen
    <3>1. plan' = plan
        BY <2>4 DEF IncludeOpen
    <3> HIDE DEF edge
    <3> QED BY <1>0, <2>1, <2>2, <3>1, VouchedStays
  <2> QED BY <2>1, <2>3, <2>4
<1>6. CASE SortTaken
  <2>1. /\ UNCHANGED <<violations, walk, tree>> /\ AsksFor("sort", Element.name, TRUE)
        /\ plan'.includes = plan.includes /\ plan'.responseFields = plan.responseFields
        /\ job'.paid = job.paid
      BY <1>6, SortTakenLeaves DEF SortTaken
  <2>2. PICK s : s.name = Element.name /\ plan'.sorts = Append(plan.sorts, s)
      BY <1>6, SortTakenLeaves
  <2>3. Range(plan'.sorts) = Range(plan.sorts) \cup {s}
      BY <1>0, <2>2, RangeAppend
  <2>4. Element.name \in GrantedNames("sort")' /\ (AllGranted => AllGranted')
      BY <1>0, <2>1, GrantedNow
  <2> QED BY <1>0, <2>1, <2>2, <2>3, <2>4, VouchedStays
<1>7. CASE FilterNode
  <2>1. In("filter") /\ Visit /\ UNCHANGED <<job, plan, tree>>
      BY <1>7 DEF FilterNode
  <2>2. (\E bad : Reported(bad)) /\ (WalkQuiet \/ WalkAsks)
      BY <2>1, VisitMoves
  <2>3. violations' = <<>> => violations = <<>>
      BY <2>2 DEF Reported
  <2>4. CASE WalkQuiet
    <3>1. AllGranted' = AllGranted /\ \A at \in walk'.kept : at \in walk.kept \/ ~IsLeaf(at)
        BY <2>4 DEF WalkQuiet, AllGranted
    <3> QED BY <1>0, <2>1, <2>3, <3>1, VouchedStays
  <2>5. CASE WalkAsks
    <3>1. PICK name, ok : /\ AsksFor("filter", name, ok) /\ ok \in BOOLEAN
                          /\ \A at \in walk'.kept : at \in walk.kept \/
                                                    (ok /\ tree[at].pred.name = name)
                          /\ violations' = <<>> => ok
        BY <2>5 DEF WalkAsks
    <3>2. CASE ok = TRUE
      <4>1. AsksFor("filter", name, TRUE)
          BY <3>1, <3>2
      <4>2. name \in GrantedNames("filter")' /\ (AllGranted => AllGranted')
          BY <1>0, <4>1, GrantedNow
      <4> QED BY <1>0, <2>1, <2>3, <3>1, <4>2, VouchedStays
    <3>3. CASE ok = FALSE
      <4>1. walk'.kept \subseteq walk.kept /\ violations' # <<>>
          BY <3>1, <3>3
      <4> QED BY <1>0, <2>1, <4>1, VouchedStays
    <3> QED BY <3>1, <3>2, <3>3
  <2> QED BY <2>2, <2>4, <2>5
<1>8. CASE Ends
  <2>1. /\ UNCHANGED <<asked, walk, tree>> /\ plan'.responseFields = plan.responseFields
        /\ plan'.includes = plan.includes /\ plan'.sorts = plan.sorts /\ job'.paid = {}
        /\ violations' = <<>> => violations = <<>>
      BY <1>8, EndsLeave
  <2>2. AllGranted' = AllGranted
      BY <2>1 DEF AllGranted
  <2> QED BY <1>0, <2>1, <2>2, VouchedStays
<1>9. ASSUME NEW ok \in BOOLEAN, Tie(ok)
      PROVE  Vouched'
  <2> DEFINE name == Head(TieBreakers).name
  <2>1. /\ UNCHANGED <<walk, tree>> /\ AsksFor("sort", name, ok) /\ Reported(~ok)
        /\ plan'.responseFields = plan.responseFields /\ plan'.includes = plan.includes
        /\ ok => \E s \in SortTerms : s.name = name /\ plan'.sorts = Append(plan.sorts, s)
        /\ ~ok => plan'.sorts = plan.sorts
        /\ job'.paid = {}
      BY <1>9, TiedLeaves
  <2> HIDE DEF name
  <2>2. CASE ok = TRUE
    <3>1. PICK s : s.name = name /\ plan'.sorts = Append(plan.sorts, s)
        BY <2>1, <2>2
    <3>2. Range(plan'.sorts) = Range(plan.sorts) \cup {s}
        BY <1>0, <3>1, RangeAppend
    <3>3. AsksFor("sort", name, TRUE)
        BY <2>1, <2>2
    <3>4. name \in GrantedNames("sort")' /\ (AllGranted => AllGranted')
        BY <1>0, <3>3, GrantedNow
    <3>5. violations' = <<>> => violations = <<>>
        BY <2>1 DEF Reported
    <3> QED BY <1>0, <2>1, <3>1, <3>2, <3>4, <3>5, VouchedStays
  <2>3. CASE ok = FALSE
    <3>1. violations' # <<>> /\ plan'.sorts = plan.sorts
        BY <2>1, <2>3 DEF Reported
    <3> QED BY <1>0, <2>1, <3>1, VouchedStays
  <2> QED BY <2>2, <2>3
<1> QED BY <1>1, <1>2, <1>4, <1>5, <1>6, <1>7, <1>8, <1>9 DEF Taken, Tied

LEMMA VouchedInit ==
    ASSUME CompileInit
    PROVE  Vouched
<1>1. /\ walk = NoWalk(tree) /\ asked = <<>> /\ job = Job("start", <<>>) /\ plan = NoPlan
    BY DEF CompileInit
<1>2. /\ plan.responseFields = <<>> /\ plan.includes = <<>> /\ plan.sorts = <<>>
      /\ job.paid = {} /\ walk.kept = {}
    BY <1>1 DEF NoPlan, Job, NoWalk
<1>3. Range(<<>>) = {} /\ DOMAIN asked = {}
    BY <1>1 DEF Range
<1> QED BY <1>2, <1>3 DEF Vouched, Leaves, AllGranted

LEMMA VouchedInvariant ==
    CompileSpec => []Vouched
<1>1. CompileInit => Vouched
    BY VouchedInit
<1>2. Base /\ Vouched /\ [CompileNext]_cvars => Vouched'
  <2> SUFFICES ASSUME Base, Vouched, [CompileNext]_cvars
               PROVE  Vouched'
      OBVIOUS
  <2>1. CASE CompileNext
      BY <2>1, NextMoves, VouchedKeeps
  <2>2. CASE UNCHANGED cvars
    <3>1. /\ plan' = plan /\ job' = job /\ asked' = asked /\ walk' = walk /\ tree' = tree
          /\ violations' = violations
        BY <2>2 DEF cvars
    <3>2. \A kind : GrantedNames(kind)' = GrantedNames(kind)
        BY <3>1 DEF GrantedNames
    <3> QED BY <3>1, <3>2 DEF Vouched, Leaves, IsLeaf, AllGranted
  <2> QED BY <2>1, <2>2
<1> QED BY <1>1, <1>2, BaseInvariant, PTL DEF CompileSpec

\* Whatever is in a plan that Compile returns was granted while it ran, every
\* edge of every include and the tie-breaker too, and nothing was refused
\* (compile.go:137-189, 208-234, 303-320, 381-406, 460-468).
THEOREM OnlyTheGranted == CompileSpec => []PlanAuthorized
<1>1. Vouched => PlanAuthorized
  <2> SUFFICES ASSUME Vouched, Returned
               PROVE  /\ \A i \in DOMAIN plan.responseFields :
                            Granted("field", plan.responseFields[i])
                      /\ \A i \in DOMAIN plan.includes : \A n \in 1..Len(plan.includes[i]) :
                            Granted("relationship", SubSeq(plan.includes[i], 1, n))
                      /\ \A at \in Leaves(walk.kept) : Granted("filter", tree[at].pred.name)
                      /\ \A i \in DOMAIN plan.sorts : Granted("sort", plan.sorts[i].name)
                      /\ \A i \in DOMAIN asked : asked[i].ok
      BY DEF PlanAuthorized
  <2>1. \A kind : \A name \in GrantedNames(kind) : Granted(kind, name)
      BY DEF GrantedNames, Granted
  <2>2. \A i \in DOMAIN plan.responseFields : Granted("field", plan.responseFields[i])
      BY <2>1 DEF Vouched, Range
  <2>3. ASSUME NEW i \in DOMAIN plan.includes, NEW n \in 1..Len(plan.includes[i])
        PROVE  Granted("relationship", SubSeq(plan.includes[i], 1, n))
    <3> DEFINE p == plan.includes[i]
    <3>1. p \in Range(plan.includes)
        BY DEF Range
    <3> HIDE DEF p
    <3>2. \A k \in 1..Len(p) : Granted("relationship", SubSeq(p, 1, k))
        BY <2>1, <3>1 DEF Vouched
    <3> QED BY <3>2 DEF p
  <2>4. \A at \in Leaves(walk.kept) : Granted("filter", tree[at].pred.name)
      BY <2>1 DEF Vouched
  <2>5. \A i \in DOMAIN plan.sorts : Granted("sort", plan.sorts[i].name)
      BY <2>1 DEF Vouched, Range
  <2>6. AllGranted
      BY DEF Vouched, Returned
  <2> QED BY <2>2, <2>3, <2>4, <2>5, <2>6 DEF AllGranted
<1> QED BY <1>1, VouchedInvariant, PTL

-----------------------------------------------------------------------------
\* What the ends of the phases begin.

\* The next phase, the elements it is given of a list that may be too long, and
\* whether that was reported.
Begins(phase, list, max) ==
    /\ job'.phase = phase /\ job'.todo = Upto(list, max)
    /\ violations' = <<>> => Len(list) <= max

Moves(from, to) == job.phase = from /\ job'.phase = to /\ job'.todo = <<>>

LEMMA EndsBegin ==
    ASSUME Base, Ends
    PROVE  \/ /\ Start /\ job.phase = "start" /\ Begins("fields", RequestedFields, MaxFields)
              /\ plan'.constraints = Upto(request.constraints, MaxValues)
              /\ violations' = <<>> => Len(request.constraints) <= MaxValues
              /\ plan'.executionFields = plan.executionFields
              /\ plan'.page = plan.page /\ plan'.cursor = plan.cursor
              /\ decoder' = decoder /\ bill' = bill
           \/ /\ plan'.constraints = plan.constraints
              /\ \/ /\ EndFields /\ job.phase = "fields" /\ job.todo = <<>>
                    /\ Begins("includes", RequestedIncludes, MaxIncludes)
                    /\ plan'.page = plan.page /\ plan'.cursor = plan.cursor
                    /\ decoder' = decoder
                 \/ /\ EndIncludes /\ Moves("includes", "filter") /\ job.todo = <<>>
                    /\ plan' = plan /\ decoder' = decoder /\ bill' = bill
                 \/ /\ EndFilter /\ job.phase = "filter" /\ walk.todo = <<>>
                    /\ Begins("sorts", RequestedSorts, MaxSorts)
                    /\ plan' = plan /\ decoder' = decoder /\ bill' = bill
                 \/ /\ EndSorts /\ Moves("sorts", "page") /\ job.todo = <<>>
                    /\ decoder' = decoder /\ bill' = bill
                    /\ plan'.executionFields = plan.executionFields
                    /\ plan'.page = Normalized(request.page) /\ plan'.cursor = plan.cursor
                 \/ /\ NoTie /\ Moves("page", "cursor")
                    /\ plan' = plan /\ decoder' = decoder /\ bill' = bill
                 \/ /\ NoDecode /\ Moves("cursor", "cost")
                    /\ plan' = plan /\ decoder' = decoder /\ bill' = bill
                 \/ /\ \E state : Decode(state)
                    /\ Moves("cursor", "cost") /\ bill' = bill
                    /\ plan'.executionFields = plan.executionFields
                 \/ /\ Finish /\ Moves("cost", "done") /\ plan' = plan /\ decoder' = decoder
<1>1. IsPlan(plan) /\ request \in Requests
    BY DEF Base, PlanTyped, RequestTyped
<1>2. ASSUME NEW phase, NEW todo, job' = Job(phase, todo)
      PROVE  job'.phase = phase /\ job'.todo = todo
    BY <1>2 DEF Job
<1>3. CASE Start
  <2>1. /\ plan' = [plan EXCEPT !.constraints = Upto(request.constraints, MaxValues)]
        /\ job' = Job("fields", Upto(RequestedFields, MaxFields))
        /\ job.phase = "start" /\ UNCHANGED <<bill, decoder>>
      BY <1>3 DEF Start, In
  <2>2. /\ plan'.constraints = Upto(request.constraints, MaxValues)
        /\ plan'.executionFields = plan.executionFields
        /\ plan'.page = plan.page /\ plan'.cursor = plan.cursor
      BY <1>1, <2>1 DEF IsPlan
  <2> QED BY <1>2, <1>3, <2>1, <2>2, StartTells DEF Begins
<1>4. CASE EndFields
  <2>1. /\ plan' = [plan EXCEPT !.executionFields = RequiredMissing \o plan.responseFields]
        /\ Report(TooMany(RequestedIncludes, MaxIncludes))
        /\ job' = Job("includes", Upto(RequestedIncludes, MaxIncludes))
        /\ job.phase = "fields" /\ job.todo = <<>> /\ decoder' = decoder
      BY <1>4 DEF EndFields, In
  <2>2. Reported(Len(RequestedIncludes) > MaxIncludes)
      BY <1>1, <2>1, RequestedAre, BoundsAre, LengthTells
  <2>3. violations' = <<>> => Len(RequestedIncludes) <= MaxIncludes
    <3>1. Len(RequestedIncludes) \in Nat
        BY <1>1, RequestedAre
    <3> QED BY <2>2, <3>1, BoundsAre DEF Reported
  <2>4. /\ plan'.constraints = plan.constraints
        /\ plan'.page = plan.page /\ plan'.cursor = plan.cursor
      BY <1>1, <2>1 DEF IsPlan
  <2> QED BY <1>2, <1>4, <2>1, <2>3, <2>4 DEF Begins
<1>5. CASE EndIncludes
    BY <1>2, <1>5 DEF EndIncludes, In, Moves
<1>6. CASE EndFilter
  <2>1. /\ Report(TooMany(RequestedSorts, MaxSorts))
        /\ job' = Job("sorts", Upto(RequestedSorts, MaxSorts))
        /\ job.phase = "filter" /\ walk.todo = <<>> /\ UNCHANGED <<plan, bill, decoder>>
      BY <1>6 DEF EndFilter, In
  <2>2. Reported(Len(RequestedSorts) > MaxSorts)
      BY <1>1, <2>1, RequestedAre, BoundsAre, LengthTells
  <2>3. violations' = <<>> => Len(RequestedSorts) <= MaxSorts
    <3>1. Len(RequestedSorts) \in Nat
        BY <1>1, RequestedAre
    <3> QED BY <2>2, <3>1, BoundsAre DEF Reported
  <2> QED BY <1>2, <1>6, <2>1, <2>3 DEF Begins
<1>7. CASE EndSorts
  <2>1. /\ plan' = [plan EXCEPT !.page = Normalized(request.page)]
        /\ job.phase = "sorts" /\ job.todo = <<>> /\ job' = Job("page", <<>>)
        /\ UNCHANGED <<bill, decoder>>
      BY <1>7 DEF EndSorts, In
  <2>2. /\ plan'.constraints = plan.constraints /\ plan'.cursor = plan.cursor
        /\ plan'.executionFields = plan.executionFields
        /\ plan'.page = Normalized(request.page)
      BY <1>1, <2>1 DEF IsPlan
  <2> QED BY <1>2, <1>7, <2>1, <2>2 DEF Moves
<1>8. CASE NoTie
    BY <1>2, <1>8 DEF NoTie, In, Moves
<1>9. CASE NoDecode
    BY <1>2, <1>9 DEF NoDecode, In, Moves
<1>10. ASSUME NEW state, Decode(state)
       PROVE  /\ Moves("cursor", "cost") /\ bill' = bill
              /\ plan'.constraints = plan.constraints
              /\ plan'.executionFields = plan.executionFields
  <2>1. /\ job.phase = "cursor" /\ job' = Job("cost", <<>>) /\ bill' = bill
        /\ \/ plan' = [plan EXCEPT !.cursor = state, !.page.after = NoCursor,
                                      !.page.before = NoCursor]
           \/ plan' = plan
      BY <1>10 DEF Decode, In
  <2>2. /\ plan'.constraints = plan.constraints
        /\ plan'.executionFields = plan.executionFields
      BY <1>1, <2>1 DEF IsPlan
  <2> QED BY <1>2, <2>1, <2>2 DEF Moves
<1>11. CASE Finish
    BY <1>2, <1>11 DEF Finish, In, Moves
<1> QED BY <1>3, <1>4, <1>5, <1>6, <1>7, <1>8, <1>9, <1>10, <1>11 DEF Ends

-----------------------------------------------------------------------------
\* What is in the plan and what is still to come are what was asked for.

Ahead(done, todo, all) ==
    /\ Len(done) + Len(todo) = Len(all)
    /\ \A i \in DOMAIN done : done[i] = all[i]
    /\ \A i \in DOMAIN todo : todo[i] = all[Len(done) + i]

SortsAhead(done, todo, all) ==
    /\ Len(done) + Len(todo) = Len(all)
    /\ \A i \in DOMAIN done : done[i].name = all[i].name
    /\ \A i \in DOMAIN todo : todo[i] = all[Len(done) + i]

\* The sorts as asked for, whatever comes after them.
SortsKept ==
    /\ Len(plan.sorts) - Len(RequestedSorts) \in {0, 1}
    /\ \A i \in DOMAIN RequestedSorts : plan.sorts[i].name = RequestedSorts[i].name

Empty ==
    /\ job.phase = "start" => plan.responseFields = <<>>
    /\ job.phase \in {"start", "fields"} => plan.includes = <<>>
    /\ job.phase \in {"start", "fields", "includes", "filter"} => plan.sorts = <<>>
    /\ Len(plan.sorts) <= MaxSorts
    /\ job.phase = "sorts" => Len(plan.sorts) + Len(job.todo) <= MaxSorts

Whole == violations = <<>> =>
    /\ job.phase # "start" => plan.constraints = request.constraints
    /\ job.phase = "fields" => Ahead(plan.responseFields, job.todo, RequestedFields)
    /\ job.phase \notin {"start", "fields"} => plan.responseFields = RequestedFields
    /\ job.phase = "includes" => Ahead(plan.includes, job.todo, RequestedIncludes)
    /\ job.phase \notin {"start", "fields", "includes"} => plan.includes = RequestedIncludes
    /\ job.phase = "sorts" => SortsAhead(plan.sorts, job.todo, RequestedSorts)
    /\ job.phase \in {"page", "cursor", "cost", "done"} => SortsKept
    /\ job.phase = "page" => Len(plan.sorts) = Len(RequestedSorts)

LEMMA AppendIs ==
    ASSUME NEW A, NEW s \in Seq(A), NEW e
    PROVE  /\ Len(Append(s, e)) = Len(s) + 1 /\ Len(s) \in Nat /\ DOMAIN s = 1..Len(s)
           /\ Append(s, e)[Len(s) + 1] = e
           /\ \A i \in DOMAIN s : Append(s, e)[i] = s[i]
           /\ \A i \in DOMAIN Append(s, e) : i \in DOMAIN s \/ i = Len(s) + 1
           /\ DOMAIN Append(s, e) = 1..(Len(s) + 1)
OBVIOUS

LEMMA AheadOne ==
    ASSUME NEW A, NEW done \in Seq(A), NEW B, NEW todo \in Seq(B), todo # <<>>, NEW all,
           NEW e
    PROVE  /\ Ahead(done, todo, all) /\ e = Head(todo) => Ahead(Append(done, e), Tail(todo), all)
           /\ SortsAhead(done, todo, all) /\ e.name = Head(todo).name
                => SortsAhead(Append(done, e), Tail(todo), all)
<1> DEFINE t == Tail(todo)
           d == Append(done, e)
           n == Len(done)
           m == Len(todo)
<1>1. /\ m \in Nat \ {0} /\ Len(t) = m - 1 /\ 1 \in DOMAIN todo /\ Head(todo) = todo[1]
      /\ \A i \in DOMAIN t : t[i] = todo[i + 1] /\ i + 1 \in DOMAIN todo /\ i \in Nat
  <2>1. DOMAIN t = 1..(m - 1)
      BY TailIs
  <2> QED BY <2>1, TailIs
<1>2. /\ n \in Nat /\ Len(d) = n + 1 /\ d[n + 1] = e
      /\ \A i \in DOMAIN done : d[i] = done[i]
      /\ \A i \in DOMAIN d : i \in DOMAIN done \/ i = n + 1
    BY AppendIs
<1>3. \A i \in DOMAIN t : n + (i + 1) = (n + 1) + i
    BY <1>1, <1>2
<1> HIDE DEF t, d
<1>4. ASSUME Ahead(done, todo, all), e = Head(todo)
      PROVE  Ahead(d, t, all)
  <2> HIDE DEF n, m
  <2>1. /\ n + m = Len(all) /\ \A i \in DOMAIN done : done[i] = all[i]
        /\ \A i \in DOMAIN todo : todo[i] = all[n + i]
      BY <1>4 DEF Ahead, n, m
  <2>2. Len(d) + Len(t) = Len(all)
    <3>1. n \in Nat /\ m \in Nat /\ Len(d) = n + 1 /\ Len(t) = m - 1 /\ n + m = Len(all)
        BY <1>1, <1>2, <2>1
    <3>2. (n + 1) + (m - 1) = n + m
        BY <3>1
    <3> QED BY <3>1, <3>2
  <2>3. \A i \in DOMAIN d : d[i] = all[i]
      BY <1>1, <1>2, <1>4, <2>1
  <2>4. \A i \in DOMAIN t : t[i] = all[(n + 1) + i]
      BY <1>1, <1>3, <2>1
  <2> QED BY <1>2, <2>2, <2>3, <2>4 DEF Ahead
<1>5. ASSUME SortsAhead(done, todo, all), e.name = Head(todo).name
      PROVE  SortsAhead(d, t, all)
  <2> HIDE DEF n, m
  <2>1. /\ n + m = Len(all) /\ \A i \in DOMAIN done : done[i].name = all[i].name
        /\ \A i \in DOMAIN todo : todo[i] = all[n + i]
      BY <1>5 DEF SortsAhead, n, m
  <2>2. Len(d) + Len(t) = Len(all)
    <3>1. n \in Nat /\ m \in Nat /\ Len(d) = n + 1 /\ Len(t) = m - 1 /\ n + m = Len(all)
        BY <1>1, <1>2, <2>1
    <3>2. (n + 1) + (m - 1) = n + m
        BY <3>1
    <3> QED BY <3>1, <3>2
  <2>3. \A i \in DOMAIN d : d[i].name = all[i].name
      BY <1>1, <1>2, <1>5, <2>1
  <2>4. \A i \in DOMAIN t : t[i] = all[(n + 1) + i]
      BY <1>1, <1>3, <2>1
  <2> QED BY <1>2, <2>2, <2>3, <2>4 DEF SortsAhead
<1> QED BY <1>4, <1>5 DEF t, d

LEMMA AheadAll ==
    ASSUME NEW A, NEW done \in Seq(A), NEW B, NEW all \in Seq(B), Ahead(done, <<>>, all)
    PROVE  done = all
<1>1. Len(done) = Len(all) /\ \A i \in DOMAIN done : done[i] = all[i]
    BY DEF Ahead
<1> QED BY <1>1

LEMMA AheadNone ==
    ASSUME NEW A, NEW all \in Seq(A)
    PROVE  Ahead(<<>>, all, all) /\ SortsAhead(<<>>, all, all)
<1>1. Len(<<>>) = 0 /\ DOMAIN <<>> = {} /\ Len(all) \in Nat
    OBVIOUS
<1>2. \A i \in DOMAIN all : all[0 + i] = all[i]
    OBVIOUS
<1> QED BY <1>1, <1>2 DEF Ahead, SortsAhead

\* The lists of the plan are filled in the order of the phases.
LEMMA EmptyKeeps ==
    ASSUME Base, Empty, Skipped \/ Taken \/ FilterNode \/ Ends \/ Tied
    PROVE  Empty'
<1>0. plan.sorts \in Seq(SortTerms) /\ request \in Requests
    BY DEF Base, PlanTyped, RequestTyped
<1>a. Len(plan.sorts) \in Nat /\ MaxSorts \in Nat
    BY <1>0, BoundsAre
<1>1. CASE Skipped
  <2>1. plan' = plan /\ job'.phase = job.phase /\ job'.todo = Tail(job.todo)
      BY <1>1, SkippedLeaves
  <2>2. job.todo # <<>> /\ (job.phase = "sorts" => job.todo \in Seq(Range(RequestedSorts)))
      BY <1>1 DEF Skipped, Base, JobTyped, In
  <2>3. job.phase = "sorts" => Len(job'.todo) = Len(job.todo) - 1 /\ Len(job.todo) \in Nat
      BY <2>1, <2>2, TailIs
  <2>4. job.phase = "sorts" => Len(plan.sorts) + Len(job'.todo) <= MaxSorts
    <3>1. job.phase = "sorts" => Len(plan.sorts) + Len(job.todo) <= MaxSorts
        BY DEF Empty
    <3> DEFINE p == Len(plan.sorts)
               t == Len(job.todo)
               u == Len(job'.todo)
    <3>2. job.phase = "sorts" => p + t <= MaxSorts /\ u = t - 1 /\ t \in Nat
        BY <2>3, <3>1
    <3>3. p \in Nat
        BY <1>a
    <3> HIDE DEF p, t, u
    <3>4. job.phase = "sorts" => p + u <= MaxSorts
        BY <1>a, <3>2, <3>3
    <3> QED BY <3>4 DEF p, u
  <2> QED BY <2>1, <2>4 DEF Empty
<1>2. CASE FieldTaken
    BY <1>2, FieldTakenLeaves DEF Empty
<1>3. CASE TakeInclude \/ EdgeTaken
  <2>1. job.phase = "includes" /\ job'.phase = "includes" /\ plan'.sorts = plan.sorts
      BY <1>3, TakeIncludeLeaves, EdgeTakenLeaves DEF IncludeDone, IncludeOpen
  <2> QED BY <2>1 DEF Empty
<1>4. CASE SortTaken
  <2>1. PICK s : plan'.sorts = Append(plan.sorts, s)
      BY <1>4, SortTakenLeaves
  <2>2. /\ job.phase = "sorts" /\ job'.phase = "sorts"
        /\ job.todo # <<>> /\ job'.todo = Tail(job.todo)
      BY <1>4, SortTakenLeaves
  <2>3. job.todo \in Seq(Range(RequestedSorts))
      BY <2>2 DEF Base, JobTyped, In
  <2>4. Len(job'.todo) = Len(job.todo) - 1 /\ Len(job.todo) \in Nat \ {0}
      BY <2>2, <2>3, TailIs
  <2>5. Len(plan'.sorts) = Len(plan.sorts) + 1
      BY <1>0, <2>1, AppendIs
  <2>6. Len(plan.sorts) + Len(job.todo) <= MaxSorts
      BY <2>2 DEF Empty
  <2>7. /\ Len(plan'.sorts) <= MaxSorts
        /\ Len(plan'.sorts) + Len(job'.todo) <= MaxSorts
    <3> DEFINE p == Len(plan.sorts)
               q == Len(plan'.sorts)
               t == Len(job.todo)
               u == Len(job'.todo)
    <3>1. p + t <= MaxSorts /\ u = t - 1 /\ t \in Nat \ {0} /\ q = p + 1 /\ p \in Nat
        BY <1>a, <2>4, <2>5, <2>6
    <3> HIDE DEF p, q, t, u
    <3>2. q <= MaxSorts /\ q + u <= MaxSorts
        BY <1>a, <3>1
    <3> QED BY <3>2 DEF q, u
  <2> QED BY <2>2, <2>7 DEF Empty
<1>5. CASE FilterNode
    BY <1>5 DEF FilterNode, Empty
<1>6. CASE Ends
  <2>1. /\ plan'.responseFields = plan.responseFields
        /\ plan'.includes = plan.includes /\ plan'.sorts = plan.sorts
      BY <1>6, EndsLeave
  <2>2. \/ job.phase = "start" /\ job'.phase = "fields"
        \/ job.phase = "fields" /\ job'.phase = "includes"
        \/ job.phase = "includes" /\ job'.phase = "filter"
        \/ /\ job.phase = "filter" /\ job'.phase = "sorts"
           /\ job'.todo = Upto(RequestedSorts, MaxSorts)
        \/ job'.phase \in {"page", "cursor", "cost", "done"}
      BY <1>6, EndsBegin DEF Begins, Moves
  <2>3. Len(Upto(RequestedSorts, MaxSorts)) \in Nat /\ Len(Upto(RequestedSorts, MaxSorts)) <= MaxSorts
    <3>1. /\ RequestedSorts \in Seq(Range(RequestedSorts))
          /\ Upto(RequestedSorts, MaxSorts) \in Seq(Range(RequestedSorts))
        BY <1>0, <1>a, RequestedAre, UptoIs
    <3> QED BY <1>a, <3>1, UptoIs
  <2>4. job'.phase = "sorts" => Len(plan'.sorts) + Len(job'.todo) <= MaxSorts
    <3>1. job.phase = "filter" => Len(plan.sorts) = 0
        BY DEF Empty
    <3>2. job'.phase = "sorts" =>
              job.phase = "filter" /\ job'.todo = Upto(RequestedSorts, MaxSorts)
        BY <2>2
    <3> DEFINE n == Len(Upto(RequestedSorts, MaxSorts))
    <3>3. n \in Nat /\ n <= MaxSorts
        BY <2>3
    <3>4. job'.phase = "sorts" => Len(plan'.sorts) = 0 /\ Len(job'.todo) = n
        BY <2>1, <3>1, <3>2
    <3> HIDE DEF n
    <3>5. 0 + n <= MaxSorts
        BY <1>a, <3>3
    <3> QED BY <3>4, <3>5
  <2> QED BY <2>1, <2>2, <2>4 DEF Empty
<1>7. ASSUME NEW ok \in BOOLEAN, Tie(ok)
      PROVE  Empty'
  <2>1. /\ job'.phase = "cursor" /\ HasRoom
        /\ plan'.sorts = plan.sorts \/ \E s : plan'.sorts = Append(plan.sorts, s)
      BY <1>7, TiedLeaves
  <2>2. Len(plan'.sorts) <= Len(plan.sorts) + 1 /\ Len(plan'.sorts) \in Nat
      BY <1>0, <2>1, AppendIs
  <2> QED BY <1>a, <2>1, <2>2 DEF Empty, HasRoom
<1> QED BY <1>1, <1>2, <1>3, <1>4, <1>5, <1>6, <1>7 DEF Taken, Tied
LEMMA WholeKeeps ==
    ASSUME Base, Empty, Whole, Skipped \/ Taken \/ FilterNode \/ Ends \/ Tied
    PROVE  Whole'
<1>0. /\ plan.responseFields \in Seq(Range(RequestedFields) \cap ToNames(Fields))
      /\ plan.includes \in Seq(Range(RequestedIncludes) \cap DOMAIN Relations)
      /\ plan.sorts \in Seq(SortTerms) /\ request \in Requests
      /\ RequestedFields \in Seq(Range(RequestedFields))
      /\ RequestedIncludes \in Seq(Range(RequestedIncludes))
      /\ RequestedSorts \in Seq(Range(RequestedSorts))
      /\ request.constraints \in Seq(Range(request.constraints))
    BY RequestedAre DEF Base, PlanTyped, RequestTyped
<1>1. ASSUME UNCHANGED request
      PROVE  /\ RequestedFields' = RequestedFields /\ RequestedIncludes' = RequestedIncludes
             /\ RequestedSorts' = RequestedSorts
    BY <1>1, SameRequest
<1>2. CASE Skipped
  <2>1. violations' # <<>>
      BY <1>2, SkippedLeaves
  <2> QED BY <2>1 DEF Whole
<1>3. CASE FieldTaken
  <2>1. /\ violations' = violations /\ request' = request
        /\ plan'.responseFields = Append(plan.responseFields, Element)
        /\ plan'.constraints = plan.constraints
        /\ job.phase = "fields" /\ job.todo # <<>>
        /\ job'.phase = "fields" /\ job'.todo = Tail(job.todo)
      BY <1>3, FieldTakenLeaves
  <2>2. job.todo \in Seq(Range(RequestedFields))
      BY <2>1 DEF Base, JobTyped, In
  <2>3. Ahead(plan.responseFields, job.todo, RequestedFields) =>
            Ahead(plan'.responseFields, job'.todo, RequestedFields)
      BY <1>0, <2>1, <2>2, AheadOne DEF Element
  <2>4. RequestedFields' = RequestedFields
      BY <1>1, <2>1
  <2> QED BY <2>1, <2>3, <2>4 DEF Whole
<1>4. CASE TakeInclude \/ EdgeTaken
  <2>1. /\ violations' = violations /\ request' = request
        /\ job.phase = "includes" /\ job'.phase = "includes" /\ job.todo # <<>>
        /\ IncludeDone \/ IncludeOpen
      BY <1>4, TakeIncludeLeaves, EdgeTakenLeaves
  <2>2. job.todo \in Seq(Range(RequestedIncludes))
      BY <2>1 DEF Base, JobTyped, In
  <2>3. /\ plan'.responseFields = plan.responseFields
        /\ plan'.constraints = plan.constraints
      BY <2>1 DEF IncludeDone, IncludeOpen
  <2>4. Ahead(plan.includes, job.todo, RequestedIncludes) =>
            Ahead(plan'.includes, job'.todo, RequestedIncludes)
    <3>1. CASE IncludeDone
        BY <1>0, <2>1, <2>2, <3>1, AheadOne DEF Element, IncludeDone
    <3>2. CASE IncludeOpen
        BY <3>2 DEF IncludeOpen
    <3> QED BY <2>1, <3>1, <3>2
  <2>5. RequestedFields' = RequestedFields /\ RequestedIncludes' = RequestedIncludes
      BY <1>1, <2>1
  <2> QED BY <2>1, <2>3, <2>4, <2>5 DEF Whole
<1>5. CASE SortTaken
  <2>1. /\ violations' = violations /\ request' = request
        /\ plan'.responseFields = plan.responseFields /\ plan'.includes = plan.includes
        /\ plan'.constraints = plan.constraints
        /\ job.phase = "sorts" /\ job.todo # <<>>
        /\ job'.phase = "sorts" /\ job'.todo = Tail(job.todo)
      BY <1>5, SortTakenLeaves
  <2>2. PICK s : s.name = Element.name /\ plan'.sorts = Append(plan.sorts, s)
      BY <1>5, SortTakenLeaves
  <2>3. job.todo \in Seq(Range(RequestedSorts))
      BY <2>1 DEF Base, JobTyped, In
  <2>4. SortsAhead(plan.sorts, job.todo, RequestedSorts) =>
            SortsAhead(plan'.sorts, job'.todo, RequestedSorts)
      BY <1>0, <2>1, <2>2, <2>3, AheadOne DEF Element
  <2>5. /\ RequestedFields' = RequestedFields /\ RequestedIncludes' = RequestedIncludes
        /\ RequestedSorts' = RequestedSorts
      BY <1>1, <2>1
  <2> QED BY <2>1, <2>4, <2>5 DEF Whole
<1>6. CASE FilterNode
  <2>1. In("filter") /\ Visit /\ UNCHANGED <<job, plan, request>>
      BY <1>6 DEF FilterNode
  <2>2. \E bad : Reported(bad)
      BY <2>1, VisitMoves
  <2>3. violations' = <<>> => violations = <<>>
      BY <2>2 DEF Reported
  <2>4. RequestedFields' = RequestedFields /\ RequestedIncludes' = RequestedIncludes
      BY <1>1, <2>1
  <2>5. job.phase = "filter"
      BY <2>1 DEF In
  <2> QED BY <2>1, <2>3, <2>4, <2>5 DEF Whole
<1>7. CASE Ends
  <2> SUFFICES ASSUME violations' = <<>>
               PROVE  Whole'
      BY DEF Whole
  <2>1. /\ request' = request /\ violations = <<>>
        /\ plan'.responseFields = plan.responseFields
        /\ plan'.includes = plan.includes /\ plan'.sorts = plan.sorts
      BY <1>7, EndsLeave
  <2>2. /\ RequestedFields' = RequestedFields /\ RequestedIncludes' = RequestedIncludes
        /\ RequestedSorts' = RequestedSorts
      BY <1>1, <2>1
  <2>3. CASE job.phase = "start"
    <3>1. /\ Begins("fields", RequestedFields, MaxFields)
          /\ plan'.constraints = Upto(request.constraints, MaxValues)
          /\ Len(request.constraints) <= MaxValues
        BY <1>7, <2>3, EndsBegin DEF Moves
    <3>2. plan'.constraints = request.constraints
        BY <1>0, <3>1, UptoIs, BoundsAre
    <3>3. job'.phase = "fields" /\ job'.todo = RequestedFields
        BY <1>0, <3>1, UptoIs, BoundsAre DEF Begins
    <3>4. plan'.responseFields = <<>>
        BY <2>1, <2>3 DEF Empty
    <3>5. Ahead(<<>>, RequestedFields, RequestedFields)
        BY <1>0, AheadNone
    <3> QED BY <2>1, <2>2, <3>2, <3>3, <3>4, <3>5 DEF Whole
  <2>4. CASE job.phase = "fields"
    <3>1. /\ Begins("includes", RequestedIncludes, MaxIncludes) /\ job.todo = <<>>
          /\ plan'.constraints = plan.constraints
        BY <1>7, <2>4, EndsBegin DEF Moves
    <3>2. job'.phase = "includes" /\ job'.todo = RequestedIncludes
        BY <1>0, <3>1, UptoIs, BoundsAre DEF Begins
    <3>3. Ahead(plan.responseFields, <<>>, RequestedFields)
        BY <2>1, <2>4, <3>1 DEF Whole
    <3>4. plan.responseFields = RequestedFields
        BY <1>0, <3>3, AheadAll
    <3>5. plan'.includes = <<>>
        BY <2>1, <2>4 DEF Empty
    <3>6. Ahead(<<>>, RequestedIncludes, RequestedIncludes)
        BY <1>0, AheadNone
    <3> QED BY <2>1, <2>2, <2>4, <3>1, <3>2, <3>4, <3>5, <3>6 DEF Whole
  <2>5. CASE job.phase = "includes"
    <3>1. /\ job'.phase = "filter" /\ job.todo = <<>> /\ plan' = plan
        BY <1>7, <2>5, EndsBegin DEF Moves
    <3>2. Ahead(plan.includes, <<>>, RequestedIncludes)
        BY <2>1, <2>5, <3>1 DEF Whole
    <3>3. plan.includes = RequestedIncludes
        BY <1>0, <3>2, AheadAll
    <3> QED BY <2>1, <2>2, <2>5, <3>1, <3>3 DEF Whole
  <2>6. CASE job.phase = "filter"
    <3>1. Begins("sorts", RequestedSorts, MaxSorts) /\ plan' = plan
        BY <1>7, <2>6, EndsBegin DEF Moves
    <3>2. job'.phase = "sorts" /\ job'.todo = RequestedSorts
        BY <1>0, <3>1, UptoIs, BoundsAre DEF Begins
    <3>3. plan'.sorts = <<>>
        BY <2>1, <2>6 DEF Empty
    <3>4. SortsAhead(<<>>, RequestedSorts, RequestedSorts)
        BY <1>0, AheadNone
    <3> QED BY <2>1, <2>2, <2>6, <3>1, <3>2, <3>3, <3>4 DEF Whole
  <2>7. CASE job.phase = "sorts"
    <3>1. /\ job'.phase = "page" /\ job.todo = <<>>
          /\ plan'.constraints = plan.constraints
        BY <1>7, <2>7, EndsBegin DEF Moves
    <3>2. SortsAhead(plan.sorts, <<>>, RequestedSorts)
        BY <2>1, <2>7, <3>1 DEF Whole
    <3>3. Len(plan.sorts) = Len(RequestedSorts)
        BY <1>0, <3>2 DEF SortsAhead
    <3>4. DOMAIN plan.sorts = DOMAIN RequestedSorts /\ Len(RequestedSorts) \in Nat
        BY <1>0, <3>3
    <3>5. \A i \in DOMAIN RequestedSorts : plan.sorts[i].name = RequestedSorts[i].name
        BY <3>2, <3>4 DEF SortsAhead
    <3>6. Len(plan.sorts) - Len(RequestedSorts) = 0
        BY <3>3, <3>4
    <3> QED BY <2>1, <2>2, <2>7, <3>1, <3>3, <3>5, <3>6 DEF Whole, SortsKept
  <2>8. CASE job.phase \in {"page", "cursor", "cost"}
    <3>1. job'.phase \in {"cursor", "cost", "done"} /\ plan'.constraints = plan.constraints
        BY <1>7, <2>8, EndsBegin DEF Moves
    <3> QED BY <2>1, <2>2, <2>8, <3>1 DEF Whole, SortsKept
  <2>9. job.phase \in {"start", "fields", "includes", "filter", "sorts", "page",
                       "cursor", "cost"}
      BY <1>7, EndsBegin DEF Moves
  <2> QED BY <2>3, <2>4, <2>5, <2>6, <2>7, <2>8, <2>9
<1>8. ASSUME NEW ok \in BOOLEAN, Tie(ok)
      PROVE  Whole'
  <2>1. /\ request' = request /\ job.phase = "page" /\ job'.phase = "cursor"
        /\ plan'.responseFields = plan.responseFields /\ plan'.includes = plan.includes
        /\ plan'.constraints = plan.constraints
        /\ Reported(~ok)
        /\ ok => \E s \in SortTerms : plan'.sorts = Append(plan.sorts, s)
      BY <1>8, TiedLeaves
  <2> SUFFICES ASSUME violations' = <<>>
               PROVE  Whole'
      BY DEF Whole
  <2>2. violations = <<>> /\ ok
      BY <2>1 DEF Reported
  <2>3. SortsKept /\ Len(plan.sorts) = Len(RequestedSorts)
      BY <2>1, <2>2 DEF Whole
  <2>4. PICK s \in SortTerms : plan'.sorts = Append(plan.sorts, s)
      BY <2>1, <2>2
  <2>5. /\ RequestedFields' = RequestedFields /\ RequestedIncludes' = RequestedIncludes
        /\ RequestedSorts' = RequestedSorts
      BY <1>1, <2>1
  <2>6. SortsKept'
    <3>1. /\ Len(plan'.sorts) = Len(plan.sorts) + 1 /\ Len(plan.sorts) \in Nat
          /\ \A i \in DOMAIN plan.sorts : plan'.sorts[i] = plan.sorts[i]
        BY <1>0, <2>4, AppendIs
    <3>2. DOMAIN plan.sorts = DOMAIN RequestedSorts
        BY <1>0, <2>3
    <3>3. Len(plan'.sorts) - Len(RequestedSorts) = 1
        BY <2>3, <3>1
    <3>4. \A i \in DOMAIN RequestedSorts : plan'.sorts[i].name = RequestedSorts[i].name
        BY <2>3, <3>1, <3>2 DEF SortsKept
    <3> QED BY <2>5, <3>3, <3>4 DEF SortsKept
  <2> QED BY <2>1, <2>2, <2>5, <2>6 DEF Whole
<1> QED BY <1>2, <1>3, <1>4, <1>5, <1>6, <1>7, <1>8 DEF Taken, Tied
LEMMA WholeInvariant ==
    CompileSpec => [](Empty /\ Whole)
<1>1. CompileInit => Empty /\ Whole
  <2> SUFFICES ASSUME CompileInit
               PROVE  Empty /\ Whole
      OBVIOUS
  <2>1. job = Job("start", <<>>) /\ plan = NoPlan
      BY DEF CompileInit
  <2>2. /\ job.phase = "start" /\ plan.responseFields = <<>> /\ plan.includes = <<>>
        /\ plan.sorts = <<>> /\ Len(<<>>) = 0
      BY <2>1 DEF Job, NoPlan
  <2> QED BY <2>2, BoundsAre DEF Empty, Whole
<1>2. Base /\ Empty /\ Whole /\ [CompileNext]_cvars => Empty' /\ Whole'
  <2> SUFFICES ASSUME Base, Empty, Whole, [CompileNext]_cvars
               PROVE  Empty' /\ Whole'
      OBVIOUS
  <2>1. CASE CompileNext
      BY <2>1, NextMoves, EmptyKeeps, WholeKeeps
  <2>2. CASE UNCHANGED cvars
    <3>1. plan' = plan /\ job' = job /\ violations' = violations /\ request' = request
        BY <2>2 DEF cvars
    <3> QED BY <3>1, SameRequest DEF Empty, Whole, SortsKept
  <2> QED BY <2>1, <2>2
<1> QED BY <1>1, <1>2, BaseInvariant, PTL DEF CompileSpec

\* A plan that Compile returns is the request, no more and no less: all its fields,
\* includes, constraints and predicates, and its sorts in their order with at most
\* the tie-breaker after them (compile.go:114-189, 191-236, 361-406, 460-472).
THEOREM PlanIsWhole == CompileSpec => []PlanIsTheRequest
<1>1. Base /\ Empty /\ Whole => PlanIsTheRequest
  <2> SUFFICES ASSUME Base, Empty, Whole, Returned
               PROVE  /\ plan.responseFields = RequestedFields
                      /\ plan.includes = RequestedIncludes
                      /\ plan.constraints = request.constraints
                      /\ walk.kept = DOMAIN request.filter
                      /\ [i \in DOMAIN RequestedSorts |-> plan.sorts[i].name] =
                            [i \in DOMAIN RequestedSorts |-> RequestedSorts[i].name]
                      /\ Len(plan.sorts) - Len(RequestedSorts) \in {0, 1}
                      /\ Len(plan.sorts) <= MaxSorts
      BY DEF PlanIsTheRequest
  <2>1. job.phase = "done" /\ violations = <<>>
      BY DEF Returned
  <2>2. /\ plan.constraints = request.constraints /\ plan.responseFields = RequestedFields
        /\ plan.includes = RequestedIncludes /\ SortsKept
      BY <2>1 DEF Whole
  <2>3. walk.kept = DOMAIN request.filter
    <3>1. walk.todo = <<>> /\ tree = request.filter /\ WalkInv
        BY <2>1 DEF Base, JobTyped, RequestTyped, Walked
    <3>2. DOMAIN walk.todo = {} /\ walk.kept \subseteq DOMAIN tree
        BY <3>1 DEF WalkInv, WTyped
    <3> QED BY <2>1, <3>1, <3>2 DEF WalkInv, Covered
  <2> QED BY <2>2, <2>3 DEF SortsKept, Empty
<1> QED BY <1>1, BaseInvariant, WholeInvariant, PTL
-----------------------------------------------------------------------------
\* What became of the page and its cursor.

\* The order of a cursor page is total.
Ordered == plan.page.mode = "cursor" => /\ TieBreakers # <<>>
                                        /\ Head(TieBreakers).name \in SortNames
Bounded ==
    /\ plan.cursor # NoCursor => decoder = plan.sorts
                                /\ Len(plan.cursor.positions) = Len(plan.sorts)
    /\ Tokens(plan.page) = {}
    /\ (plan.cursor # NoCursor) <=> (Tokens(request.page) # {})
    /\ Ordered

Paged ==
    /\ job.phase \notin {"cost", "done"} => plan.cursor = NoCursor
    /\ job.phase \in {"page", "cursor"} => plan.page = Normalized(request.page)
    /\ job.phase \in {"page", "cursor"} /\ violations = <<>> => PageFaults(plan.page) = <<>>
    /\ job.phase = "cursor" /\ violations = <<>> => Ordered
    /\ job.phase \in {"cost", "done"} /\ violations = <<>> => Bounded

LEMMA NormalizedIs ==
    ASSUME request \in Requests
    PROVE  /\ Normalized(request.page).after = request.page.after
           /\ Normalized(request.page).before = request.page.before
           /\ Tokens(Normalized(request.page)) = Tokens(request.page)
           /\ Normalized(request.page) =
                [mode |-> Normalized(request.page).mode, size |-> Normalized(request.page).size,
                 offset |-> request.page.offset, after |-> request.page.after,
                 before |-> request.page.before]
<1> DEFINE q == request.page
           n == Normalized(q)
<1>1. q = [mode |-> q.mode, size |-> q.size, offset |-> q.offset, after |-> q.after,
           before |-> q.before]
    BY RequestedAre
<1> HIDE DEF q
<1>2. /\ n.after = q.after /\ n.before = q.before
      /\ n = [mode |-> n.mode, size |-> n.size, offset |-> q.offset, after |-> q.after,
              before |-> q.before]
  <2> DEFINE m == IF q.mode = "" THEN "none" ELSE q.mode
             z == IF m # "none" /\ q.size = 0 THEN Pagination.defaultSize ELSE q.size
  <2>1. n = [q EXCEPT !.mode = m, !.size = z]
      BY <1>1 DEF Normalized
  <2> HIDE DEF m, z, n
  <2>2. n = [mode |-> m, size |-> z, offset |-> q.offset, after |-> q.after,
             before |-> q.before]
      BY <1>1, <2>1
  <2> QED BY <2>2
<1> HIDE DEF n
<1>3. Tokens(n) = Tokens(q)
    BY <1>2 DEF Tokens
<1> QED BY <1>2, <1>3 DEF n, q

\* A page that is settled stays so while nothing but the bill changes.
LEMMA PagedStays ==
    ASSUME Paged, UNCHANGED <<request, decoder>>, plan'.page = plan.page,
           plan'.cursor = plan.cursor, violations' = <<>> => violations = <<>>,
           \/ job'.phase = job.phase /\ plan'.sorts = plan.sorts
           \/ job'.phase \notin {"page", "cursor", "cost", "done"}
              /\ job.phase \notin {"page", "cursor", "cost", "done"}
           \/ job.phase = "cost" /\ job'.phase = "done" /\ plan'.sorts = plan.sorts
    PROVE  Paged'
<1>1. plan'.sorts = plan.sorts => SortNames' = SortNames /\ Ordered' = Ordered
    BY DEF SortNames, Ordered
<1>2. plan'.sorts = plan.sorts => Bounded' = Bounded
    BY <1>1 DEF Bounded
<1> QED BY <1>1, <1>2 DEF Paged

LEMMA TiePaged ==
    ASSUME Base, Paged, NEW ok \in BOOLEAN, Tie(ok)
    PROVE  Paged'
<1>1. /\ request' = request /\ NeedsTie /\ job.phase = "page" /\ job'.phase = "cursor"
      /\ Reported(~ok) /\ plan'.page = plan.page /\ plan'.cursor = plan.cursor
      /\ ok => \E s \in SortTerms : /\ s.name = Head(TieBreakers).name
                                    /\ plan'.sorts = Append(plan.sorts, s)
    BY TiedLeaves
<1>2. ASSUME violations' = <<>>
      PROVE  Ordered' /\ violations = <<>>
  <2>1. violations = <<>> /\ ok
      BY <1>1, <1>2 DEF Reported
  <2>2. PICK s \in SortTerms : /\ s.name = Head(TieBreakers).name
                               /\ plan'.sorts = Append(plan.sorts, s)
      BY <1>1, <2>1
  <2>3. plan.sorts \in Seq(SortTerms)
      BY DEF Base, PlanTyped
  <2>4. Len(plan.sorts) + 1 \in DOMAIN plan'.sorts /\ plan'.sorts[Len(plan.sorts) + 1] = s
      BY <2>2, <2>3, AppendIs
  <2>5. Head(TieBreakers).name \in SortNames'
      BY <2>2, <2>4 DEF SortNames
  <2> QED BY <1>1, <2>1, <2>5 DEF Ordered, NeedsTie
<1> QED BY <1>1, <1>2 DEF Paged

LEMMA EndsPaged ==
    ASSUME Base, Paged, Ends
    PROVE  Paged'
<1>0. /\ request \in Requests /\ IsPlan(plan)
      /\ request' = request /\ plan'.sorts = plan.sorts
      /\ violations' = <<>> => violations = <<>>
    BY EndsLeave DEF Base, RequestTyped, PlanTyped
<1>1. CASE Start \/ EndFields \/ EndIncludes \/ EndFilter
  <2>1. job.phase \in {"start", "fields", "includes", "filter"}
      BY <1>1 DEF Start, EndFields, EndIncludes, EndFilter, In
  <2>2. /\ job'.phase \in {"fields", "includes", "filter", "sorts"}
        /\ plan'.page = plan.page /\ plan'.cursor = plan.cursor /\ decoder' = decoder
      BY <2>1, EndsBegin DEF Begins, Moves
  <2> QED BY <1>0, <2>1, <2>2, PagedStays
<1>2. CASE EndSorts
  <2>1. job.phase = "sorts" /\ Report(PageFaults(Normalized(request.page)))
      BY <1>2 DEF EndSorts, In
  <2>2. /\ job'.phase = "page" /\ plan'.page = Normalized(request.page)
        /\ plan'.cursor = plan.cursor
      BY <2>1, EndsBegin DEF Moves
  <2>3. Reported(PageFaults(Normalized(request.page)) # <<>>)
      BY <2>1, PageTells, Telling
  <2>4. violations' = <<>> => PageFaults(plan'.page) = <<>>
      BY <2>2, <2>3 DEF Reported
  <2> QED BY <1>0, <2>1, <2>2, <2>4 DEF Paged
<1>3. CASE NoTie
  <2>1. /\ job.phase = "page" /\ job'.phase = "cursor" /\ plan' = plan
        /\ Report(Fault(NeedsTie, "limit_exceeded"))
      BY <1>3 DEF NoTie, In, Job
  <2>2. Reported(NeedsTie)
      BY <2>1, FaultTells, EarlyIs
  <2>3. ASSUME violations' = <<>>
        PROVE  Ordered' /\ violations = <<>>
    <3>1. violations = <<>> /\ ~NeedsTie
        BY <2>2, <2>3 DEF Reported
    <3>2. plan.page.mode = "cursor" => TieBreakers # <<>>
        BY <2>1, <3>1, PageTells, TieBreakersAre DEF Paged
    <3>3. Ordered
        BY <3>1, <3>2 DEF NeedsTie, Ordered
    <3> QED BY <2>1, <3>1, <3>3 DEF Ordered, SortNames
  <2> QED BY <1>0, <2>1, <2>3 DEF Paged
<1>4. CASE NoDecode
  <2>1. /\ job.phase = "cursor" /\ job'.phase = "cost" /\ plan' = plan
        /\ Report(Fault(OneToken, "cursor_failure"))
      BY <1>4 DEF NoDecode, In, Job
  <2>2. Reported(OneToken)
      BY <2>1, FaultTells, EarlyIs
  <2>3. ASSUME violations' = <<>>
        PROVE  Bounded'
    <3>1. violations = <<>> /\ ~OneToken
        BY <2>2, <2>3 DEF Reported
    <3>2. /\ plan.page = Normalized(request.page) /\ plan.cursor = NoCursor /\ Ordered
          /\ PageFaults(plan.page) = <<>>
        BY <2>1, <3>1 DEF Paged
    <3>3. /\ plan.page.after = NoCursor \/ plan.page.before = NoCursor
          /\ plan.page.mode # "cursor" => Tokens(plan.page) = {}
        BY <3>2, PageTells
    <3>4. Tokens(plan.page) = {}
        BY <3>1, <3>3 DEF OneToken, Tokens
    <3>5. Tokens(request.page) = {}
        BY <1>0, <3>2, <3>4, NormalizedIs
    <3>6. Bounded
        BY <3>2, <3>4, <3>5 DEF Bounded
    <3> QED BY <1>0, <2>1, <3>2, <3>4, <3>5 DEF Bounded, Ordered, SortNames
  <2> QED BY <2>1, <2>3 DEF Paged
<1>5. ASSUME NEW state, Decode(state)
      PROVE  Paged'
  <2>1. /\ job.phase = "cursor" /\ job'.phase = "cost" /\ OneToken /\ decoder' = plan.sorts
        /\ \/ /\ Accepted(state) /\ violations' = violations
              /\ plan' = [plan EXCEPT !.cursor = state, !.page.after = NoCursor,
                                      !.page.before = NoCursor]
           \/ Report(<<"cursor_failure">>)
      BY <1>5 DEF Decode, In, Job
  <2>2. ASSUME violations' = <<>>
        PROVE  Bounded'
    <3>1. ~Report(<<"cursor_failure">>)
      <4>1. Report(<<"cursor_failure">>) => Reported(TRUE)
          BY <2>1, TellingOne, EarlyIs
      <4> QED BY <2>2, <4>1 DEF Reported
    <3>2. /\ Accepted(state) /\ violations = <<>>
          /\ plan' = [plan EXCEPT !.cursor = state, !.page.after = NoCursor,
                                  !.page.before = NoCursor]
        BY <2>1, <2>2, <3>1
    <3>3. plan.page = Normalized(request.page) /\ Ordered
        BY <2>1, <3>2 DEF Paged
    <3> DEFINE q == plan.page
    <3>4. q = [mode |-> q.mode, size |-> q.size, offset |-> request.page.offset,
               after |-> request.page.after, before |-> request.page.before]
        BY <1>0, <3>3, NormalizedIs
    <3>5. /\ plan'.cursor = state /\ plan'.page = [q EXCEPT !.after = NoCursor,
                                                            !.before = NoCursor]
        BY <1>0, <3>2 DEF IsPlan
    <3> HIDE DEF q
    <3>6. /\ plan'.page.after = NoCursor /\ plan'.page.before = NoCursor
          /\ plan'.page.mode = q.mode
        BY <3>4, <3>5
    <3>7. Tokens(plan'.page) = {}
        BY <3>6 DEF Tokens
    <3>8. Tokens(request.page) # {}
      <4>1. request.page.after # NoCursor \/ request.page.before # NoCursor
          BY <2>1, <3>4 DEF OneToken, q
      <4> QED BY <4>1 DEF Tokens
    <3>9. state # NoCursor /\ Len(state.positions) = Len(plan.sorts)
        BY <3>2 DEF Accepted, Fits
    <3>10. Ordered'
      <4>1. SortNames' = SortNames
          BY <1>0 DEF SortNames
      <4> QED BY <3>3, <3>6, <4>1 DEF Ordered, q
    <3> QED BY <1>0, <2>1, <3>5, <3>7, <3>8, <3>9, <3>10 DEF Bounded
  <2> QED BY <2>1, <2>2 DEF Paged
<1>6. CASE Finish
  <2>1. /\ job.phase = "cost" /\ job'.phase = "done" /\ plan' = plan /\ decoder' = decoder
      BY <1>6 DEF Finish, In, Job
  <2> QED BY <1>0, <2>1, PagedStays
<1> QED BY <1>1, <1>2, <1>3, <1>4, <1>5, <1>6 DEF Ends

LEMMA PagedKeeps ==
    ASSUME Base, Paged, Skipped \/ Taken \/ FilterNode \/ Ends \/ Tied
    PROVE  Paged'
<1>1. CASE Skipped
    BY <1>1, SkippedLeaves, PagedStays
<1>2. CASE FieldTaken
    BY <1>2, FieldTakenLeaves, PagedStays
<1>3. CASE TakeInclude \/ EdgeTaken
  <2>1. /\ UNCHANGED <<violations, decoder, request>>
        /\ job.phase = "includes" /\ job'.phase = "includes"
        /\ plan'.sorts = plan.sorts /\ plan'.page = plan.page /\ plan'.cursor = plan.cursor
      BY <1>3, TakeIncludeLeaves, EdgeTakenLeaves DEF IncludeDone, IncludeOpen
  <2> QED BY <2>1, PagedStays
<1>4. CASE SortTaken
  <2>1. /\ UNCHANGED <<violations, decoder, request>>
        /\ job.phase = "sorts" /\ job'.phase = "sorts"
        /\ plan'.page = plan.page /\ plan'.cursor = plan.cursor
      BY <1>4, SortTakenLeaves
  <2> QED BY <2>1, PagedStays
<1>5. CASE FilterNode
  <2>1. In("filter") /\ Visit /\ UNCHANGED <<job, plan, decoder, request>>
      BY <1>5 DEF FilterNode
  <2>2. \E bad : Reported(bad)
      BY <2>1, VisitMoves
  <2>3. violations' = <<>> => violations = <<>>
      BY <2>2 DEF Reported
  <2> QED BY <2>1, <2>3, PagedStays
<1> QED BY <1>1, <1>2, <1>3, <1>4, <1>5, EndsPaged, TiePaged DEF Taken, Tied

\* The cursor of a plan that Compile returns was decoded for its very sorts and has
\* a position for each, no raw token is left in it and none was ignored, and its
\* order is total (compile.go:408-516).
THEOREM CursorIsBound == CompileSpec => []CursorBound
<1>1. CompileInit => Paged
  <2> SUFFICES ASSUME CompileInit
               PROVE  Paged
      OBVIOUS
  <2>1. job.phase = "start" /\ plan.cursor = NoCursor
      BY DEF CompileInit, Job, NoPlan
  <2> QED BY <2>1 DEF Paged
<1>2. Base /\ Paged /\ [CompileNext]_cvars => Paged'
  <2> SUFFICES ASSUME Base, Paged, [CompileNext]_cvars
               PROVE  Paged'
      OBVIOUS
  <2>1. CASE CompileNext
      BY <2>1, NextMoves, PagedKeeps
  <2>2. CASE UNCHANGED cvars
      BY <2>2, PagedStays DEF cvars
  <2> QED BY <2>1, <2>2
<1>3. Paged => CursorBound
  <2> SUFFICES ASSUME Paged, Returned
               PROVE  /\ plan.cursor # NoCursor => decoder = plan.sorts
                                /\ Len(plan.cursor.positions) = Len(plan.sorts)
                      /\ Tokens(plan.page) = {}
                      /\ (plan.cursor # NoCursor) <=> (Tokens(request.page) # {})
                      /\ plan.page.mode = "cursor" =>
                            \E d \in ToNames(TieBreakers) : d \in SortNames
      BY DEF CursorBound
  <2>1. Bounded
      BY DEF Paged, Returned
  <2>2. TieBreakers # <<>> => Head(TieBreakers).name \in ToNames(TieBreakers)
    <3>1. TieBreakers \in Seq(Range(SortDefs))
        BY TieBreakersAre
    <3>2. TieBreakers # <<>> => 1 \in DOMAIN TieBreakers /\ Head(TieBreakers) = TieBreakers[1]
        BY <3>1
    <3> QED BY <3>2 DEF ToNames
  <2> QED BY <2>1, <2>2 DEF Bounded, Ordered
<1> QED BY <1>1, <1>2, <1>3, BaseInvariant, PTL DEF CompileSpec
-----------------------------------------------------------------------------
\* How often the authorizer is asked.

Heard(kind) == {i \in DOMAIN asked : asked[i].kind = kind}
Count(kind) == Cardinality(Heard(kind))
AskedOf(kind) == asked' = asked \/ \E name, ok : AsksFor(kind, name, ok) /\ ok \in BOOLEAN

\* An element of a list is dealt with; an include is begun, or has more edges.
Passes ==
    /\ job.phase \in DOMAIN KindOf /\ job'.phase = job.phase
    /\ job.todo # <<>> /\ job'.todo = Tail(job.todo) /\ job'.edges = <<>>
    /\ AskedOf(KindOf[job.phase]) /\ walk' = walk
    /\ job.phase = "includes" /\ job.edges = <<>> => asked' = asked
Opens ==
    /\ job.phase = "includes" /\ job'.phase = "includes"
    /\ job.todo # <<>> /\ job'.todo = job.todo /\ job'.edges # <<>> /\ walk' = walk
    /\ \/ asked' = asked /\ job.edges = <<>> /\ Len(job'.edges) <= MaxIncludeDepth
       \/ AskedOf("relationship") /\ job.edges # <<>> /\ job'.edges = Tail(job.edges)

LEMMA MovesPass ==
    ASSUME Base, Skipped \/ Taken \/ FilterNode \/ Ends \/ Tied
    PROVE  Passes \/ Opens \/ FilterNode \/ Ends \/ Tied
<1>0. /\ DOMAIN KindOf = {"fields", "includes", "sorts"} /\ KindOf["fields"] = "field"
      /\ KindOf["includes"] = "relationship" /\ KindOf["sorts"] = "sort"
    BY DEF KindOf
<1>1. CASE Skipped
  <2>1. job'.phase = job.phase /\ job'.todo = Tail(job.todo) /\ job'.edges = <<>> /\ walk' = walk
      BY <1>1, SkippedLeaves
  <2>2. /\ job.phase \in DOMAIN KindOf /\ job.todo # <<>>
        /\ AskedOf(KindOf[job.phase])
        /\ job.phase = "includes" /\ job.edges = <<>> => asked' = asked
      BY <1>1 DEF Skipped, AskedOf, In
  <2> QED BY <2>1, <2>2 DEF Passes
<1>2. CASE FieldTaken
  <2>1. /\ job.phase = "fields" /\ job'.phase = "fields" /\ job.todo # <<>>
        /\ job'.todo = Tail(job.todo) /\ job'.edges = job.edges /\ walk' = walk
        /\ AsksFor("field", Element, TRUE)
      BY <1>2, FieldTakenLeaves DEF FieldTaken
  <2>2. job.edges = <<>>
      BY <2>1 DEF Base, JobTyped, In
  <2>3. AskedOf("field")
      BY <2>1 DEF AskedOf
  <2> QED BY <1>0, <2>1, <2>2, <2>3 DEF Passes
<1>3. CASE TakeInclude
  <2>1. /\ asked' = asked /\ walk' = walk /\ job.phase = "includes" /\ job'.phase = "includes"
        /\ job.todo # <<>> /\ job.edges = <<>> /\ job'.edges = Unpaid(Element)
        /\ Element \in DOMAIN Relations /\ Len(Element) <= MaxIncludeDepth
        /\ IncludeDone \/ IncludeOpen
      BY <1>3, TakeIncludeLeaves
  <2>2. CASE IncludeDone
      BY <1>0, <2>1, <2>2 DEF IncludeDone, Passes, AskedOf
  <2>3. CASE IncludeOpen
    <3> DEFINE n == Len(Unpaid(Element))
               m == Len(Element)
    <3>1. n <= m /\ n \in Nat /\ m \in Nat /\ m <= MaxIncludeDepth
        BY <2>1, UnpaidAre, PathIs
    <3> HIDE DEF n, m
    <3>2. n <= MaxIncludeDepth
        BY <3>1, BoundsAre
    <3> QED BY <2>1, <2>3, <3>2 DEF IncludeOpen, Opens, n
  <2> QED BY <2>1, <2>2, <2>3
<1>4. CASE EdgeTaken
  <2>1. /\ walk' = walk /\ job.phase = "includes" /\ job'.phase = "includes"
        /\ job.edges # <<>> /\ job'.edges = Tail(job.edges) /\ job.todo # <<>>
        /\ AsksFor("relationship", Head(job.edges), TRUE)
        /\ IncludeDone \/ IncludeOpen
      BY <1>4, EdgeTakenLeaves
  <2>2. AskedOf("relationship")
      BY <2>1 DEF AskedOf
  <2>3. CASE IncludeDone
      BY <1>0, <2>1, <2>2, <2>3 DEF IncludeDone, Passes
  <2>4. CASE IncludeOpen
      BY <2>1, <2>2, <2>4 DEF IncludeOpen, Opens
  <2> QED BY <2>1, <2>3, <2>4
<1>5. CASE SortTaken
  <2>1. /\ job.phase = "sorts" /\ job'.phase = "sorts" /\ job.todo # <<>>
        /\ job'.todo = Tail(job.todo) /\ job'.edges = <<>> /\ walk' = walk
        /\ AsksFor("sort", Element.name, TRUE)
      BY <1>5, SortTakenLeaves DEF SortTaken
  <2>2. AskedOf("sort")
      BY <2>1 DEF AskedOf
  <2> QED BY <1>0, <2>1, <2>2 DEF Passes
<1> QED BY <1>1, <1>2, <1>3, <1>4, <1>5 DEF Taken

LEMMA Shorter ==
    ASSUME Base, Passes
    PROVE  Len(job.todo) \in Nat \ {0} /\ Len(job'.todo) = Len(job.todo) - 1
<1>1. \E A : job.todo \in Seq(A)
  <2>1. /\ In("fields") => job.todo \in Seq(Range(RequestedFields))
        /\ In("includes") => job.todo \in Seq(Range(RequestedIncludes))
        /\ In("sorts") => job.todo \in Seq(Range(RequestedSorts))
      BY DEF Base, JobTyped
  <2> QED BY <2>1 DEF Passes, KindOf, In
<1>2. job.todo # <<>> /\ job'.todo = Tail(job.todo)
    BY DEF Passes
<1> QED BY <1>1, <1>2, TailIs

LEMMA Counting ==
    ASSUME Base, NEW kind \in DOMAIN Capabilities
    PROVE  /\ Count(kind) \in Nat
           /\ asked' = asked => Count(kind)' = Count(kind)
           /\ \A k \in DOMAIN Capabilities : AskedOf(k) =>
                 \/ Count(kind)' = Count(kind)
                 \/ k = kind /\ Count(kind)' = Count(kind) + 1
<1>1. asked \in Seq(Answers) /\ DOMAIN asked = 1..Len(asked) /\ Len(asked) \in Nat
    BY DEF Base, AskedTyped
<1>2. IsFiniteSet(Heard(kind))
  <2>1. IsFiniteSet(1..Len(asked)) /\ Heard(kind) \in SUBSET (1..Len(asked))
      BY <1>1, FS_Interval DEF Heard
  <2> QED BY <2>1, FS_Subset
<1>3. Count(kind) \in Nat
    BY <1>2, FS_CardinalityType DEF Count
<1>4. ASSUME asked' = asked
      PROVE  Count(kind)' = Count(kind)
    BY <1>4 DEF Count, Heard
<1>5. ASSUME NEW k \in DOMAIN Capabilities, NEW name, NEW ok \in BOOLEAN, AsksFor(k, name, ok)
      PROVE  \/ Count(kind)' = Count(kind)
             \/ k = kind /\ Count(kind)' = Count(kind) + 1
  <2> DEFINE n == Len(asked) + 1
  <2>1. /\ DOMAIN asked' = 1..n /\ \A i \in DOMAIN asked : asked'[i] = asked[i]
        /\ asked'[n].kind = k
      BY <1>1, <1>5, Asking
  <2>2. (\A i : i \in DOMAIN asked' <=> i \in DOMAIN asked \/ i = n) /\ n \notin DOMAIN asked
      BY <1>1, <2>1
  <2> HIDE DEF n
  <2>3. CASE k = kind
    <3>1. Heard(kind)' = Heard(kind) \cup {n} /\ n \notin Heard(kind)
        BY <2>1, <2>2, <2>3 DEF Heard
    <3> QED BY <1>2, <2>3, <3>1, FS_AddElement DEF Count
  <2>4. CASE k # kind
    <3>1. Heard(kind)' = Heard(kind)
        BY <2>1, <2>2, <2>4 DEF Heard
    <3> QED BY <3>1 DEF Count
  <2> QED BY <2>3, <2>4
<1> QED BY <1>3, <1>4, <1>5 DEF AskedOf
\* What is still to be asked fits in what the bounds leave: the fields and the
\* sorts, the edges, and the predicates.
LoadFields ==
    /\ job.phase = "start" => Count("field") = 0
    /\ job.phase = "fields" => Count("field") + Len(job.todo) <= MaxFields
    /\ Count("field") <= MaxFields
LoadEdges ==
    /\ job.phase \in {"start", "fields"} => Count("relationship") = 0
    /\ job.phase = "includes" =>
          Count("relationship") + Len(job.edges) + Len(job.todo) * MaxIncludeDepth
             <= MaxIncludes * MaxIncludeDepth + (IF job.edges = <<>> THEN 0 ELSE MaxIncludeDepth)
    /\ Count("relationship") <= MaxIncludes * MaxIncludeDepth
LoadFilter == Count("filter") <= walk.nodes
LoadSorts ==
    /\ job.phase \in {"start", "fields", "includes", "filter"} => Count("sort") = 0
    /\ job.phase = "sorts" => Count("sort") + Len(job.todo) <= MaxSorts
    /\ job.phase \in {"sorts", "page"} => Count("sort") <= MaxSorts
    /\ Count("sort") <= MaxSorts + 1

\* In each kind of step, the kind of capability that may be counted.
LEMMA KindCounted ==
    ASSUME Base, NEW kind \in DOMAIN Capabilities
    PROVE  /\ Passes => \/ Count(kind)' = Count(kind)
                        \/ kind = KindOf[job.phase] /\ Count(kind)' = Count(kind) + 1
           /\ Opens => \/ Count(kind)' = Count(kind)
                       \/ kind = "relationship" /\ Count(kind)' = Count(kind) + 1
           /\ Ends => Count(kind)' = Count(kind)
           /\ Tied => \/ Count(kind)' = Count(kind)
                      \/ kind = "sort" /\ Count(kind)' = Count(kind) + 1
           /\ FilterNode => \/ Count(kind)' = Count(kind) /\ walk'.nodes >= walk.nodes
                            \/ /\ kind = "filter" /\ Count(kind)' = Count(kind) + 1
                               /\ walk'.nodes = walk.nodes + 1
                            \/ Count(kind)' = Count(kind) /\ walk'.nodes = walk.nodes + 1
<1>1. ASSUME Passes
      PROVE  \/ Count(kind)' = Count(kind)
             \/ kind = KindOf[job.phase] /\ Count(kind)' = Count(kind) + 1
  <2>1. KindOf[job.phase] \in DOMAIN Capabilities
      BY <1>1, CapabilitiesAre DEF Passes, KindOf
  <2>2. AskedOf(KindOf[job.phase])
      BY <1>1 DEF Passes
  <2> QED BY <2>1, <2>2, Counting
<1>2. ASSUME Opens
      PROVE  \/ Count(kind)' = Count(kind)
             \/ kind = "relationship" /\ Count(kind)' = Count(kind) + 1
  <2>1. asked' = asked \/ AskedOf("relationship")
      BY <1>2 DEF Opens
  <2> QED BY <2>1, Counting, CapabilitiesAre
<1>3. Ends => Count(kind)' = Count(kind)
    BY EndsLeave, Counting
<1>4. ASSUME Tied
      PROVE  \/ Count(kind)' = Count(kind)
             \/ kind = "sort" /\ Count(kind)' = Count(kind) + 1
  <2>1. AskedOf("sort")
      BY <1>4, TiedLeaves DEF Tied, AskedOf
  <2> QED BY <2>1, Counting, CapabilitiesAre
<1>5. ASSUME FilterNode
      PROVE  \/ Count(kind)' = Count(kind) /\ walk'.nodes >= walk.nodes
             \/ /\ kind = "filter" /\ Count(kind)' = Count(kind) + 1
                /\ walk'.nodes = walk.nodes + 1
             \/ Count(kind)' = Count(kind) /\ walk'.nodes = walk.nodes + 1
  <2>1. In("filter") /\ Visit
      BY <1>5 DEF FilterNode
  <2>2. CASE WalkQuiet
      BY <2>2, Counting DEF WalkQuiet
  <2>3. CASE WalkAsks
    <3>1. AskedOf("filter") /\ walk'.nodes = walk.nodes + 1
        BY <2>3 DEF WalkAsks, AskedOf
    <3> QED BY <3>1, Counting, CapabilitiesAre
  <2> QED BY <2>1, <2>2, <2>3, VisitMoves
<1> QED BY <1>1, <1>2, <1>3, <1>4, <1>5, Zenon

LEMMA LoadFilterKeeps ==
    ASSUME Base, LoadFilter, Passes \/ Opens \/ FilterNode \/ Ends \/ Tied
    PROVE  LoadFilter'
<1> DEFINE c == Count("filter")
           d == Count("filter")'
           n == walk.nodes
           m == walk'.nodes
<1>1. c \in Nat /\ c <= n /\ n \in Nat
  <2>1. walk.nodes \in 0..MaxFilterNodes
      BY DEF Base, WalkInv, WTyped
  <2> QED BY <2>1, Counting, CapabilitiesAre, BoundsAre DEF LoadFilter
<1>2. CASE Passes \/ Opens \/ Ends \/ Tied
  <2>1. walk' = walk
      BY <1>2, EndsLeave, TiedLeaves DEF Passes, Opens, Tied
  <2>2. KindOf["fields"] # "filter" /\ KindOf["includes"] # "filter" /\ KindOf["sorts"] # "filter"
        /\ DOMAIN KindOf = {"fields", "includes", "sorts"}
      BY DEF KindOf
  <2>3. d = c
      BY <1>2, <2>2, KindCounted, CapabilitiesAre DEF Passes
  <2> QED BY <1>1, <2>1, <2>3 DEF LoadFilter
<1>3. CASE FilterNode
  <2>1. \/ d = c /\ m >= n
        \/ d = c + 1 /\ m = n + 1
        \/ d = c /\ m = n + 1
      BY <1>3, KindCounted, CapabilitiesAre
  <2>2. m \in Nat
    <3>1. WalkInv'
        BY <1>3, FilterNodeKeeps DEF Base
    <3>2. walk'.nodes \in 0..MaxFilterNodes
        BY <3>1 DEF WalkInv, WTyped
    <3> QED BY <3>2, BoundsAre
  <2> HIDE DEF c, d, n, m
  <2>3. d <= m
      BY <1>1, <2>1, <2>2
  <2> QED BY <2>3 DEF LoadFilter, d, m
<1> QED BY <1>2, <1>3
LEMMA LoadFieldsKeeps ==
    ASSUME Base, LoadFields, Passes \/ Opens \/ FilterNode \/ Ends \/ Tied
    PROVE  LoadFields'
<1> DEFINE c == Count("field")
           d == Count("field")'
           t == Len(job.todo)
           u == Len(job'.todo)
<1>1. /\ c \in Nat /\ c <= MaxFields /\ MaxFields \in Nat
      /\ job.phase = "start" => c = 0
      /\ job.phase = "fields" => c + t <= MaxFields
    BY Counting, CapabilitiesAre, BoundsAre DEF LoadFields
<1>2. KindOf["includes"] # "field" /\ KindOf["sorts"] # "field"
      /\ DOMAIN KindOf = {"fields", "includes", "sorts"}
    BY DEF KindOf
<1>3. CASE Passes /\ job.phase = "fields"
  <2>1. job'.phase = "fields" /\ t \in Nat \ {0} /\ u = t - 1 /\ (d = c \/ d = c + 1)
      BY <1>3, KindCounted, Shorter, CapabilitiesAre DEF Passes
  <2> HIDE DEF c, d, t, u
  <2>2. d + u <= MaxFields /\ d <= MaxFields
      BY <1>1, <1>3, <2>1
  <2> QED BY <2>1, <2>2 DEF LoadFields, d, u
<1>4. CASE Ends /\ job.phase = "start"
  <2>1. d = c /\ c = 0
      BY <1>1, <1>4, KindCounted, CapabilitiesAre
  <2>2. job'.phase = "fields" /\ u \in Nat /\ u <= MaxFields
    <3>1. job'.phase = "fields" /\ job'.todo = Upto(RequestedFields, MaxFields)
        BY <1>4, EndsBegin DEF Begins, Moves
    <3>2. /\ RequestedFields \in Seq(Range(RequestedFields))
          /\ Upto(RequestedFields, MaxFields) \in Seq(Range(RequestedFields))
        BY RequestedAre, UptoIs, BoundsAre DEF Base, RequestTyped
    <3> QED BY <3>1, <3>2, UptoIs, BoundsAre
  <2> HIDE DEF c, d, t, u
  <2>3. d + u <= MaxFields /\ d <= MaxFields
      BY <1>1, <2>1, <2>2
  <2> QED BY <2>2, <2>3 DEF LoadFields, d, u
<1>5. ASSUME d = c, job'.phase \notin {"start", "fields"}
      PROVE  LoadFields'
    BY <1>1, <1>5 DEF LoadFields
<1>6. CASE Passes /\ job.phase # "fields"
  <2>1. job'.phase \in {"includes", "sorts"} /\ d = c
      BY <1>2, <1>6, KindCounted, CapabilitiesAre DEF Passes
  <2> QED BY <1>5, <2>1
<1>7. CASE Opens \/ FilterNode \/ Tied
  <2>1. job'.phase \notin {"start", "fields"}
      BY <1>7, TiedLeaves DEF Opens, FilterNode, In, Tied
  <2>2. d = c
      BY <1>7, KindCounted, CapabilitiesAre
  <2> QED BY <1>5, <2>1, <2>2
<1>8. CASE Ends /\ job.phase # "start"
  <2>1. job'.phase \notin {"start", "fields"}
      BY <1>8, EndsBegin DEF Begins, Moves
  <2>2. d = c
      BY <1>8, KindCounted, CapabilitiesAre
  <2> QED BY <1>5, <2>1, <2>2
<1> HIDE DEF c, d, t, u
<1> QED BY <1>3, <1>4, <1>6, <1>7, <1>8

LEMMA LoadSortsKeeps ==
    ASSUME Base, LoadSorts, Passes \/ Opens \/ FilterNode \/ Ends \/ Tied
    PROVE  LoadSorts'
<1> DEFINE c == Count("sort")
           d == Count("sort")'
           t == Len(job.todo)
           u == Len(job'.todo)
           early == {"start", "fields", "includes", "filter"}
<1>1. /\ c \in Nat /\ c <= MaxSorts + 1 /\ MaxSorts \in Nat
      /\ job.phase \in early => c = 0
      /\ job.phase = "sorts" => c + t <= MaxSorts
      /\ job.phase \in {"sorts", "page"} => c <= MaxSorts
    BY Counting, CapabilitiesAre, BoundsAre DEF LoadSorts
<1>2. /\ KindOf["fields"] # "sort" /\ KindOf["includes"] # "sort"
      /\ DOMAIN KindOf = {"fields", "includes", "sorts"}
    BY DEF KindOf
<1>3. CASE Passes /\ job.phase = "sorts"
  <2>1. job'.phase = "sorts" /\ t \in Nat \ {0} /\ u = t - 1 /\ (d = c \/ d = c + 1)
      BY <1>3, KindCounted, Shorter, CapabilitiesAre DEF Passes
  <2> HIDE DEF c, d, t, u
  <2>2. d + u <= MaxSorts /\ d <= MaxSorts /\ d <= MaxSorts + 1
      BY <1>1, <1>3, <2>1
  <2> QED BY <2>1, <2>2 DEF LoadSorts, d, u
<1>4. CASE Ends /\ job.phase = "filter"
  <2>1. d = c /\ c = 0
      BY <1>1, <1>4, KindCounted, CapabilitiesAre
  <2>2. job'.phase = "sorts" /\ u \in Nat /\ u <= MaxSorts
    <3>1. job'.phase = "sorts" /\ job'.todo = Upto(RequestedSorts, MaxSorts)
        BY <1>4, EndsBegin DEF Begins, Moves
    <3>2. /\ RequestedSorts \in Seq(Range(RequestedSorts))
          /\ Upto(RequestedSorts, MaxSorts) \in Seq(Range(RequestedSorts))
        BY RequestedAre, UptoIs, BoundsAre DEF Base, RequestTyped
    <3> QED BY <3>1, <3>2, UptoIs, BoundsAre
  <2> HIDE DEF c, d, t, u
  <2>3. d + u <= MaxSorts /\ d <= MaxSorts /\ d <= MaxSorts + 1
      BY <1>1, <2>1, <2>2
  <2> QED BY <2>2, <2>3 DEF LoadSorts, d, u
<1>5. ASSUME d = c, job'.phase \in early, job.phase \in early
      PROVE  LoadSorts'
    BY <1>1, <1>5 DEF LoadSorts
<1>6. ASSUME d = c, job'.phase \notin early \cup {"sorts"},
             job'.phase = "page" => job.phase \in {"sorts", "page"}
      PROVE  LoadSorts'
    BY <1>1, <1>6 DEF LoadSorts
<1>7. CASE Passes /\ job.phase # "sorts"
  <2>1. job.phase \in early /\ job'.phase = job.phase
      BY <1>2, <1>7 DEF Passes
  <2>2. d = c
      BY <1>2, <1>7, KindCounted, CapabilitiesAre DEF Passes
  <2> QED BY <1>5, <2>1, <2>2
<1>8. CASE Opens \/ FilterNode
  <2>1. job.phase \in early /\ job'.phase \in early
      BY <1>8 DEF Opens, FilterNode, In
  <2>2. d = c
      BY <1>8, KindCounted, CapabilitiesAre
  <2> QED BY <1>5, <2>1, <2>2
<1>9. CASE Ends /\ job.phase # "filter"
  <2>1. d = c
      BY <1>9, KindCounted, CapabilitiesAre
  <2>2. \/ job.phase \in early /\ job'.phase \in early
        \/ /\ job'.phase \notin early \cup {"sorts"}
           /\ job'.phase = "page" => job.phase \in {"sorts", "page"}
      BY <1>9, EndsBegin DEF Begins, Moves
  <2> QED BY <1>5, <1>6, <2>1, <2>2
<1>10. CASE Tied
  <2>1. job.phase = "page" /\ job'.phase = "cursor" /\ (d = c \/ d = c + 1)
      BY <1>10, KindCounted, CapabilitiesAre, TiedLeaves DEF Tied
  <2> HIDE DEF c, d, t, u
  <2>2. d <= MaxSorts + 1
      BY <1>1, <2>1
  <2> QED BY <2>1, <2>2 DEF LoadSorts, d
<1> HIDE DEF c, d, t, u, early
<1> QED BY <1>3, <1>4, <1>7, <1>8, <1>9, <1>10

LEMMA LoadEdgesKeeps ==
    ASSUME Base, Base', LoadEdges, Passes \/ Opens \/ FilterNode \/ Ends \/ Tied
    PROVE  LoadEdges'
<1> DEFINE c == Count("relationship")
           d == Count("relationship")'
           t == Len(job.todo)
           u == Len(job'.todo)
           e == Len(job.edges)
           f == Len(job'.edges)
           D == MaxIncludeDepth
           all == MaxIncludes * D
<1>1. /\ c \in Nat /\ c <= all /\ D \in Nat /\ MaxIncludes \in Nat /\ all \in Nat
      /\ job.phase \in {"start", "fields"} => c = 0
      /\ job.phase = "includes" =>
            c + e + t * D <= all + (IF job.edges = <<>> THEN 0 ELSE D)
    BY Counting, CapabilitiesAre, BoundsAre DEF LoadEdges
<1>2. /\ KindOf["fields"] # "relationship" /\ KindOf["sorts"] # "relationship"
      /\ DOMAIN KindOf = {"fields", "includes", "sorts"}
    BY DEF KindOf
<1>3. ASSUME job.phase = "includes"
      PROVE  /\ job.edges = <<>> => e = 0 /\ c + t * D <= all
             /\ job.edges # <<>> => e \in Nat \ {0} /\ c + e + t * D <= all + D
  <2>1. job.edges \in Seq(DOMAIN Relations)
      BY <1>3 DEF Base, JobTyped, In
  <2>2. job.edges = <<>> => e = 0
      OBVIOUS
  <2>3. job.edges # <<>> => e \in Nat \ {0}
      BY <2>1
  <2>4. c + e + t * D <= all + (IF job.edges = <<>> THEN 0 ELSE D)
      BY <1>1, <1>3
  <2>5. t \in Nat
    <3>1. job.todo \in Seq(Range(RequestedIncludes))
        BY <1>3 DEF Base, JobTyped, In
    <3> QED BY <3>1
  <2> HIDE DEF t, e, all, D, c
  <2>6. t * D \in Nat
      BY <1>1, <2>5
  <2> QED BY <1>1, <2>2, <2>3, <2>4, <2>6
<1>4. CASE Passes /\ job.phase = "includes"
  <2>1. /\ job'.phase = "includes" /\ job'.edges = <<>> /\ t \in Nat \ {0} /\ u = t - 1
        /\ (d = c \/ d = c + 1) /\ (job.edges = <<>> => d = c)
      BY <1>4, KindCounted, Counting, Shorter, CapabilitiesAre DEF Passes
  <2>2. f = 0
      BY <2>1
  <2> HIDE DEF c, d, t, u, e, f, D, all
  <2>3. u * D = t * D - D /\ u * D \in Nat /\ t * D \in Nat
      BY <1>1, <2>1
  <2>4. d + u * D <= all
    <3>1. CASE job.edges = <<>>
        BY <1>1, <1>3, <1>4, <2>1, <2>3, <3>1
    <3>2. CASE job.edges # <<>>
        BY <1>1, <1>3, <1>4, <2>1, <2>3, <3>2
    <3> QED BY <3>1, <3>2
  <2>5. d + f + u * D <= all + 0 /\ d <= all
      BY <1>1, <2>1, <2>2, <2>3, <2>4
  <2> QED BY <2>1, <2>5 DEF LoadEdges, d, u, f, D, all
<1>5. CASE Opens
  <2>1. /\ job.phase = "includes" /\ job'.phase = "includes" /\ job'.edges # <<>> /\ u = t
        /\ job.todo # <<>>
      BY <1>5 DEF Opens
  <2>2. t \in Nat \ {0} /\ job.edges \in Seq(DOMAIN Relations)
    <3>1. job.todo \in Seq(Range(RequestedIncludes)) /\ job.edges \in Seq(DOMAIN Relations)
        BY <2>1 DEF Base, JobTyped, In
    <3> QED BY <2>1, <3>1
  <2>3. \/ d = c /\ job.edges = <<>> /\ f <= D
        \/ (d = c \/ d = c + 1) /\ job.edges # <<>> /\ f = e - 1
    <3>1. CASE asked' = asked /\ job.edges = <<>> /\ Len(job'.edges) <= MaxIncludeDepth
        BY <3>1, Counting, CapabilitiesAre
    <3>2. CASE AskedOf("relationship") /\ job.edges # <<>> /\ job'.edges = Tail(job.edges)
      <4>1. d = c \/ d = c + 1
          BY <3>2, Counting, CapabilitiesAre
      <4>2. f = e - 1
          BY <2>2, <3>2, TailIs
      <4> QED BY <3>2, <4>1, <4>2
    <3> QED BY <1>5, <3>1, <3>2 DEF Opens
  <2>4. f \in Nat
    <3>1. job'.edges \in Seq(DOMAIN Relations)
      <4>1. JobTyped'
          BY DEF Base
      <4> QED BY <2>1, <4>1 DEF JobTyped, In
    <3> QED BY <3>1
  <2> HIDE DEF c, d, t, u, e, f, D, all
  <2>5. t * D \in Nat /\ t * D >= D
      BY <1>1, <2>2
  <2>6. d + f + u * D <= all + D
      BY <1>1, <1>3, <2>1, <2>3, <2>4, <2>5
  <2>7. d <= all
      BY <1>1, <1>3, <2>1, <2>3, <2>4, <2>5, <2>6
  <2> QED BY <2>1, <2>6, <2>7 DEF LoadEdges, d, u, f, D, all
<1>6. CASE Ends /\ job.phase = "fields"
  <2>1. d = c /\ c = 0
      BY <1>1, <1>6, KindCounted, CapabilitiesAre
  <2>2. job'.phase = "includes" /\ u \in Nat /\ u <= MaxIncludes /\ job'.edges = <<>>
    <3>1. job'.phase = "includes" /\ job'.todo = Upto(RequestedIncludes, MaxIncludes)
        BY <1>6, EndsBegin DEF Begins, Moves
    <3>2. /\ RequestedIncludes \in Seq(Range(RequestedIncludes))
          /\ Upto(RequestedIncludes, MaxIncludes) \in Seq(Range(RequestedIncludes))
        BY RequestedAre, UptoIs, BoundsAre DEF Base, RequestTyped
    <3>3. job'.edges = <<>>
        BY <1>6, EndsLeave
    <3> QED BY <3>1, <3>2, <3>3, UptoIs, BoundsAre
  <2>3. f = 0
      BY <2>2
  <2> HIDE DEF c, d, t, u, e, f, D
  <2>4. u * D <= MaxIncludes * D /\ u * D \in Nat
      BY <1>1, <2>2
  <2> HIDE DEF all
  <2>5. d + f + u * D <= all + 0 /\ d <= all
      BY <1>1, <2>1, <2>3, <2>4 DEF all
  <2> QED BY <2>2, <2>5 DEF LoadEdges, d, u, f, D, all
<1>7. ASSUME d = c, job'.phase # "includes",
             job'.phase \in {"start", "fields"} => job.phase \in {"start", "fields"}
      PROVE  LoadEdges'
    BY <1>1, <1>7 DEF LoadEdges
<1>8. CASE Passes /\ job.phase # "includes"
  <2>1. job'.phase # "includes" /\ job'.phase = job.phase
      BY <1>8 DEF Passes
  <2>2. d = c
      BY <1>2, <1>8, KindCounted, CapabilitiesAre DEF Passes
  <2> QED BY <1>7, <2>1, <2>2
<1>9. CASE FilterNode \/ Tied
  <2>1. job'.phase \in {"filter", "cursor"}
      BY <1>9, TiedLeaves DEF FilterNode, In, Tied
  <2>2. d = c
      BY <1>9, KindCounted, CapabilitiesAre
  <2> QED BY <1>7, <2>1, <2>2
<1>10. CASE Ends /\ job.phase # "fields"
  <2>1. /\ job'.phase # "includes"
        /\ job'.phase \in {"start", "fields"} => job.phase \in {"start", "fields"}
      BY <1>10, EndsBegin DEF Begins, Moves
  <2>2. d = c
      BY <1>10, KindCounted, CapabilitiesAre
  <2> QED BY <1>7, <2>1, <2>2
<1> HIDE DEF c, d, t, u, e, f, D, all
<1> QED BY <1>4, <1>5, <1>6, <1>8, <1>9, <1>10
\* No edge is asked for once it was granted: those granted are paid for.
NeverAgain ==
    \A i, j \in Heard("relationship") : i < j /\ asked[i].ok => asked[i].name # asked[j].name
Once ==
    /\ job.phase # "includes" => job.paid = {}
    /\ job.phase \in {"start", "fields", "includes"} =>
          GrantedNames("relationship") \subseteq job.paid
    /\ NeverAgain

LEMMA AskedNew ==
    ASSUME Base, Once, NEW k \in DOMAIN Capabilities, NEW name, NEW ok \in BOOLEAN,
           AsksFor(k, name, ok),
           k = "relationship" => job.phase = "includes" /\ name \notin job.paid
    PROVE  /\ NeverAgain'
           /\ \A x \in GrantedNames("relationship")' :
                 x \in GrantedNames("relationship") \/ (k = "relationship" /\ ok /\ x = name)
<1> DEFINE n == Len(asked) + 1
<1>1. /\ DOMAIN asked = 1..Len(asked) /\ DOMAIN asked' = 1..n /\ Len(asked) \in Nat
      /\ \A i \in DOMAIN asked : asked'[i] = asked[i]
      /\ asked'[n].kind = k /\ asked'[n].name = name /\ asked'[n].ok = ok
    BY Asking DEF Base, AskedTyped
<1>2. /\ \A i \in DOMAIN asked' : i \in DOMAIN asked \/ i = n
      /\ \A i \in DOMAIN asked' : i <= n
      /\ \A i, j \in DOMAIN asked' : i < j => i \in DOMAIN asked
    BY <1>1
<1> HIDE DEF n
<1>3. ASSUME NEW i \in Heard("relationship")', NEW j \in Heard("relationship")', i < j,
             asked'[i].ok
      PROVE  asked'[i].name # asked'[j].name
  <2>1. i \in DOMAIN asked /\ asked'[i] = asked[i] /\ i \in Heard("relationship")
      BY <1>1, <1>2, <1>3 DEF Heard
  <2>2. CASE j \in DOMAIN asked
    <3>1. j \in Heard("relationship") /\ asked'[j] = asked[j]
        BY <1>1, <2>2 DEF Heard
    <3> QED BY <1>3, <2>1, <3>1 DEF Once, NeverAgain
  <2>3. CASE j = n
    <3>1. k = "relationship" /\ asked'[j].name = name
        BY <1>1, <2>3 DEF Heard
    <3>2. asked[i].name \in GrantedNames("relationship")
        BY <1>3, <2>1 DEF GrantedNames, Heard
    <3> QED BY <2>1, <3>1, <3>2 DEF Once
  <2> QED BY <1>2, <2>2, <2>3 DEF Heard
<1>4. ASSUME NEW x \in GrantedNames("relationship")'
      PROVE  x \in GrantedNames("relationship") \/ (k = "relationship" /\ ok /\ x = name)
  <2>1. PICK i \in DOMAIN asked' : /\ asked'[i].kind = "relationship" /\ asked'[i].ok
                                   /\ x = asked'[i].name
      BY <1>4 DEF GrantedNames
  <2>2. CASE i \in DOMAIN asked
      BY <1>1, <2>1, <2>2 DEF GrantedNames
  <2>3. CASE i = n
      BY <1>1, <2>1, <2>3
  <2> QED BY <1>2, <2>1, <2>2, <2>3
<1> QED BY <1>3, <1>4 DEF NeverAgain

LEMMA OnceKeeps ==
    ASSUME Base, Once, Skipped \/ Taken \/ FilterNode \/ Ends \/ Tied
    PROVE  Once'
<1>1. ASSUME NEW k \in DOMAIN Capabilities, NEW name, NEW ok \in BOOLEAN,
             AsksFor(k, name, ok), k # "relationship", job'.paid = job.paid,
             job'.phase \in {"start", "fields", "includes"} =>
                 job.phase \in {"start", "fields", "includes"},
             job'.phase # "includes" => job.phase # "includes"
      PROVE  Once'
  <2>1. NeverAgain' /\ GrantedNames("relationship")' \subseteq GrantedNames("relationship")
      BY <1>1, AskedNew
  <2> QED BY <1>1, <2>1 DEF Once
<1>2. ASSUME asked' = asked, job'.paid = job.paid,
             job'.phase \in {"start", "fields", "includes"} =>
                 job.phase \in {"start", "fields", "includes"},
             job'.phase # "includes" => job.phase # "includes"
      PROVE  Once'
  <2>1. NeverAgain' = NeverAgain /\ GrantedNames("relationship")' = GrantedNames("relationship")
      BY <1>2 DEF NeverAgain, Heard, GrantedNames
  <2> QED BY <1>2, <2>1 DEF Once
<1>3. CASE Skipped
  <2>1. job'.phase = job.phase /\ job'.paid = job.paid
      BY <1>3, SkippedLeaves
  <2>2. CASE asked' = asked
      BY <1>2, <2>1, <2>2
  <2>3. CASE job.phase = "includes" /\ asked' # asked
    <3>1. PICK name, ok : /\ AsksFor(KindOf[job.phase], name, ok) /\ ok \in BOOLEAN
                          /\ name \notin job.paid /\ ~ok
        BY <1>3, <2>3 DEF Skipped, In
    <3>2. AsksFor("relationship", name, ok)
        BY <2>3, <3>1 DEF KindOf
    <3>3. NeverAgain' /\ GrantedNames("relationship")' \subseteq GrantedNames("relationship")
        BY <2>3, <3>1, <3>2, AskedNew, CapabilitiesAre
    <3> QED BY <2>1, <3>3 DEF Once
  <2>4. CASE job.phase # "includes" /\ asked' # asked
    <3>1. PICK name, ok : AsksFor(KindOf[job.phase], name, ok) /\ ok \in BOOLEAN
        BY <1>3, <2>4 DEF Skipped
    <3>2. KindOf[job.phase] \in DOMAIN Capabilities /\ KindOf[job.phase] # "relationship"
        BY <1>3, <2>4, CapabilitiesAre DEF Skipped, KindOf
    <3> QED BY <1>1, <2>1, <3>1, <3>2
  <2> QED BY <2>2, <2>3, <2>4
<1>4. CASE FieldTaken
    BY <1>1, <1>4, FieldTakenLeaves, CapabilitiesAre DEF FieldTaken
<1>5. CASE TakeInclude
    BY <1>2, <1>5, TakeIncludeLeaves
<1>6. CASE EdgeTaken
  <2> DEFINE edge == Head(job.edges)
  <2>1. /\ job.phase = "includes" /\ job'.phase = "includes"
        /\ job'.paid = job.paid \cup {edge} /\ edge \notin job.paid
        /\ AsksFor("relationship", edge, TRUE)
      BY <1>6, EdgeTakenLeaves
  <2> HIDE DEF edge
  <2>2. /\ NeverAgain'
        /\ \A x \in GrantedNames("relationship")' : x \in GrantedNames("relationship") \/ x = edge
      BY <2>1, AskedNew, CapabilitiesAre
  <2> QED BY <2>1, <2>2 DEF Once
<1>7. CASE SortTaken
    BY <1>1, <1>7, SortTakenLeaves, CapabilitiesAre DEF SortTaken
<1>8. CASE FilterNode
  <2>1. In("filter") /\ Visit /\ job' = job
      BY <1>8 DEF FilterNode
  <2>2. CASE WalkQuiet
      BY <1>2, <2>1, <2>2 DEF WalkQuiet
  <2>3. CASE WalkAsks
      BY <1>1, <2>1, <2>3, CapabilitiesAre DEF WalkAsks
  <2> QED BY <2>1, <2>2, <2>3, VisitMoves
<1>9. CASE Ends
  <2>1. asked' = asked /\ job'.paid = {}
      BY <1>9, EndsLeave
  <2>2. NeverAgain' = NeverAgain /\ GrantedNames("relationship")' = GrantedNames("relationship")
      BY <2>1 DEF NeverAgain, Heard, GrantedNames
  <2>3. job'.phase \in {"start", "fields", "includes"} => job.phase \in {"start", "fields"}
      BY <1>9, EndsBegin DEF Begins, Moves
  <2> QED BY <2>1, <2>2, <2>3 DEF Once
<1>10. CASE Tied
  <2>1. PICK ok \in BOOLEAN : Tie(ok)
      BY <1>10 DEF Tied
  <2>2. /\ AsksFor("sort", Head(TieBreakers).name, ok) /\ job.phase = "page"
        /\ job'.phase = "cursor" /\ job'.paid = {}
      BY <2>1, TiedLeaves
  <2>3. job.paid = {}
      BY <2>2 DEF Once
  <2> QED BY <1>1, <2>2, <2>3, CapabilitiesAre
<1> QED BY <1>3, <1>4, <1>5, <1>6, <1>7, <1>8, <1>9, <1>10 DEF Taken

Load == LoadFields /\ LoadEdges /\ LoadFilter /\ LoadSorts /\ Once

\* The authorizer is asked about declared capabilities only, never again for an edge it
\* granted, and no oftener than the schema's bounds say, whatever a request asks for
\* (compile.go:147-150, 196-199, 219-230, 310-314, 366-369, 460-468).
THEOREM AuthorizerIsSpared == CompileSpec => []AuthorizerLoad
<1>1. CompileInit => Load
  <2> SUFFICES ASSUME CompileInit
               PROVE  Load
      OBVIOUS
  <2>1. /\ asked = <<>> /\ job = Job("start", <<>>) /\ walk = NoWalk(tree)
      BY DEF CompileInit
  <2>2. /\ job.phase = "start" /\ job.paid = {} /\ walk.nodes = 0 /\ DOMAIN asked = {}
      BY <2>1 DEF Job, NoWalk
  <2>3. \A kind : Heard(kind) = {} /\ GrantedNames(kind) = {} /\ Count(kind) = 0
      BY <2>2, FS_EmptySet DEF Heard, GrantedNames, Count
  <2>4. MaxIncludes * MaxIncludeDepth \in Nat
      BY BoundsAre
  <2> QED BY <2>2, <2>3, <2>4, BoundsAre
          DEF Load, LoadFields, LoadEdges, LoadFilter, LoadSorts, Once, NeverAgain
<1>2. Base /\ Base' /\ Load /\ [CompileNext]_cvars => Load'
  <2> SUFFICES ASSUME Base, Base', Load, [CompileNext]_cvars
               PROVE  Load'
      OBVIOUS
  <2>1. CASE CompileNext
    <3>1. Skipped \/ Taken \/ FilterNode \/ Ends \/ Tied
        BY <2>1, NextMoves
    <3>2. Passes \/ Opens \/ FilterNode \/ Ends \/ Tied
        BY <3>1, MovesPass
    <3> QED BY <3>1, <3>2, LoadFieldsKeeps, LoadEdgesKeeps, LoadFilterKeeps, LoadSortsKeeps,
               OnceKeeps DEF Load
  <2>2. CASE UNCHANGED cvars
    <3>1. job' = job /\ asked' = asked /\ walk' = walk
        BY <2>2 DEF cvars
    <3>2. \A kind : /\ Heard(kind)' = Heard(kind) /\ Count(kind)' = Count(kind)
                    /\ GrantedNames(kind)' = GrantedNames(kind)
        BY <3>1 DEF Heard, GrantedNames, Count
    <3> QED BY <3>1, <3>2
            DEF Load, LoadFields, LoadEdges, LoadFilter, LoadSorts, Once, NeverAgain
  <2> QED BY <2>1, <2>2
<1>3. Base /\ Load => AuthorizerLoad
  <2> SUFFICES ASSUME Base, Load
               PROVE  AuthorizerLoad
      OBVIOUS
  <2>1. \A i \in DOMAIN asked : asked[i].name \in Capabilities[asked[i].kind]
      BY DEF Base, AskedTyped, Answers
  <2>2. Count("filter") <= MaxFilterNodes
    <3>1. walk.nodes \in 0..MaxFilterNodes
        BY DEF Base, WalkInv, WTyped
    <3>2. Count("filter") \in Nat
        BY Counting, CapabilitiesAre
    <3> QED BY <3>1, <3>2, BoundsAre DEF Load, LoadFilter
  <2>3. /\ Count("field") <= MaxFields /\ Count("sort") <= MaxSorts + 1
        /\ Count("relationship") <= MaxIncludes * MaxIncludeDepth
      BY DEF Load, LoadFields, LoadEdges, LoadSorts
  <2>4. NeverAgain
      BY DEF Load, Once
  <2> QED BY <2>1, <2>2, <2>3, <2>4, CapabilitiesAre DEF AuthorizerLoad, NeverAgain, Heard, Count
<1>4. CompileSpec => []Load
    BY <1>1, <1>2, BaseInvariant, PTL DEF CompileSpec
<1> QED BY <1>3, <1>4, BaseInvariant, PTL

-----------------------------------------------------------------------------
\* What is charged for.

\* A bill of a price: the price itself while it is within the limit, and the
\* mark that it is beyond, for good, from then on.
Bills == [cost : 0..MaxCost, exceeded : BOOLEAN]
Tracks(b, price) ==
    /\ b \in Bills /\ price \in Nat
    /\ price <= MaxCost => b.cost = price /\ b.exceeded = FALSE
    /\ price > MaxCost => b.exceeded = TRUE

LEMMA ChargeTyped ==
    ASSUME NEW b \in Bills, NEW amount \in Nat
    PROVE  /\ Charge(b, amount) \in Bills
           /\ \A price \in Nat : Tracks(b, price) => Tracks(Charge(b, amount), price + amount)
<1>1. MaxCost \in Nat /\ MaxInt \in Nat /\ MaxCost <= MaxInt
    BY CompileAssumption
<1>2. /\ b.cost \in 0..MaxCost /\ b.exceeded \in BOOLEAN
      /\ b = [cost |-> b.cost, exceeded |-> b.exceeded]
    BY DEF Bills
<1> DEFINE beyond == amount > MaxCost - b.cost
<1>3. CASE b.exceeded = TRUE \/ beyond
  <2>1. Charge(b, amount) = [b EXCEPT !.exceeded = TRUE]
      BY <1>2, <1>3 DEF Charge
  <2>2. Charge(b, amount) = [cost |-> b.cost, exceeded |-> TRUE]
    <3> HIDE DEF beyond
    <3> QED BY <1>2, <2>1
  <2>3. Charge(b, amount) \in Bills
      BY <1>2, <2>2 DEF Bills
  <2>4. ASSUME NEW price \in Nat, Tracks(b, price)
        PROVE  price + amount > MaxCost /\ price + amount \in Nat
    <3>1. price <= MaxCost => b.cost = price /\ b.exceeded = FALSE
        BY <2>4 DEF Tracks
    <3> QED BY <1>1, <1>2, <1>3, <3>1
  <2>5. Charge(b, amount).exceeded = TRUE
      BY <2>2
  <2> HIDE DEF beyond
  <2>6. ASSUME NEW price \in Nat, Tracks(b, price)
        PROVE  Tracks(Charge(b, amount), price + amount)
    <3>1. price + amount > MaxCost /\ price + amount \in Nat
        BY <2>4, <2>6
    <3>2. ~(price + amount <= MaxCost)
        BY <1>1, <3>1
    <3> QED BY <2>3, <2>5, <3>1, <3>2 DEF Tracks
  <2> QED BY <2>3, <2>6
<1>4. CASE b.exceeded = FALSE /\ ~beyond
  <2>1. Charge(b, amount) = [b EXCEPT !.cost = Plus(b.cost, amount)]
      BY <1>2, <1>4 DEF Charge
  <2>2. b.cost + amount \in 0..MaxCost /\ ~(b.cost + amount > MaxInt)
      BY <1>1, <1>2, <1>4
  <2>3. Plus(b.cost, amount) = b.cost + amount
      BY <2>2 DEF Plus
  <2> HIDE DEF beyond
  <2>4. Charge(b, amount) = [cost |-> b.cost + amount, exceeded |-> FALSE]
      BY <1>2, <1>4, <2>1, <2>3
  <2>5. Charge(b, amount) \in Bills
      BY <2>2, <2>4 DEF Bills
  <2>6. ASSUME NEW price \in Nat, Tracks(b, price)
        PROVE  Tracks(Charge(b, amount), price + amount)
    <3>1. b.cost = price
      <4>1. ~(price > MaxCost)
          BY <1>4, <2>6 DEF Tracks
      <4>2. price <= MaxCost
          BY <1>1, <4>1
      <4> QED BY <2>6, <4>2 DEF Tracks
    <3>2. /\ price + amount \in Nat /\ price + amount <= MaxCost
          /\ ~(price + amount > MaxCost)
        BY <1>1, <2>2, <3>1
    <3>3. Charge(b, amount).cost = price + amount /\ Charge(b, amount).exceeded = FALSE
        BY <2>4, <3>1
    <3> QED BY <2>5, <3>2, <3>3 DEF Tracks
  <2> QED BY <2>5, <2>6
<1> HIDE DEF beyond
<1> QED BY <1>2, <1>3, <1>4

LEMMA ChargeSteps ==
    ASSUME NEW b \in Bills, NEW amounts \in Seq(Nat)
    PROVE  \E p \in [0..Len(amounts) -> Bills] :
              /\ p[0] = b
              /\ \A k \in 0..(Len(amounts) - 1) : p[k + 1] = Charge(p[k], amounts[k + 1])
              /\ ChargeAll(b, amounts) = p[Len(amounts)]
<1> DEFINE n == Len(amounts)
           Goes(h) == h = [D \in SUBSET (1..n) |->
                              IF D = {} THEN b ELSE Charge(h[D \ {Top(D)}], amounts[Top(D)])]
           F == CHOOSE h : Goes(h)
           step == [z \in (1..n) \X Bills |-> Charge(z[2], amounts[z[1]])]
<1>0. n \in Nat /\ DOMAIN amounts = 1..n /\ \A i \in 1..n : amounts[i] \in Nat
    OBVIOUS
<1>1. ChargeAll(b, amounts) = F[1..n]
    BY <1>0 DEF ChargeAll, FoldLeft, MapThenFoldSet, Top
<1>2. step \in [(1..n) \X Bills -> Bills]
  <2>1. \A i \in 1..n, c \in Bills : Charge(c, amounts[i]) \in Bills
      BY <1>0, ChargeTyped
  <2> QED BY <2>1
<1>3. PICK g \in [SUBSET (1..n) -> Bills] : \A D \in SUBSET (1..n) :
         g[D] = IF D = {} THEN b ELSE step[<<Top(D), g[D \ {Top(D)}]>>]
  <2> HIDE DEF step
  <2>1. PICK g : Folds(g, n, Bills, b, step)
      BY <1>0, <1>2, FoldExists
  <2> QED BY <2>1 DEF Folds
<1>4. ASSUME NEW D \in SUBSET (1..n), D # {}
      PROVE  Top(D) \in 1..n /\ D \ {Top(D)} \in SUBSET (1..n)
    BY <1>0, <1>4, Topmost
<1>5. Goes(g)
  <2>1. ASSUME NEW D \in SUBSET (1..n)
        PROVE  g[D] = IF D = {} THEN b ELSE Charge(g[D \ {Top(D)}], amounts[Top(D)])
    <3>1. CASE D = {}
        BY <3>1, <1>3
    <3>2. CASE D # {}
      <4>1. <<Top(D), g[D \ {Top(D)}]>> \in (1..n) \X Bills
          BY <3>2, <1>4
      <4>2. g[D] = step[<<Top(D), g[D \ {Top(D)}]>>]
        <5> HIDE DEF step
        <5> QED BY <3>2, <1>3
      <4>3. step[<<Top(D), g[D \ {Top(D)}]>>] = Charge(g[D \ {Top(D)}], amounts[Top(D)])
          BY <4>1
      <4> QED BY <3>2, <4>2, <4>3
    <3> QED BY <3>1, <3>2
  <2> QED BY <2>1
<1>6. Goes(F)
  <2> HIDE DEF Goes
  <2> QED BY <1>5
<1> HIDE DEF F
<1>7. \A D \in SUBSET (1..n) :
         F[D] = IF D = {} THEN b ELSE Charge(F[D \ {Top(D)}], amounts[Top(D)])
    BY <1>6
<1> DEFINE p == [k \in 0..n |-> F[1..k]]
<1>8. p[0] = b
  <2>1. 1..0 = {} /\ {} \in SUBSET (1..n)
      OBVIOUS
  <2>2. F[{}] = b
      BY <1>7, <2>1
  <2> QED BY <1>0, <2>1, <2>2
<1>9. ASSUME NEW k \in 0..(n - 1)
      PROVE  p[k + 1] = Charge(p[k], amounts[k + 1])
  <2>1. /\ Top(1..(k + 1)) = k + 1 /\ (1..(k + 1)) \ {Top(1..(k + 1))} = 1..k
        /\ 1..(k + 1) \in SUBSET (1..n) /\ 1..(k + 1) # {}
    <3>1. k + 1 \in Nat \ {0} /\ (k + 1) - 1 = k
        BY <1>0
    <3>2. Top(1..(k + 1)) = k + 1 /\ (1..(k + 1)) \ {Top(1..(k + 1))} = 1..((k + 1) - 1)
        BY <3>1, TopOfInterval
    <3>3. k + 1 \in 1..n /\ k + 1 \in 1..(k + 1)
        BY <1>0
    <3>4. 1..(k + 1) \in SUBSET (1..n)
        BY <1>0
    <3>5. 1..(k + 1) # {}
        BY <3>3
    <3> QED BY <3>1, <3>2, <3>4, <3>5
  <2>2. F[1..(k + 1)] = Charge(F[1..k], amounts[k + 1])
      BY <1>7, <2>1
  <2>3. p[k + 1] = F[1..(k + 1)] /\ p[k] = F[1..k]
      BY <1>0
  <2> HIDE DEF p
  <2> QED BY <2>2, <2>3
<1>10. p[n] = F[1..n]
    BY <1>0
<1>11. p \in [0..n -> Bills]
  <2> DEFINE G == {k \in 0..n : p[k] \in Bills}
  <2>1. 0 \in G
    <3>1. 0 \in 0..n
        BY <1>0
    <3> HIDE DEF p
    <3> QED BY <1>8, <3>1
  <2>2. ASSUME NEW k \in 0..(n - 1), k \in G
        PROVE  k + 1 \in G
    <3>1. p[k] \in Bills /\ amounts[k + 1] \in Nat /\ k + 1 \in 0..n
        BY <1>0, <2>2
    <3> HIDE DEF p
    <3> QED BY <1>9, <3>1, ChargeTyped
  <2>3. 0..n \subseteq G
    <3> HIDE DEF G
    <3> QED BY <1>0, <2>1, <2>2, Climb
  <2>4. \A k \in 0..n : F[1..k] \in Bills
      BY <2>3
  <2> QED BY <2>4
<1> HIDE DEF p
<1> QED BY <1>1, <1>8, <1>9, <1>10, <1>11

\* The sum of a list, element by element.
LEMMA TotalTyped ==
    ASSUME NEW amounts \in Seq(Nat)
    PROVE  /\ \A k \in 0..Len(amounts) : SumOf(amounts, 1..k) \in Nat
           /\ SumOf(amounts, 1..0) = 0
           /\ \A k \in 0..(Len(amounts) - 1) :
                 /\ amounts[k + 1] \in Nat
                 /\ SumOf(amounts, 1..(k + 1)) = amounts[k + 1] + SumOf(amounts, 1..k)
<1> DEFINE n == Len(amounts)
           total(k) == SumOf(amounts, 1..k)
<1>0. n \in Nat /\ \A i \in 1..n : amounts[i] \in Nat
    OBVIOUS
<1>2. \A k \in 0..n : total(k) \in Nat
  <2> SUFFICES ASSUME NEW k \in 0..n PROVE total(k) \in Nat
      OBVIOUS
  <2>1. IsFiniteSet(1..k) /\ \A i \in 1..k : amounts[i] \in Nat
      BY <1>0, FS_Interval
  <2> QED BY <2>1, SumTyped
<1>3. total(0) = 0
  <2>1. 1..0 = {}
      OBVIOUS
  <2> QED BY <2>1, SumEmpty
<1>4. ASSUME NEW k \in 0..(n - 1)
      PROVE  total(k + 1) = amounts[k + 1] + total(k) /\ amounts[k + 1] \in Nat
  <2>1. /\ k \in Nat /\ k + 1 \in 1..n /\ k + 1 \notin 1..k
        /\ 1..(k + 1) = 1..k \cup {k + 1} /\ \A i \in 1..k \cup {k + 1} : amounts[i] \in Nat
      BY <1>0
  <2>2. IsFiniteSet(1..k)
      BY <2>1, FS_Interval
  <2>3. SumOf(amounts, 1..k \cup {k + 1}) = amounts[k + 1] + SumOf(amounts, 1..k)
      BY <2>1, <2>2, SumAdd
  <2> QED BY <2>1, <2>3
<1> QED BY <1>2, <1>3, <1>4

\* Charging one by one tracks the sum.
LEMMA ChargeAllTracks ==
    ASSUME NEW b, NEW price, Tracks(b, price), NEW amounts \in Seq(Nat)
    PROVE  /\ SumOf(amounts, 1..Len(amounts)) \in Nat
           /\ Tracks(ChargeAll(b, amounts), price + SumOf(amounts, 1..Len(amounts)))
<1> DEFINE n == Len(amounts)
           total(k) == SumOf(amounts, 1..k)
<1>0. /\ n \in Nat /\ \A i \in 1..n : amounts[i] \in Nat
      /\ b \in Bills /\ price \in Nat
    BY DEF Tracks
<1>1. PICK p \in [0..n -> Bills] :
         /\ p[0] = b
         /\ \A k \in 0..(n - 1) : p[k + 1] = Charge(p[k], amounts[k + 1])
         /\ ChargeAll(b, amounts) = p[n]
    BY <1>0, ChargeSteps
<1>2. \A k \in 0..n : total(k) \in Nat
    BY TotalTyped
<1>3. total(0) = 0
    BY TotalTyped
<1>4. ASSUME NEW k \in 0..(n - 1)
      PROVE  total(k + 1) = amounts[k + 1] + total(k) /\ amounts[k + 1] \in Nat
    BY TotalTyped
<1> DEFINE G == {k \in 0..n : Tracks(p[k], price + total(k))}
<1> HIDE DEF total
<1>5. 0 \in G
  <2>1. price + 0 = price /\ 0 \in 0..n
      BY <1>0
  <2> QED BY <1>1, <1>3, <2>1
<1>6. ASSUME NEW k \in 0..(n - 1), k \in G
      PROVE  k + 1 \in G
  <2>0. k + 1 \in 0..n /\ k \in 0..n
      BY <1>0
  <2>1. /\ p[k] \in Bills /\ k + 1 \in 0..n /\ k \in 0..n /\ total(k) \in Nat
        /\ Tracks(p[k], price + total(k)) /\ price + total(k) \in Nat
    <3>1. Tracks(p[k], price + total(k))
        BY <1>6
    <3>2. total(k) \in Nat
        BY <1>2, <2>0
    <3> HIDE DEF G, n
    <3>3. p[k] \in Bills
        BY <2>0
    <3> QED BY <1>0, <2>0, <3>1, <3>2, <3>3
  <2>2. Tracks(p[k + 1], (price + total(k)) + amounts[k + 1])
    <3>1. p[k + 1] = Charge(p[k], amounts[k + 1])
        BY <1>1
    <3>2. amounts[k + 1] \in Nat
        BY <1>4
    <3> HIDE DEF G
    <3> QED BY <2>1, <3>1, <3>2, ChargeTyped
  <2>3. (price + total(k)) + amounts[k + 1] = price + total(k + 1)
      BY <1>0, <1>4, <2>1
  <2> QED BY <2>1, <2>2, <2>3
<1>7. 0..n \subseteq G
  <2> HIDE DEF G
  <2> QED BY <1>0, <1>5, <1>6, Climb
<1>8. n \in 0..n
    BY <1>0
<1>9. Tracks(p[n], price + total(n)) /\ total(n) \in Nat
    BY <1>2, <1>7, <1>8
<1> QED BY <1>1, <1>9 DEF total

-----------------------------------------------------------------------------
\* The sum that saturates.

Ints == 0..MaxInt
Saturate(s, a)  == IF a > MaxInt - s THEN MaxInt ELSE Plus(s, a)
Saturated(s)    == IF s > MaxInt THEN MaxInt ELSE s

LEMMA SaturateTyped ==
    /\ MaxInt \in Nat /\ 0 \in Ints
    /\ \A s \in Ints, a \in Nat : Saturate(s, a) \in Ints
    /\ \A s, a \in Nat : Saturate(Saturated(s), a) = Saturated(a + s)
<1>1. MaxInt \in Nat
    BY CompileAssumption
<1>2. ASSUME NEW s \in 0..MaxInt, NEW a \in Nat
      PROVE  Saturate(s, a) = IF a + s > MaxInt THEN MaxInt ELSE a + s
  <2>1. CASE a > MaxInt - s
    <3>1. a + s > MaxInt
        BY <1>1, <2>1
    <3> QED BY <2>1, <3>1 DEF Saturate
  <2>2. CASE ~(a > MaxInt - s)
    <3>1. ~(a + s > MaxInt) /\ s + a = a + s
        BY <1>1, <2>2
    <3> QED BY <2>2, <3>1 DEF Saturate, Plus
  <2> QED BY <2>1, <2>2
<1>3. ASSUME NEW s \in Ints, NEW a \in Nat PROVE Saturate(s, a) \in Ints
    BY <1>1, <1>2 DEF Ints
<1>4. ASSUME NEW s \in Nat, NEW a \in Nat
      PROVE  Saturate(Saturated(s), a) = Saturated(a + s)
  <2>1. Saturated(s) \in 0..MaxInt
      BY <1>1 DEF Saturated
  <2>2. Saturate(Saturated(s), a)
            = IF a + Saturated(s) > MaxInt THEN MaxInt ELSE a + Saturated(s)
      BY <1>2, <2>1
  <2> QED BY <1>1, <2>2 DEF Saturated
<1> QED BY <1>1, <1>3, <1>4 DEF Ints

LEMMA SaturatingSteps ==
    ASSUME NEW amounts \in Seq(Nat)
    PROVE  \E p \in [0..Len(amounts) -> Ints] :
              /\ p[0] = 0
              /\ \A k \in 0..(Len(amounts) - 1) : p[k + 1] = Saturate(p[k], amounts[k + 1])
              /\ SaturatingSum(amounts) = p[Len(amounts)]
<1> DEFINE n == Len(amounts)
           Goes(h) == h = [D \in SUBSET (1..n) |->
                              IF D = {} THEN 0 ELSE Saturate(h[D \ {Top(D)}], amounts[Top(D)])]
           F == CHOOSE h : Goes(h)
           step == [z \in (1..n) \X Ints |-> Saturate(z[2], amounts[z[1]])]
<1>0. n \in Nat /\ DOMAIN amounts = 1..n /\ \A i \in 1..n : amounts[i] \in Nat
    OBVIOUS
<1>1. SaturatingSum(amounts) = F[1..n]
    BY <1>0 DEF SaturatingSum, Saturate, FoldLeft, MapThenFoldSet, Top
<1>2. step \in [(1..n) \X Ints -> Ints]
  <2>1. \A i \in 1..n, c \in Ints : Saturate(c, amounts[i]) \in Ints
      BY <1>0, SaturateTyped
  <2> QED BY <2>1
<1>3. PICK g \in [SUBSET (1..n) -> Ints] : \A D \in SUBSET (1..n) :
         g[D] = IF D = {} THEN 0 ELSE step[<<Top(D), g[D \ {Top(D)}]>>]
  <2> HIDE DEF step
  <2>1. PICK g : Folds(g, n, Ints, 0, step)
      BY <1>0, <1>2, SaturateTyped, FoldExists
  <2> QED BY <2>1 DEF Folds
<1>4. ASSUME NEW D \in SUBSET (1..n), D # {}
      PROVE  Top(D) \in 1..n /\ D \ {Top(D)} \in SUBSET (1..n)
    BY <1>0, <1>4, Topmost
<1>5. Goes(g)
  <2>1. ASSUME NEW D \in SUBSET (1..n)
        PROVE  g[D] = IF D = {} THEN 0 ELSE Saturate(g[D \ {Top(D)}], amounts[Top(D)])
    <3>1. CASE D = {}
        BY <3>1, <1>3
    <3>2. CASE D # {}
      <4>1. <<Top(D), g[D \ {Top(D)}]>> \in (1..n) \X Ints
          BY <3>2, <1>4
      <4>2. g[D] = step[<<Top(D), g[D \ {Top(D)}]>>]
        <5> HIDE DEF step
        <5> QED BY <3>2, <1>3
      <4>3. step[<<Top(D), g[D \ {Top(D)}]>>] = Saturate(g[D \ {Top(D)}], amounts[Top(D)])
          BY <4>1
      <4> QED BY <3>2, <4>2, <4>3
    <3> QED BY <3>1, <3>2
  <2> QED BY <2>1
<1>6. Goes(F)
  <2> HIDE DEF Goes
  <2> QED BY <1>5
<1> HIDE DEF F
<1>7. \A D \in SUBSET (1..n) :
         F[D] = IF D = {} THEN 0 ELSE Saturate(F[D \ {Top(D)}], amounts[Top(D)])
    BY <1>6
<1> DEFINE p == [k \in 0..n |-> F[1..k]]
<1>8. p[0] = 0
  <2>1. 1..0 = {} /\ {} \in SUBSET (1..n)
      OBVIOUS
  <2>2. F[{}] = 0
      BY <1>7, <2>1
  <2> QED BY <1>0, <2>1, <2>2
<1>9. ASSUME NEW k \in 0..(n - 1)
      PROVE  p[k + 1] = Saturate(p[k], amounts[k + 1])
  <2>1. /\ Top(1..(k + 1)) = k + 1 /\ (1..(k + 1)) \ {Top(1..(k + 1))} = 1..k
        /\ 1..(k + 1) \in SUBSET (1..n) /\ 1..(k + 1) # {}
    <3>1. k + 1 \in Nat \ {0} /\ (k + 1) - 1 = k
        BY <1>0
    <3>2. Top(1..(k + 1)) = k + 1 /\ (1..(k + 1)) \ {Top(1..(k + 1))} = 1..((k + 1) - 1)
        BY <3>1, TopOfInterval
    <3>3. k + 1 \in 1..n /\ k + 1 \in 1..(k + 1)
        BY <1>0
    <3>4. 1..(k + 1) \in SUBSET (1..n)
        BY <1>0
    <3>5. 1..(k + 1) # {}
        BY <3>3
    <3> QED BY <3>1, <3>2, <3>4, <3>5
  <2>2. F[1..(k + 1)] = Saturate(F[1..k], amounts[k + 1])
      BY <1>7, <2>1
  <2>3. p[k + 1] = F[1..(k + 1)] /\ p[k] = F[1..k]
      BY <1>0
  <2> HIDE DEF p
  <2> QED BY <2>2, <2>3
<1>10. p[n] = F[1..n]
    BY <1>0
<1>11. p \in [0..n -> Ints]
  <2> DEFINE G == {k \in 0..n : p[k] \in Ints}
  <2>1. 0 \in G
    <3>1. 0 \in 0..n
        BY <1>0
    <3> HIDE DEF p
    <3> QED BY <1>8, <3>1, SaturateTyped
  <2>2. ASSUME NEW k \in 0..(n - 1), k \in G
        PROVE  k + 1 \in G
    <3>1. p[k] \in Ints /\ amounts[k + 1] \in Nat /\ k + 1 \in 0..n
        BY <1>0, <2>2
    <3> HIDE DEF p
    <3> QED BY <1>9, <3>1, SaturateTyped
  <2>3. 0..n \subseteq G
    <3> HIDE DEF G
    <3> QED BY <1>0, <2>1, <2>2, Climb
  <2>4. \A k \in 0..n : F[1..k] \in Ints
      BY <2>3
  <2> QED BY <2>4
<1> HIDE DEF p
<1> QED BY <1>1, <1>8, <1>9, <1>10, <1>11

LEMMA SaturatingIs ==
    ASSUME NEW amounts \in Seq(Nat)
    PROVE  SaturatingSum(amounts) = Saturated(SumOf(amounts, 1..Len(amounts)))
<1> DEFINE n == Len(amounts)
           total(k) == SumOf(amounts, 1..k)
<1>0. n \in Nat /\ \A i \in 1..n : amounts[i] \in Nat
    OBVIOUS
<1>1. PICK p \in [0..n -> Ints] :
         /\ p[0] = 0
         /\ \A k \in 0..(n - 1) : p[k + 1] = Saturate(p[k], amounts[k + 1])
         /\ SaturatingSum(amounts) = p[n]
    BY <1>0, SaturatingSteps
<1>2. \A k \in 0..n : total(k) \in Nat
    BY TotalTyped
<1>3. total(0) = 0
    BY TotalTyped
<1>4. \A k \in 0..(n - 1) :
         total(k + 1) = amounts[k + 1] + total(k) /\ amounts[k + 1] \in Nat
    BY TotalTyped
<1> DEFINE G == {k \in 0..n : p[k] = Saturated(total(k))}
<1> HIDE DEF total
<1>5. 0 \in G
  <2>1. 0 = Saturated(0) /\ 0 \in 0..n
      BY <1>0, SaturateTyped DEF Saturated
  <2> QED BY <1>1, <1>3, <2>1
<1>6. ASSUME NEW k \in 0..(n - 1), k \in G
      PROVE  k + 1 \in G
  <2>1. k + 1 \in 0..n /\ k \in 0..n
      BY <1>0
  <2>2. p[k] = Saturated(total(k)) /\ total(k) \in Nat /\ amounts[k + 1] \in Nat
      BY <1>2, <1>4, <1>6, <2>1
  <2>3. p[k + 1] = Saturated(total(k + 1))
      BY <1>1, <1>4, <2>2, SaturateTyped
  <2> QED BY <2>1, <2>3
<1>7. 0..n \subseteq G
  <2> HIDE DEF G
  <2> QED BY <1>0, <1>5, <1>6, Climb
<1>8. n \in 0..n
    BY <1>0
<1> QED BY <1>1, <1>7, <1>8 DEF total
-----------------------------------------------------------------------------
\* What the parts of a plan cost.

FieldCost == [f \in ToNames(Fields) |-> Def(Fields, f).cost]
EdgeCost  == [e \in DOMAIN Relations |-> Relations[e].cost]
LeafCost  == [at \in Leaves(walk.kept) |-> Filters[tree[at].pred.name].cost]

EdgesIn(path)  == {SubSeq(path, 1, n) : n \in 1..Len(path)}
EdgesOf(paths) == UNION {EdgesIn(paths[i]) : i \in DOMAIN paths}

LEMMA CostsAre ==
    /\ \A f \in ToNames(Fields) : FieldCost[f] \in Nat /\ FieldCost[f] = Def(Fields, f).cost
    /\ \A e \in DOMAIN Relations : EdgeCost[e] \in Nat /\ EdgeCost[e] = Relations[e].cost
    /\ \A n \in DOMAIN Filters : Filters[n].cost \in Nat
    /\ \A s \in ToNames(SortDefs) : Def(SortDefs, s).cost \in Nat
<1>1. /\ \A i \in DOMAIN Fields : Fields[i].cost \in Nat
      /\ \A i \in DOMAIN SortDefs : SortDefs[i].cost \in Nat
      /\ \A e \in DOMAIN Relations : Relations[e].cost \in Nat
      /\ \A n \in DOMAIN Filters : Filters[n].cost \in Nat
  <2>1. MaxCost \in Nat
      BY CompileAssumption
  <2>2. \A c \in 0..MaxCost : c \in Nat
      BY <2>1
  <2> QED BY <2>2, CompileAssumption
<1>2. ASSUME NEW defs, \A i \in DOMAIN defs : defs[i].cost \in Nat, NEW n \in ToNames(defs)
      PROVE  Def(defs, n).cost \in Nat
  <2>1. Declared(defs, n)
      BY DEF ToNames, Declared, Named
  <2> QED BY <1>2, <2>1, DefIs
<1> QED BY <1>1, <1>2 DEF FieldCost, EdgeCost

\* A set as a list: every element once.
LEMMA ListedOnce ==
    ASSUME NEW S, IsFiniteSet(S)
    PROVE  /\ Cardinality(S) \in Nat
           /\ SetToSeq(S) \in [1..Cardinality(S) -> S]
           /\ \A i, j \in 1..Cardinality(S) : SetToSeq(S)[i] = SetToSeq(S)[j] => i = j
           /\ {SetToSeq(S)[i] : i \in 1..Cardinality(S)} = S
<1> DEFINE n == Cardinality(S)
           s == SetToSeq(S)
<1>1. n \in Nat /\ ExistsBijection(1..n, S)
    BY FS_CardinalityType
<1>2. s \in [1..n -> S] /\ IsInjective(s)
    BY <1>1 DEF SetToSeq, ExistsBijection, Bijection, Injection
<1>3. Cardinality(1..n) = n
    BY <1>1, FS_Interval
<1>4. s \in Injection(1..n, S)
    BY <1>2 DEF Injection
<1>5. s \in Surjection(1..n, S)
    BY <1>3, <1>4, FS_Injection
<1> HIDE DEF n, s
<1>6. {s[i] : i \in 1..n} = S
    BY <1>5 DEF Surjection
<1>7. \A i, j \in 1..n : s[i] = s[j] => i = j
    BY <1>2 DEF IsInjective
<1> QED BY <1>1, <1>2, <1>6, <1>7 DEF n, s

\* The filter's charge is the sum of its predicates'.
LEMMA LeavesSum ==
    ASSUME IsFiniteSet(Leaves(walk.kept)),
           \A at \in Leaves(walk.kept) : tree[at].pred.name \in DOMAIN Filters
    PROVE  /\ LeafCosts \in Seq(Nat)
           /\ SumOf(LeafCost, Leaves(walk.kept)) \in Nat
           /\ SumOf(LeafCosts, 1..Len(LeafCosts)) = SumOf(LeafCost, Leaves(walk.kept))
<1> DEFINE L == Leaves(walk.kept)
           n == Cardinality(L)
           x == SetToSeq(L)
           a == LeafCosts
<1>1. \A at \in L : LeafCost[at] \in Nat /\ LeafCost[at] = Filters[tree[at].pred.name].cost
    BY CostsAre DEF LeafCost
<1>2. /\ n \in Nat /\ x \in [1..n -> L] /\ {x[i] : i \in 1..n} = L
      /\ \A i, j \in 1..n : x[i] = x[j] => i = j
    BY ListedOnce
<1>3. a = [i \in 1..n |-> Filters[tree[x[i]].pred.name].cost]
    BY <1>2 DEF LeafCosts
<1> HIDE DEF a, n, x, L
<1>4. \A i \in 1..n : LeafCost[x[i]] \in Nat /\ a[i] = LeafCost[x[i]]
    BY <1>1, <1>2, <1>3
<1>5. a \in Seq(Nat) /\ Len(a) = n
    BY <1>2, <1>3, <1>4
<1> DEFINE B == {}
<1>6. /\ IsFiniteSet(B) /\ \A y \in B : LeafCost[y] \in Nat
      /\ \A i \in 1..n : x[i] \notin B
      /\ \A y : y \in L <=> y \in B \/ \E i \in 1..n : y = x[i]
    BY <1>2, FS_EmptySet
<1>7. SumOf(LeafCost, B) = 0
    BY SumEmpty
<1> HIDE DEF B
<1>8. /\ SumOf(LeafCost, L) = SumOf(LeafCost, B) + SumOf(a, 1..n)
      /\ SumOf(a, 1..n) \in Nat
  <2>1. Joins(L, B, LeafCost, x, a, n)
      BY <1>2, <1>4, <1>6 DEF Joins
  <2> QED BY <2>1, SumJoins
<1> DEFINE total == SumOf(a, 1..n)
           all   == SumOf(LeafCost, L)
<1>9. all = 0 + total /\ total \in Nat
    BY <1>6, <1>7, <1>8
<1> HIDE DEF total, all
<1>10. all = total /\ all \in Nat
    BY <1>9
<1> QED BY <1>5, <1>10 DEF a, L, total, all
\* The fields the server needs besides those asked for, and what they cost.
LEMMA MissingAre ==
    ASSUME NEW S, plan.responseFields \in Seq(S)
    PROVE  /\ RequiredMissing \in Seq(ToNames(Fields))
           /\ \A i, j \in DOMAIN RequiredMissing :
                 RequiredMissing[i] = RequiredMissing[j] => i = j
           /\ \A i \in DOMAIN RequiredMissing :
                 RequiredMissing[i] \notin Range(plan.responseFields)
<1> DEFINE test(f) == f.required /\ ~Contains(plan.responseFields, f.name)
           T == {Fields[i] : i \in {k \in DOMAIN Fields : test(Fields[k])}}
           missing == Picked(Fields, T)
           names == [i \in DOMAIN missing |-> missing[i].name]
           F == Range(Fields)
<1>1. RequiredMissing = names
    BY DEF RequiredMissing, Only
<1>2. /\ Fields \in Seq(F)
      /\ \A i, j \in DOMAIN Fields : Fields[i].name = Fields[j].name => i = j
    BY SchemaAssumption DEF IsList
<1>3. PickedUpto(missing, Fields, T, F, Len(Fields))
  <2> HIDE DEF T, F
  <2> QED BY <1>2, PickedIs
<1>4. \A f \in T : f.name \notin Range(plan.responseFields)
  <2>1. ASSUME NEW f, Contains(plan.responseFields, f.name) = FALSE
        PROVE  f.name \notin Range(plan.responseFields)
      BY <2>1 DEF Contains, Range
  <2> QED BY <2>1 DEF Contains, Range
<1> HIDE DEF T, missing
<1>5. /\ missing \in Seq(F) /\ DOMAIN missing = 1..Len(missing) /\ Len(missing) \in Nat
      /\ \A i \in DOMAIN missing : missing[i] \in T /\ missing[i] \in F
    BY <1>3 DEF PickedUpto
<1>6. \A i, j \in DOMAIN missing : missing[i] = missing[j] => i = j
    BY <1>2, <1>3 DEF PickedUpto
<1>7. \A f, h \in F : f.name = h.name => f = h
    BY <1>2 DEF Range
<1>8. \A f \in F : f.name \in ToNames(Fields)
    BY DEF Range, ToNames
<1> HIDE DEF F
<1>9. names \in Seq(ToNames(Fields))
    BY <1>5, <1>8
<1>10. \A i, j \in DOMAIN names : names[i] = names[j] => i = j
    BY <1>5, <1>6, <1>7
<1>11. \A i \in DOMAIN names : names[i] \notin Range(plan.responseFields)
    BY <1>4, <1>5
<1> HIDE DEF names
<1> QED BY <1>1, <1>9, <1>10, <1>11
LEMMA RangeFinite ==
    ASSUME NEW A, NEW s \in Seq(A)
    PROVE  IsFiniteSet(Range(s))
<1>1. Len(s) \in Nat /\ DOMAIN s = 1..Len(s)
    OBVIOUS
<1>2. IsFiniteSet(DOMAIN s)
    BY <1>1, FS_Interval
<1>3. s \in [DOMAIN s -> Range(s)]
  <2>1. s = [i \in DOMAIN s |-> s[i]]
      OBVIOUS
  <2> QED BY <2>1 DEF Range
<1>4. s \in Surjection(DOMAIN s, Range(s))
    BY <1>3 DEF Surjection, Range
<1> QED BY <1>2, <1>4, FS_Surjection

LEMMA RangeJoined ==
    ASSUME NEW A, NEW s \in Seq(A), NEW t \in Seq(A)
    PROVE  \A y : y \in Range(s \o t) <=> y \in Range(t) \/ \E i \in 1..Len(s) : y = s[i]
<1> DEFINE m == Len(s)
           n == Len(t)
           u == s \o t
<1>1. /\ m \in Nat /\ n \in Nat /\ DOMAIN s = 1..m /\ DOMAIN t = 1..n /\ DOMAIN u = 1..(m + n)
      /\ \A i \in 1..m : u[i] = s[i]
      /\ \A i \in 1..n : u[m + i] = t[i]
    OBVIOUS
<1> HIDE DEF m, n, u
<1>2. ASSUME NEW y \in Range(u)
      PROVE  y \in Range(t) \/ \E i \in 1..m : y = s[i]
  <2>1. PICK i \in 1..(m + n) : y = u[i]
      BY <1>1 DEF Range
  <2>2. CASE i \in 1..m
      BY <1>1, <2>1, <2>2
  <2>3. CASE i \notin 1..m
    <3>1. i - m \in 1..n /\ m + (i - m) = i
        BY <1>1, <2>3
    <3>2. y = t[i - m]
        BY <1>1, <2>1, <3>1
    <3> QED BY <1>1, <3>1, <3>2 DEF Range
  <2> QED BY <2>2, <2>3
<1>3. ASSUME NEW y \in Range(t)
      PROVE  y \in Range(u)
  <2>1. PICK i \in 1..n : y = t[i]
      BY <1>1 DEF Range
  <2>2. m + i \in 1..(m + n) /\ u[m + i] = y
      BY <1>1, <2>1
  <2> QED BY <1>1, <2>2 DEF Range
<1>4. ASSUME NEW i \in 1..m
      PROVE  s[i] \in Range(u)
  <2>1. i \in 1..(m + n) /\ u[i] = s[i]
      BY <1>1
  <2> QED BY <1>1, <2>1 DEF Range
<1>5. \A y : y \in Range(u) <=> y \in Range(t) \/ \E i \in 1..m : y = s[i]
    BY <1>2, <1>3, <1>4
<1> QED BY <1>5 DEF m, u

LEMMA MissingCharged ==
    ASSUME NEW b, NEW price \in Nat,
           plan.responseFields \in Seq(ToNames(Fields)),
           Tracks(b, price + SumOf(FieldCost, Range(plan.responseFields)))
    PROVE  LET executed == RequiredMissing \o plan.responseFields IN
           /\ Range(executed) \subseteq ToNames(Fields) /\ IsFiniteSet(Range(executed))
           /\ Tracks(ChargeAll(b, Costs(Fields, RequiredMissing)),
                     price + SumOf(FieldCost, Range(executed)))
<1> DEFINE N == ToNames(Fields)
           x == RequiredMissing
           a == Costs(Fields, RequiredMissing)
           n == Len(RequiredMissing)
           B == Range(plan.responseFields)
           u == RequiredMissing \o plan.responseFields
           U == Range(u)
<1>1. /\ x \in Seq(N) /\ n \in Nat /\ DOMAIN x = 1..n
      /\ \A i, j \in 1..n : x[i] = x[j] => i = j
      /\ \A i \in 1..n : x[i] \notin B /\ x[i] \in N
    BY MissingAre
<1>2. B \subseteq N /\ IsFiniteSet(B)
    BY RangeFinite DEF Range
<1>3. \A y : y \in U <=> y \in B \/ \E i \in 1..n : y = x[i]
    BY <1>1, RangeJoined
<1>4. a = [i \in 1..n |-> Def(Fields, x[i]).cost]
    BY <1>1 DEF Costs
<1>5. u \in Seq(N)
    BY <1>1
<1>6. IsFiniteSet(U)
    BY <1>5, RangeFinite
<1> HIDE DEF N, x, a, n, B, u, U
<1>7. U \subseteq N
    BY <1>1, <1>2, <1>3
<1>8. \A y \in N : FieldCost[y] \in Nat /\ FieldCost[y] = Def(Fields, y).cost
    BY CostsAre DEF N
<1>9. \A i \in 1..n : FieldCost[x[i]] \in Nat /\ a[i] = FieldCost[x[i]]
    BY <1>1, <1>4, <1>8
<1>10. a \in Seq(Nat) /\ Len(a) = n
    BY <1>1, <1>4, <1>9
<1>11. Joins(U, B, FieldCost, x, a, n)
    BY <1>1, <1>2, <1>3, <1>8, <1>9 DEF Joins
<1> DEFINE paid == SumOf(FieldCost, B)
           more == SumOf(a, 1..n)
           all  == SumOf(FieldCost, U)
<1>12. all = paid + more /\ paid \in Nat /\ more \in Nat
    BY <1>11, SumJoins
<1>13. Tracks(b, price + paid)
    BY DEF B
<1>14. Tracks(ChargeAll(b, a), (price + paid) + more)
  <2> DEFINE p == price + paid
  <2>1. Tracks(b, p)
      BY <1>13
  <2> HIDE DEF p
  <2>2. Tracks(ChargeAll(b, a), p + SumOf(a, 1..Len(a)))
      BY <1>10, <2>1, ChargeAllTracks
  <2> QED BY <1>10, <2>2 DEF p
<1> HIDE DEF paid, more, all
<1>15. (price + paid) + more = price + all
    BY <1>12
<1> QED BY <1>6, <1>7, <1>14, <1>15 DEF N, a, u, U, all
-----------------------------------------------------------------------------
\* While nothing is at fault the bill is up to date.

Charged   == Range(IF job.phase \in {"start", "fields"} THEN plan.responseFields
                                                        ELSE plan.executionFields)
Travelled == IF In("includes") THEN job.paid ELSE EdgesOf(plan.includes)
Due       == SumOf(FieldCost, Charged) + SumOf(EdgeCost, Travelled)

FieldsDone ==
    /\ Charged \subseteq ToNames(Fields) /\ IsFiniteSet(Charged)
    /\ In("fields") => Charged \subseteq job.seen
PathsDone ==
    /\ Travelled \subseteq DOMAIN Relations /\ IsFiniteSet(Travelled)
    /\ In("includes") =>
          /\ EdgesOf(plan.includes) \subseteq job.paid
          /\ job.edges = <<>> => job.paid \subseteq EdgesOf(plan.includes)
          /\ job.edges # <<>> =>
                /\ job.paid \subseteq EdgesOf(plan.includes) \cup EdgesIn(Element)
                /\ Range(job.edges) \subseteq EdgesIn(Element)
UpToDate == FieldsDone /\ PathsDone /\ Tracks(bill, 1 + Due)
Billed   == violations = <<>> /\ job.phase # "done" => UpToDate

LEMMA NoPaths == EdgesOf(<<>>) = {}
BY DEF EdgesOf

LEMMA OnePathMore ==
    ASSUME NEW A, NEW s \in Seq(A), NEW e
    PROVE  EdgesOf(Append(s, e)) = EdgesOf(s) \cup EdgesIn(e)
<1> DEFINE t == Append(s, e)
           m == Len(s) + 1
<1>1. /\ DOMAIN t = 1..m /\ DOMAIN s = 1..Len(s) /\ t[m] = e /\ m \in DOMAIN t
      /\ \A i \in DOMAIN s : t[i] = s[i] /\ i \in DOMAIN t
      /\ \A i \in DOMAIN t : i \in DOMAIN s \/ i = m
  <2>1. Len(s) \in Nat /\ m \in 1..m
      OBVIOUS
  <2>2. \A i \in 1..Len(s) : i \in 1..m
      BY <2>1
  <2> QED BY <2>1, <2>2, AppendIs
<1> HIDE DEF t, m
<1>2. EdgesOf(t) = EdgesOf(s) \cup EdgesIn(e)
    BY <1>1 DEF EdgesOf
<1> QED BY <1>2 DEF t

LEMMA PathsTyped ==
    ASSUME NEW path \in DOMAIN Relations
    PROVE  EdgesIn(path) \subseteq DOMAIN Relations
<1>1. DOMAIN path = 1..Len(path) /\ \A n \in DOMAIN path : SubSeq(path, 1, n) \in DOMAIN Relations
  <2>1. path \in Seq(Range(path))
      BY PathIs
  <2> QED BY <2>1, PathIs
<1> QED BY <1>1 DEF EdgesIn

LEMMA SumsDue ==
    ASSUME FieldsDone, PathsDone
    PROVE  SumOf(FieldCost, Charged) \in Nat /\ SumOf(EdgeCost, Travelled) \in Nat
<1>1. \A f \in Charged : FieldCost[f] \in Nat
    BY CostsAre DEF FieldsDone
<1>2. \A e \in Travelled : EdgeCost[e] \in Nat
    BY CostsAre DEF PathsDone
<1> QED BY <1>1, <1>2, SumTyped DEF FieldsDone, PathsDone

LEMMA OneChargeMore ==
    ASSUME NEW b, NEW f \in Nat, NEW e \in Nat, NEW c \in Nat, Tracks(b, 1 + (f + e))
    PROVE  /\ Tracks(Charge(b, c), 1 + ((c + f) + e))
           /\ Tracks(Charge(b, c), 1 + (f + (c + e)))
<1>1. b \in Bills /\ 1 + (f + e) \in Nat
    BY DEF Tracks
<1> DEFINE p == 1 + (f + e)
<1>2. Tracks(b, p) /\ p \in Nat
    BY <1>1
<1> HIDE DEF p
<1>3. Tracks(Charge(b, c), p + c)
    BY <1>1, <1>2, ChargeTyped
<1>4. p + c = 1 + ((c + f) + e) /\ p + c = 1 + (f + (c + e))
    BY DEF p
<1> QED BY <1>3, <1>4

LEMMA FieldBilled ==
    ASSUME Base, Empty, UpToDate, FieldTaken
    PROVE  UpToDate'
<1> DEFINE C == Charged
           x == Element
<1>1. /\ plan'.responseFields = Append(plan.responseFields, x) /\ plan'.includes = plan.includes
      /\ job.phase = "fields" /\ job'.phase = "fields" /\ job'.seen = job.seen \cup {x}
    BY FieldTakenLeaves
<1>2. x \notin job.seen /\ x \in ToNames(Fields) /\ bill' = Charge(bill, Def(Fields, x).cost)
    BY DeclaredIs DEF FieldTaken
<1>3. C = Range(plan.responseFields) /\ Charged' = Range(plan'.responseFields)
    BY <1>1 DEF Charged
<1>4. plan.responseFields \in Seq(Range(RequestedFields) \cap ToNames(Fields))
    BY DEF Base, PlanTyped
<1>5. Charged' = C \cup {x}
    BY <1>1, <1>3, <1>4, RangeAppend
<1>6. C \subseteq ToNames(Fields) /\ IsFiniteSet(C) /\ C \subseteq job.seen /\ x \notin C
    BY <1>1, <1>2 DEF UpToDate, FieldsDone, In
<1>7. Travelled' = Travelled
    BY <1>1 DEF Travelled, In
<1>8. FieldsDone'
    BY <1>1, <1>2, <1>5, <1>6, FS_AddElement DEF FieldsDone
<1>9. PathsDone'
    BY <1>1, <1>7 DEF UpToDate, PathsDone, In
<1> HIDE DEF C, x
<1>10. SumOf(FieldCost, C \cup {x}) = FieldCost[x] + SumOf(FieldCost, C)
  <2>1. \A f \in C \cup {x} : FieldCost[f] \in Nat
      BY <1>2, <1>6, CostsAre
  <2> QED BY <1>6, <2>1, SumAdd
<1>11. FieldCost[x] \in Nat /\ bill' = Charge(bill, FieldCost[x])
    BY <1>2, CostsAre
<1> DEFINE f == SumOf(FieldCost, C)
           e == SumOf(EdgeCost, Travelled)
<1>12. f \in Nat /\ e \in Nat /\ Tracks(bill, 1 + (f + e))
    BY SumsDue DEF UpToDate, Due, C
<1> HIDE DEF f, e
<1>13. Tracks(bill', 1 + ((FieldCost[x] + f) + e))
    BY <1>11, <1>12, OneChargeMore
<1>14. Due' = (FieldCost[x] + f) + e
    BY <1>5, <1>7, <1>10 DEF Due, f, e
<1> QED BY <1>8, <1>9, <1>13, <1>14 DEF UpToDate
LEMMA TakeIncludeBilled ==
    ASSUME Base, UpToDate, TakeInclude
    PROVE  UpToDate'
<1> DEFINE x == Element
           E == EdgesOf(plan.includes)
<1>1. /\ bill' = bill /\ job.phase = "includes" /\ job'.phase = "includes"
      /\ job'.paid = job.paid /\ job.edges = <<>> /\ job'.edges = Unpaid(x)
      /\ x \in DOMAIN Relations /\ (IncludeDone \/ IncludeOpen)
    BY TakeIncludeLeaves
<1>2. plan'.executionFields = plan.executionFields
    BY <1>1 DEF IncludeDone, IncludeOpen
<1>3. Charged' = Charged /\ Travelled = job.paid /\ Travelled' = Travelled
    BY <1>1, <1>2 DEF Charged, Travelled, In
<1>4. FieldsDone'
    BY <1>1, <1>3 DEF UpToDate, FieldsDone, In
<1>5. E \subseteq job.paid /\ job.paid \subseteq E
    BY <1>1 DEF UpToDate, PathsDone, In
<1>6. /\ \A n \in DOMAIN x : SubSeq(x, 1, n) \in job.paid \cup Range(Unpaid(x))
      /\ \A i \in DOMAIN Unpaid(x) : \E n \in DOMAIN x : Unpaid(x)[i] = SubSeq(x, 1, n)
      /\ DOMAIN x = 1..Len(x)
  <2>1. x \in Seq(Range(x))
      BY <1>1, PathIs
  <2> HIDE DEF x
  <2> QED BY <1>1, <2>1, UnpaidAre
<1>7. Range(Unpaid(x)) \subseteq EdgesIn(x) /\ EdgesIn(x) \subseteq job.paid \cup Range(Unpaid(x))
  <2> HIDE DEF x
  <2> QED BY <1>6 DEF EdgesIn, Range
<1>8. CASE IncludeDone
  <2>1. Unpaid(x) = <<>> /\ plan'.includes = Append(plan.includes, x)
      BY <1>1, <1>8 DEF IncludeDone
  <2>2. Range(Unpaid(x)) = {}
      BY <2>1 DEF Range
  <2>3. EdgesOf(plan'.includes) = E \cup EdgesIn(x)
      BY <2>1, OnePathMore DEF Base, PlanTyped
  <2> QED BY <1>1, <1>3, <1>4, <1>5, <1>7, <2>1, <2>2, <2>3 DEF UpToDate, PathsDone, In, Due
<1>9. CASE IncludeOpen
  <2>1. plan' = plan /\ job'.edges # <<>> /\ Element' = x
      BY <1>9 DEF IncludeOpen, Element
  <2> QED BY <1>1, <1>3, <1>4, <1>5, <1>7, <2>1 DEF UpToDate, PathsDone, In, Due
<1> QED BY <1>1, <1>8, <1>9

LEMMA EdgeBilled ==
    ASSUME Base, UpToDate, EdgeTaken
    PROVE  UpToDate'
<1> DEFINE x == Element
           E == EdgesOf(plan.includes)
           edge == Head(job.edges)
           P == job.paid
<1>1. /\ job.phase = "includes" /\ job'.phase = "includes"
      /\ job.edges \in Seq(DOMAIN Relations) /\ job.edges # <<>>
      /\ P' = P \cup {edge} /\ job'.edges = Tail(job.edges)
      /\ edge \in DOMAIN Relations /\ edge \notin P
      /\ bill' = Charge(bill, Relations[edge].cost)
      /\ IncludeDone \/ IncludeOpen
    BY EdgeTakenLeaves
<1>2. plan'.executionFields = plan.executionFields
    BY <1>1 DEF IncludeDone, IncludeOpen
<1>3. Charged' = Charged /\ Travelled = P /\ Travelled' = P \cup {edge}
    BY <1>1, <1>2 DEF Charged, Travelled, In
<1>4. FieldsDone'
    BY <1>1, <1>3 DEF UpToDate, FieldsDone, In
<1>5. /\ E \subseteq P /\ P \subseteq E \cup EdgesIn(x) /\ Range(job.edges) \subseteq EdgesIn(x)
      /\ P \subseteq DOMAIN Relations /\ IsFiniteSet(P)
    BY <1>1, <1>3 DEF UpToDate, PathsDone, In
<1>6. edge \in EdgesIn(x) /\ Range(Tail(job.edges)) \subseteq EdgesIn(x)
  <2>1. edge \in Range(job.edges) /\ Range(Tail(job.edges)) \subseteq Range(job.edges)
      BY <1>1, TailIs DEF Range
  <2> QED BY <1>5, <2>1
<1>7. Travelled' \subseteq DOMAIN Relations /\ IsFiniteSet(Travelled')
    BY <1>1, <1>3, <1>5, FS_AddElement
<1>8. PathsDone'
  <2>1. CASE IncludeDone
    <3>1. Tail(job.edges) = <<>> /\ plan'.includes = Append(plan.includes, x)
        BY <1>1, <2>1 DEF IncludeDone
    <3>2. EdgesOf(plan'.includes) = E \cup EdgesIn(x)
        BY <3>1, OnePathMore DEF Base, PlanTyped
    <3>3. EdgesIn(x) \subseteq P \cup {edge}
      <4>1. Range(job.edges) = {edge}
          BY <1>1, <3>1, LastOne
      <4>2. x \in DOMAIN Relations /\ \A n \in DOMAIN x : SubSeq(x, 1, n) \in P \cup Range(job.edges)
          BY <1>1 DEF Base, EdgesLeft
      <4>3. DOMAIN x = 1..Len(x)
        <5>1. x \in Seq(Range(x))
            BY <4>2, PathIs
        <5> QED BY <5>1
      <4> HIDE DEF x, edge
      <4> QED BY <4>1, <4>2, <4>3 DEF EdgesIn
    <3> HIDE DEF x, edge
    <3> QED BY <1>1, <1>5, <1>6, <1>7, <3>1, <3>2, <3>3 DEF PathsDone, In
  <2>2. CASE IncludeOpen
    <3>1. plan' = plan /\ job'.edges # <<>> /\ Element' = x
        BY <2>2 DEF IncludeOpen, Element
    <3> HIDE DEF edge
    <3> QED BY <1>1, <1>5, <1>6, <1>7, <3>1 DEF PathsDone, In
  <2> QED BY <1>1, <2>1, <2>2
<1> DEFINE f == SumOf(FieldCost, Charged)
           e == SumOf(EdgeCost, Travelled)
           c == EdgeCost[edge]
<1>9. f \in Nat /\ e \in Nat /\ c \in Nat /\ Tracks(bill, 1 + (f + e)) /\ bill' = Charge(bill, c)
  <2>1. f \in Nat /\ e \in Nat /\ Tracks(bill, 1 + (f + e))
      BY SumsDue DEF UpToDate, Due
  <2>2. c \in Nat /\ c = Relations[edge].cost
      BY <1>1, CostsAre
  <2> QED BY <1>1, <2>1, <2>2
<1>10. SumOf(EdgeCost, P \cup {edge}) = c + e
  <2>1. \A y \in P \cup {edge} : EdgeCost[y] \in Nat
      BY <1>1, <1>5, CostsAre
  <2> HIDE DEF edge, P
  <2> QED BY <1>1, <1>3, <1>5, <2>1, SumAdd
<1> HIDE DEF f, e, c
<1>11. Tracks(bill', 1 + (f + (c + e)))
    BY <1>9, OneChargeMore
<1>12. Due' = f + (c + e)
    BY <1>3, <1>10 DEF Due, f
<1> QED BY <1>4, <1>8, <1>11, <1>12 DEF UpToDate
LEMMA EndFieldsBilled ==
    ASSUME Base, Empty, UpToDate, EndFields
    PROVE  UpToDate'
<1> DEFINE executed == RequiredMissing \o plan.responseFields
<1>1. /\ job.phase = "fields" /\ job' = Job("includes", Upto(RequestedIncludes, MaxIncludes))
      /\ plan' = [plan EXCEPT !.executionFields = executed]
      /\ bill' = ChargeAll(bill, Costs(Fields, RequiredMissing))
    BY DEF EndFields, In
<1>2. IsPlan(plan) /\ plan.responseFields \in Seq(Range(RequestedFields) \cap ToNames(Fields))
    BY DEF Base, PlanTyped
<1>3. /\ plan'.executionFields = executed /\ plan'.includes = <<>> /\ plan.includes = <<>>
      /\ job'.phase = "includes" /\ job'.paid = {} /\ job'.edges = <<>>
  <2>1. plan.includes = <<>>
      BY <1>1 DEF Empty
  <2> HIDE DEF executed
  <2>2. plan'.executionFields = executed /\ plan'.includes = plan.includes
      BY <1>1, <1>2 DEF IsPlan
  <2> QED BY <1>1, <2>1, <2>2 DEF Job
<1>4. /\ Charged = Range(plan.responseFields) /\ Charged' = Range(executed)
      /\ Travelled = {} /\ Travelled' = {} /\ EdgesOf(plan'.includes) = {}
    BY <1>1, <1>3, NoPaths DEF Charged, Travelled, In
<1>5. plan.responseFields \in Seq(ToNames(Fields))
    BY <1>2
<1> DEFINE C == Charged
           D == Range(executed)
<1>6. Due = SumOf(FieldCost, C) + 0 /\ Due' = SumOf(FieldCost, D) + 0
    BY <1>4, SumEmpty DEF Due
<1>7. SumOf(FieldCost, C) \in Nat /\ Tracks(bill, 1 + SumOf(FieldCost, C))
  <2>1. SumOf(FieldCost, C) \in Nat /\ Tracks(bill, 1 + Due)
      BY SumsDue DEF UpToDate
  <2> DEFINE f == SumOf(FieldCost, C)
  <2>2. Due = f + 0 /\ f \in Nat
      BY <1>6, <2>1
  <2> HIDE DEF f
  <2>3. Due = f
      BY <2>2
  <2> QED BY <2>1, <2>3 DEF f
<1>8. /\ D \subseteq ToNames(Fields) /\ IsFiniteSet(D)
      /\ Tracks(bill', 1 + SumOf(FieldCost, D))
    BY <1>1, <1>4, <1>5, <1>7, MissingCharged
<1> HIDE DEF C, D
<1>9. SumOf(FieldCost, D) \in Nat
  <2>1. \A y \in D : FieldCost[y] \in Nat
      BY <1>8, CostsAre
  <2> QED BY <1>8, <2>1, SumTyped
<1>10. Tracks(bill', 1 + Due')
  <2> DEFINE f == SumOf(FieldCost, D)
  <2>1. f + 0 = f
    <3>1. f \in Nat
        BY <1>9
    <3> HIDE DEF f
    <3> QED BY <3>1
  <2> QED BY <1>6, <1>8, <2>1
<1>11. FieldsDone'
    BY <1>3, <1>4, <1>8 DEF FieldsDone, In, D
<1>12. PathsDone'
    BY <1>3, <1>4, FS_EmptySet DEF PathsDone, In
<1> QED BY <1>10, <1>11, <1>12 DEF UpToDate

LEMMA NothingBilled ==
    ASSUME UpToDate, bill' = bill, Charged' = Charged, Travelled' = Travelled,
           job'.phase \notin {"fields", "includes"}
    PROVE  UpToDate'
<1>1. FieldsDone'
    BY DEF UpToDate, FieldsDone, In
<1>2. PathsDone'
    BY DEF UpToDate, PathsDone, In
<1> QED BY <1>1, <1>2 DEF UpToDate, Due

LEMMA LaterBilled ==
    ASSUME UpToDate, bill' = bill, plan'.executionFields = plan.executionFields,
           plan'.includes = plan.includes,
           job.phase \notin {"start", "fields", "includes"},
           job'.phase \notin {"start", "fields", "includes"}
    PROVE  UpToDate'
<1>1. Charged' = Charged /\ Travelled' = Travelled
    BY DEF Charged, Travelled, In
<1> QED BY <1>1, NothingBilled

LEMMA EndsBilled ==
    ASSUME Base, Empty, UpToDate, Ends, job'.phase # "done"
    PROVE  UpToDate'
<1>1. /\ plan'.responseFields = plan.responseFields /\ plan'.includes = plan.includes
      /\ job'.paid = {}
    BY EndsLeave
<1>2. CASE /\ Start /\ job.phase = "start" /\ job'.phase = "fields" /\ bill' = bill
           /\ plan'.executionFields = plan.executionFields
  <2>1. plan.responseFields = <<>> /\ Range(<<>>) = {}
      BY <1>2 DEF Empty, Range
  <2>2. Charged = {} /\ Charged' = {} /\ Travelled' = Travelled
      BY <1>1, <1>2, <2>1 DEF Charged, Travelled, In
  <2>3. FieldsDone'
      BY <2>2, FS_EmptySet DEF FieldsDone
  <2>4. PathsDone'
      BY <1>2, <2>2 DEF UpToDate, PathsDone, In
  <2> QED BY <1>2, <2>2, <2>3, <2>4 DEF UpToDate, Due
<1>3. CASE EndFields
    BY <1>3, EndFieldsBilled
<1>4. CASE Moves("includes", "filter") /\ job.todo = <<>> /\ plan' = plan /\ bill' = bill
  <2>1. job.phase = "includes" /\ job'.phase = "filter"
      BY <1>4 DEF Moves
  <2>2. job.edges = <<>>
      BY <1>4, <2>1 DEF Base, JobTyped, In
  <2>3. job.paid = EdgesOf(plan.includes)
      BY <2>1, <2>2 DEF UpToDate, PathsDone, In
  <2>4. Charged' = Charged /\ Travelled' = Travelled
      BY <1>4, <2>1, <2>3 DEF Charged, Travelled, In
  <2> QED BY <1>4, <2>1, <2>4, NothingBilled
<1>5. CASE /\ bill' = bill /\ plan'.executionFields = plan.executionFields
           /\ \/ job.phase = "filter" /\ job'.phase = "sorts"
              \/ Moves("sorts", "page") \/ Moves("page", "cursor") \/ Moves("cursor", "cost")
    BY <1>1, <1>5, LaterBilled DEF Moves
<1> QED BY <1>2, <1>3, <1>4, <1>5, EndsBegin DEF Begins, Moves

LEMMA BilledKeeps ==
    ASSUME Base, Empty, Billed, Skipped \/ Taken \/ FilterNode \/ Ends \/ Tied
    PROVE  Billed'
<1> SUFFICES ASSUME violations' = <<>>, job'.phase # "done"
             PROVE  UpToDate'
    BY DEF Billed
<1>1. CASE Skipped
    BY <1>1, SkippedLeaves
<1>2. CASE FieldTaken
  <2>1. violations = <<>> /\ job.phase # "done"
      BY <1>2, FieldTakenLeaves
  <2> QED BY <1>2, <2>1, FieldBilled DEF Billed
<1>3. CASE TakeInclude
  <2>1. violations = <<>> /\ job.phase # "done"
      BY <1>3, TakeIncludeLeaves
  <2> QED BY <1>3, <2>1, TakeIncludeBilled DEF Billed
<1>4. CASE EdgeTaken
  <2>1. violations = <<>> /\ job.phase # "done"
      BY <1>4, EdgeTakenLeaves
  <2> QED BY <1>4, <2>1, EdgeBilled DEF Billed
<1>5. CASE SortTaken
  <2>1. /\ violations = <<>> /\ job.phase = "sorts" /\ job'.phase = "sorts"
        /\ bill' = bill /\ plan'.executionFields = plan.executionFields
        /\ plan'.includes = plan.includes
      BY <1>5, SortTakenLeaves
  <2> QED BY <2>1, LaterBilled DEF Billed
<1>6. CASE FilterNode
  <2>1. job.phase = "filter" /\ job' = job /\ plan' = plan /\ bill' = bill
      BY <1>6 DEF FilterNode, In
  <2>2. violations = <<>>
      BY <1>6, VisitMoves DEF FilterNode, Reported
  <2> QED BY <2>1, <2>2, LaterBilled DEF Billed
<1>7. CASE Ends
  <2>1. violations = <<>> /\ job.phase # "done"
      BY <1>7, EndsLeave, EndsBegin DEF Moves
  <2> QED BY <1>7, <2>1, EndsBilled DEF Billed
<1>8. ASSUME NEW ok \in BOOLEAN, Tie(ok)
      PROVE  UpToDate'
  <2>1. /\ Reported(~ok) /\ job.phase = "page" /\ job'.phase = "cursor" /\ bill' = bill
        /\ plan'.executionFields = plan.executionFields /\ plan'.includes = plan.includes
      BY <1>8, TiedLeaves
  <2> QED BY <2>1, LaterBilled DEF Billed, Reported
<1> QED BY <1>1, <1>2, <1>3, <1>4, <1>5, <1>6, <1>7, <1>8 DEF Taken, Tied
-----------------------------------------------------------------------------
\* The end: the filter and the sorts are charged, and the price is complete.

LEMMA SaturatedCharge ==
    ASSUME NEW b, NEW price \in Nat \ {0}, Tracks(b, price), NEW s \in Nat
    PROVE  Tracks(Charge(b, Saturated(s)), price + s)
<1>1. MaxCost \in Nat /\ MaxInt \in Nat /\ MaxCost <= MaxInt
    BY CompileAssumption
<1>2. b \in Bills
    BY DEF Tracks
<1>3. CASE s <= MaxInt
  <2>1. Saturated(s) = s
      BY <1>1, <1>3 DEF Saturated
  <2> QED BY <1>2, <2>1, ChargeTyped
<1>4. CASE s > MaxInt
  <2>1. Saturated(s) = MaxInt
      BY <1>4 DEF Saturated
  <2>2. Tracks(Charge(b, MaxInt), price + MaxInt)
      BY <1>1, <1>2, ChargeTyped
  <2>3. price + MaxInt > MaxCost /\ price + s > MaxCost /\ ~(price + s <= MaxCost)
        /\ price + s \in Nat
      BY <1>1, <1>4
  <2> QED BY <2>1, <2>2, <2>3 DEF Tracks
<1> QED BY <1>1, <1>3, <1>4

LEMMA FirstOnes ==
    ASSUME NEW A, NEW s \in Seq(A), NEW n \in 1..Len(s)
    PROVE  SubSeq(s, 1, n) # <<>> /\ SubSeq(s, 1, n)[1] = s[1]
<1> DEFINE t == SubSeq(s, 1, n)
<1>1. Len(t) = n /\ t[1] = s[1] /\ n # 0
    OBVIOUS
<1> HIDE DEF t
<1>2. t # <<>>
    BY <1>1
<1> QED BY <1>1, <1>2 DEF t

LEMMA LastCode ==
    ASSUME violations \in Seq(Early), NEW codes, codes = <<>> \/ codes = <<"cost_limit">>,
           Report(codes)
    PROVE  /\ violations' = <<>> => violations = <<>> /\ codes = <<>>
           /\ violations' = <<"cost_limit">> => violations = <<>> /\ codes # <<>>
<1> DEFINE all == violations \o codes
           n == IF Len(all) < MaxErrors THEN Len(all) ELSE MaxErrors
<1>1. violations' = SubSeq(all, 1, n) /\ MaxErrors \in Nat \ {0}
    BY FilterAssumption DEF Report, Collected
<1>2. codes \in Seq(Codes) /\ <<"cost_limit">> # <<>>
  <2>1. "cost_limit" \in Codes
      BY DEF Codes
  <2>2. <<"cost_limit">> \in Seq(Codes) /\ <<>> \in Seq(Codes) /\ <<"cost_limit">> # <<>>
      BY <2>1
  <2> QED BY <2>2
<1>3. violations \in Seq(Codes) /\ \A i \in DOMAIN violations : violations[i] # "cost_limit"
    BY DEF Early
<1>4. all \in Seq(Codes) /\ Len(all) \in Nat
    BY <1>2, <1>3
<1>5. all # <<>> => n \in 1..Len(all)
    BY <1>1, <1>4
<1>6. all = <<>> => SubSeq(all, 1, n) = <<>>
    BY <1>1
<1>7. violations = <<>> => all = codes
    BY <1>2
<1>8. violations # <<>> => /\ all # <<>> /\ all[1] = violations[1]
                           /\ 1 \in DOMAIN violations
    BY <1>2, <1>3
<1> HIDE DEF all, n
<1>9. all # <<>> => violations' # <<>> /\ violations'[1] = all[1]
    BY <1>1, <1>4, <1>5, FirstOnes
<1>10. violations' = <<"cost_limit">> => violations'[1] = "cost_limit"
    OBVIOUS
<1>11. all = <<>> => violations' = <<>>
    BY <1>1, <1>6
<1>12. CASE violations = <<>>
  <2>1. codes = <<>> <=> violations' = <<>>
      BY <1>7, <1>9, <1>11, <1>12
  <2> QED BY <1>2, <1>12, <2>1
<1>13. CASE violations # <<>>
    BY <1>3, <1>8, <1>9, <1>10, <1>13, Zenon
<1> QED BY <1>12, <1>13

LEMMA LastWord ==
    ASSUME violations \in Seq(Early), NEW bad, Report(Fault(bad, "cost_limit"))
    PROVE  /\ violations' = <<>> => violations = <<>> /\ ~bad
           /\ violations' = <<"cost_limit">> => violations = <<>> /\ bad
<1>1. CASE bad
  <2>1. Fault(bad, "cost_limit") = <<"cost_limit">> /\ <<"cost_limit">> # <<>>
      BY <1>1 DEF Fault
  <2> QED BY <1>1, <2>1, LastCode
<1>2. CASE ~bad
  <2>1. Fault(bad, "cost_limit") = <<>>
      BY <1>2 DEF Fault
  <2> QED BY <1>2, <2>1, LastCode
<1> QED BY <1>1, <1>2

LEMMA NamesKnown ==
    ASSUME Base, Vouched
    PROVE  /\ IsFiniteSet(Leaves(walk.kept))
           /\ \A at \in Leaves(walk.kept) : tree[at].pred.name \in DOMAIN Filters
           /\ \A i \in 1..Len(plan.sorts) : plan.sorts[i].name \in ToNames(SortDefs)
<1>1. IsFiniteSet(Leaves(walk.kept))
    BY Weighed DEF Base
<1>2. ASSUME NEW name \in GrantedNames("filter")
      PROVE  name \in DOMAIN Filters
  <2>1. PICK i \in DOMAIN asked : asked[i].name = name /\ asked[i].kind = "filter"
      BY DEF GrantedNames
  <2>2. asked[i] \in Answers
      BY DEF Base, AskedTyped
  <2>3. name \in Capabilities["filter"]
      BY <2>1, <2>2 DEF Answers
  <2> QED BY <2>3, CapabilitiesAre
<1>3. \A at \in Leaves(walk.kept) : tree[at].pred.name \in DOMAIN Filters
    BY <1>2 DEF Vouched
<1>4. \A i \in 1..Len(plan.sorts) : plan.sorts[i].name \in ToNames(SortDefs)
  <2>1. \A i \in 1..Len(plan.sorts) : plan.sorts[i] \in SortTerms
      BY DEF Base, PlanTyped
  <2>2. \A s \in SortTerms : s.name \in ToNames(SortDefs)
      BY DEF SortTerms
  <2> QED BY <2>1, <2>2
<1> QED BY <1>1, <1>3, <1>4

SortsCost == SumOf(Costs(SortDefs, SortNamesInOrder), 1..Len(plan.sorts))
LeavesCost == SumOf(LeafCost, Leaves(walk.kept))

LEMMA SortsCharged ==
    ASSUME Base, Vouched, NEW b, NEW price, Tracks(b, price)
    PROVE  /\ SortsCost \in Nat
           /\ SumOf([i \in DOMAIN plan.sorts |-> Def(SortDefs, plan.sorts[i].name).cost],
                    DOMAIN plan.sorts) = SortsCost
           /\ Tracks(ChargeAll(b, Costs(SortDefs, SortNamesInOrder)), price + SortsCost)
<1> DEFINE a == Costs(SortDefs, SortNamesInOrder)
           n == Len(plan.sorts)
           h == [i \in DOMAIN plan.sorts |-> Def(SortDefs, plan.sorts[i].name).cost]
<1>1. n \in Nat /\ DOMAIN plan.sorts = 1..n
    BY DEF Base, PlanTyped
<1>2. h = [i \in 1..n |-> Def(SortDefs, plan.sorts[i].name).cost]
    BY <1>1
<1>3. a = [i \in 1..n |-> Def(SortDefs, plan.sorts[i].name).cost]
    BY <1>1 DEF Costs, SortNamesInOrder
<1>4. \A i \in 1..n : a[i] \in Nat
    BY <1>3, NamesKnown, CostsAre
<1> HIDE DEF a, n, h
<1>5. a \in Seq(Nat) /\ Len(a) = n
    BY <1>1, <1>3, <1>4
<1>6. h = a
    BY <1>2, <1>3
<1>7. SumOf(a, 1..n) \in Nat /\ Tracks(ChargeAll(b, a), price + SumOf(a, 1..n))
    BY <1>5, ChargeAllTracks
<1> QED BY <1>1, <1>6, <1>7 DEF a, n, h, SortsCost

LEMMA FilterCharged ==
    ASSUME Base, Vouched, NEW b, NEW price \in Nat \ {0}, Tracks(b, price)
    PROVE  /\ LeavesCost \in Nat
           /\ Tracks(IF Leaves(walk.kept) = {} THEN b ELSE Charge(b, SaturatingSum(LeafCosts)),
                     price + LeavesCost)
<1>1. /\ LeafCosts \in Seq(Nat) /\ LeavesCost \in Nat
      /\ SumOf(LeafCosts, 1..Len(LeafCosts)) = LeavesCost
    BY NamesKnown, LeavesSum DEF LeavesCost
<1>2. CASE Leaves(walk.kept) = {}
  <2>1. LeavesCost = 0
      BY <1>2, SumEmpty DEF LeavesCost
  <2>2. price + LeavesCost = price
      BY <2>1
  <2> QED BY <1>1, <1>2, <2>2
<1>3. CASE Leaves(walk.kept) # {}
  <2>1. SaturatingSum(LeafCosts) = Saturated(LeavesCost)
      BY <1>1, SaturatingIs
  <2>2. Tracks(Charge(b, Saturated(LeavesCost)), price + LeavesCost)
      BY <1>1, SaturatedCharge
  <2> QED BY <1>1, <1>3, <2>1, <2>2
<1> QED BY <1>2, <1>3
LEMMA PriceIs ==
    ASSUME Base, Vouched, UpToDate, job.phase = "cost"
    PROVE  Price = 1 + SumOf(FieldCost, Charged) + SumOf(EdgeCost, Travelled)
                     + LeavesCost + SortsCost
<1> DEFINE fields == {plan.executionFields[i] : i \in DOMAIN plan.executionFields}
           edges  == UNION {{SubSeq(plan.includes[i], 1, n) : n \in 1..Len(plan.includes[i])} :
                            i \in DOMAIN plan.includes}
           fcost == [f \in fields |-> Def(Fields, f).cost]
           ecost == [e \in edges |-> Relations[e].cost]
<1>1. fields = Charged /\ edges = Travelled
    BY DEF Charged, Travelled, In, EdgesOf, EdgesIn, Range
<1>2. Price = 1 + SumOf(fcost, fields) + SumOf(ecost, edges)
                + SumOf([at \in Leaves(walk.kept) |-> Filters[tree[at].pred.name].cost],
                        Leaves(walk.kept))
                + SumOf([i \in DOMAIN plan.sorts |-> Def(SortDefs, plan.sorts[i].name).cost],
                        DOMAIN plan.sorts)
    BY DEF Price
<1>3. SumOf([at \in Leaves(walk.kept) |-> Filters[tree[at].pred.name].cost],
            Leaves(walk.kept)) = LeavesCost
    BY DEF LeavesCost, LeafCost
<1>4. SumOf([i \in DOMAIN plan.sorts |-> Def(SortDefs, plan.sorts[i].name).cost],
            DOMAIN plan.sorts) = SortsCost
    BY SortsCharged DEF UpToDate
<1>5. /\ fields \subseteq ToNames(Fields) /\ IsFiniteSet(fields)
      /\ edges \subseteq DOMAIN Relations /\ IsFiniteSet(edges)
    BY <1>1 DEF UpToDate, FieldsDone, PathsDone
<1> HIDE DEF fields, edges
<1>6. \A f \in fields : FieldCost[f] \in Nat /\ fcost[f] = FieldCost[f]
    BY <1>5, CostsAre
<1>7. \A e \in edges : EdgeCost[e] \in Nat /\ ecost[e] = EdgeCost[e]
    BY <1>5, CostsAre
<1> HIDE DEF fcost, ecost
<1>8. SumOf(fcost, fields) = SumOf(FieldCost, fields)
    BY <1>5, <1>6, SumSame
<1>9. SumOf(ecost, edges) = SumOf(EdgeCost, edges)
    BY <1>5, <1>7, SumSame
<1> QED BY <1>1, <1>2, <1>3, <1>4, <1>8, <1>9

LEMMA FinishPrices ==
    ASSUME Base, Vouched, Billed, Finish
    PROVE  CostIsPrice'
<1> DEFINE b == IF Leaves(walk.kept) = {} THEN bill
                ELSE Charge(bill, SaturatingSum(LeafCosts))
           final == ChargeAll(b, Costs(SortDefs, SortNamesInOrder))
           bad == final.exceeded \/ final.cost > MaxCost
<1>1. /\ job.phase = "cost" /\ bill' = final
      /\ Report(Fault(bad, "cost_limit"))
      /\ plan' = plan /\ walk' = walk /\ tree' = tree
    BY DEF Finish, In
<1>2. Price' = Price
    BY <1>1 DEF Price, Leaves, IsLeaf
<1>3. violations \in Seq(Early)
    BY <1>1 DEF Base, Told
<1>4. ASSUME violations = <<>>
      PROVE  Tracks(final, Price)
  <2> DEFINE f == SumOf(FieldCost, Charged)
             e == SumOf(EdgeCost, Travelled)
             l == LeavesCost
             s == SortsCost
             p == 1 + (f + e)
  <2>1. UpToDate
      BY <1>1, <1>4 DEF Billed
  <2>2. f \in Nat /\ e \in Nat /\ Tracks(bill, p)
      BY <2>1, SumsDue DEF UpToDate, Due
  <2>3. p \in Nat \ {0}
    <3> HIDE DEF f, e
    <3> QED BY <2>2
  <2> HIDE DEF p
  <2>4. l \in Nat /\ Tracks(b, p + l)
      BY <2>2, <2>3, FilterCharged
  <2> HIDE DEF b, l
  <2>5. s \in Nat /\ Tracks(final, (p + l) + s)
      BY <2>4, SortsCharged
  <2>6. Price = 1 + f + e + l + s
      BY <1>1, <2>1, PriceIs DEF l
  <2> HIDE DEF final, f, e, s
  <2>7. (p + l) + s = Price
      BY <2>2, <2>4, <2>5, <2>6 DEF p
  <2> QED BY <2>5, <2>7
<1> HIDE DEF final
<1>5. /\ violations' = <<>> => violations = <<>> /\ ~bad
      /\ violations' = <<"cost_limit">> => violations = <<>> /\ bad
    BY <1>1, <1>3, LastWord
<1>6. ASSUME violations = <<>>
      PROVE  /\ ~bad => final.cost = Price /\ Price <= MaxCost
             /\ bad => Price > MaxCost
  <2>1. MaxCost \in Nat
      BY CompileAssumption
  <2>2. /\ final \in Bills /\ Price \in Nat
        /\ Price <= MaxCost => final.cost = Price /\ final.exceeded = FALSE
        /\ Price > MaxCost => final.exceeded = TRUE
      BY <1>4, <1>6 DEF Tracks
  <2>3. final.cost \in 0..MaxCost
      BY <2>2 DEF Bills
  <2> DEFINE c == final.cost
             x == final.exceeded
  <2>4. c \in 0..MaxCost /\ (Price <= MaxCost => c = Price /\ x = FALSE)
        /\ (Price > MaxCost => x = TRUE)
      BY <2>2, <2>3
  <2> HIDE DEF c, x
  <2>5. CASE Price <= MaxCost
    <3>1. ~(x \/ c > MaxCost)
        BY <2>1, <2>4, <2>5
    <3> QED BY <2>4, <2>5, <3>1 DEF c, x
  <2>6. CASE Price > MaxCost
      BY <2>4, <2>6 DEF c, x
  <2> QED BY <2>1, <2>2, <2>5, <2>6
<1> QED BY <1>1, <1>2, <1>5, <1>6 DEF CostIsPrice

LEMMA OnlyFinishEnds ==
    ASSUME Base, Skipped \/ Taken \/ FilterNode \/ Ends \/ Tied
    PROVE  job'.phase # "done" \/ Finish
<1>1. CASE Skipped
    BY <1>1, SkippedLeaves DEF Skipped, KindOf
<1>2. CASE FieldTaken \/ TakeInclude \/ EdgeTaken \/ SortTaken
    BY <1>2, FieldTakenLeaves, TakeIncludeLeaves, EdgeTakenLeaves, SortTakenLeaves
<1>3. CASE FilterNode
    BY <1>3 DEF FilterNode, In
<1>4. CASE Ends
    BY <1>4, EndsBegin DEF Begins, Moves
<1>5. CASE Tied
    BY <1>5, TiedLeaves DEF Tied
<1> QED BY <1>1, <1>2, <1>3, <1>4, <1>5 DEF Taken

\* A plan carries its price: one, what each executed field costs, each edge of its
\* includes once, each predicate and each sort; that is within the limit, and a
\* request is turned away for its cost alone only when its price is beyond it.
\* Charging on the way, stopping at the limit and saturating never change that,
\* for costs up to the largest int (compile.go:95-106, 518-542).
THEOREM PriceIsCharged == CompileSpec => []CostIsPrice
<1>1. CompileInit => Billed /\ CostIsPrice
  <2> SUFFICES ASSUME CompileInit
               PROVE  Billed /\ CostIsPrice
      OBVIOUS
  <2>1. /\ job = Job("start", <<>>) /\ plan = NoPlan
        /\ bill = [cost |-> 1, exceeded |-> FALSE]
      BY DEF CompileInit
  <2>2. /\ job.phase = "start" /\ plan.responseFields = <<>> /\ plan.includes = <<>>
      BY <2>1 DEF Job, NoPlan
  <2>3. Charged = {} /\ Travelled = {}
      BY <2>2, NoPaths DEF Charged, Travelled, In, Range
  <2>4. FieldsDone /\ PathsDone
      BY <2>2, <2>3, FS_EmptySet DEF FieldsDone, PathsDone, In
  <2>5. Due = 0
    <3>1. Due = 0 + 0
        BY <2>3, SumEmpty DEF Due
    <3> QED BY <3>1
  <2>6. Tracks(bill, 1)
    <3>1. MaxCost \in Nat /\ 1 <= MaxCost
      <4>1. MaxCost \in Nat \ {0}
          BY CompileAssumption
      <4> QED BY <4>1
    <3>2. bill \in Bills
        BY <2>1, <3>1 DEF Bills
    <3>3. ~(1 > MaxCost)
        BY <3>1
    <3> QED BY <2>1, <3>2, <3>3 DEF Tracks
  <2>7. 1 + Due = 1
      BY <2>5
  <2> QED BY <2>2, <2>4, <2>6, <2>7 DEF Billed, UpToDate, CostIsPrice
<1>2. /\ Base /\ Vouched /\ Empty /\ Billed /\ CostIsPrice /\ [CompileNext]_cvars
      => Billed' /\ CostIsPrice'
  <2> SUFFICES ASSUME Base, Vouched, Empty, Billed, CostIsPrice, [CompileNext]_cvars
               PROVE  Billed' /\ CostIsPrice'
      OBVIOUS
  <2>1. CASE CompileNext
    <3>1. Skipped \/ Taken \/ FilterNode \/ Ends \/ Tied
        BY <2>1, NextMoves
    <3>2. Billed'
        BY <3>1, BilledKeeps
    <3>3. CostIsPrice'
        BY <3>1, OnlyFinishEnds, FinishPrices DEF CostIsPrice
    <3> QED BY <3>2, <3>3
  <2>2. CASE UNCHANGED cvars
    <3>1. UNCHANGED <<job, plan, bill, violations, walk, tree>>
        BY <2>2 DEF cvars
    <3>2. Billed'
        BY <3>1 DEF Billed, UpToDate, FieldsDone, PathsDone, Due, Charged, Travelled, In, Element
    <3>3. CostIsPrice'
        BY <3>1 DEF CostIsPrice, Price, Leaves, IsLeaf
    <3> QED BY <3>2, <3>3
  <2> QED BY <2>1, <2>2
<1> QED BY <1>1, <1>2, BaseInvariant, VouchedInvariant, WholeInvariant, PTL DEF CompileSpec
=============================================================================
