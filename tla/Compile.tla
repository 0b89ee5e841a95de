------------------------------ MODULE Compile ------------------------------
(***************************************************************************)
(* Compile: one request against one schema (src/compile.go:81-112).  The   *)
(* phases run in the order of the code; a step is one element of a phase,  *)
(* because the application's authorizer is called for each and may answer  *)
(* either way every time, and the cursor decoder may answer anything.      *)
(* A refused element is dropped and the walk goes on; only at the end does *)
(* any violation turn the plan into an error.                              *)
(***************************************************************************)
EXTENDS FilterWalk, Integers, FiniteSets

CONSTANTS
    Requests,       \* requests, with the server's options for them
    Fields,         \* declared fields, in order
    Relations,      \* [relationship paths -> definitions]
    SortDefs,       \* declared sorts, in order
    DefaultSort, Pagination, DecoderStates,
    MaxFields, MaxIncludes, MaxIncludeDepth, MaxSorts, MaxPageSize, MaxCost,
    MaxInt,         \* the largest int; addition wraps past it
    Absent,         \* an Optional that is not set
    NoCursor

ASSUME CompileAssumption ==
    /\ MaxInt \in Nat
    /\ \A b \in {MaxFields, MaxIncludes, MaxIncludeDepth, MaxSorts, MaxPageSize,
                 MaxCost} : b \in Nat \ {0} /\ b <= MaxInt
    /\ \A f \in {Fields[i] : i \in DOMAIN Fields} \cup {SortDefs[i] : i \in DOMAIN SortDefs}
             \cup {Relations[r] : r \in DOMAIN Relations}
             \cup {Filters[n] : n \in DOMAIN Filters} : f.cost \in 0..MaxCost
    /\ Len(DefaultSort) <= MaxSorts

IsList(x)     == x \in Seq(Range(x))
IsOptional(x) == x = Absent \/ IsList(x)
AreSorts(x)   == IsList(x) /\ \A i \in DOMAIN x :
                    x[i] = [name |-> x[i].name, dir |-> x[i].dir, nulls |-> x[i].nulls]

ASSUME SchemaAssumption ==
    \* What NewSchema makes sure of: names are unique, every prefix of a path of
    \* relationships is one, and cursor pages have a tie-breaker (schema.go:264-445).
    /\ IsList(Fields) /\ IsList(SortDefs) /\ AreSorts(DefaultSort)
    /\ \A i, j \in DOMAIN Fields : Fields[i].name = Fields[j].name => i = j
    /\ \A r \in DOMAIN Relations :
          IsList(r) /\ r # <<>> /\ \A n \in DOMAIN r : SubSeq(r, 1, n) \in DOMAIN Relations
    /\ Pagination.cursor => \E i \in DOMAIN SortDefs : SortDefs[i].tie

ASSUME RequestsAssumption == \A r \in Requests :
    /\ IsTree(r.filter) /\ IsList(r.constraints)
    /\ IsOptional(r.fields) /\ IsOptional(r.includes)
    /\ r.sorts = Absent \/ AreSorts(r.sorts)
    /\ r.page = [mode |-> r.page.mode, size |-> r.page.size, offset |-> r.page.offset,
                 after |-> r.page.after, before |-> r.page.before]

VARIABLES
    request,
    job,            \* the phase: elements left and seen; for includes, the edges
                    \* of the element left to ask for and those already paid for
    plan,           \* what Compile has put into the plan so far
    bill,           \* plan.cost and plan.costExceeded
    decoder         \* the sorts the cursor decoder was called with, or NoCursor (history)

cvars == <<request, job, plan, bill, decoder, tree, walk, violations, asked>>

-----------------------------------------------------------------------------
Named(defs, n)  == {i \in DOMAIN defs : defs[i].name = n}
Declared(defs, n) == Named(defs, n) # {}
Def(defs, n)    == defs[CHOOSE i \in Named(defs, n) : TRUE]

\* Go's int addition, and addPlanCost, which must never need it to wrap.
Plus(a, b) == IF a + b > MaxInt THEN a + b - 2 * (MaxInt + 1) ELSE a + b

Charge(b, amount) ==
    IF b.exceeded \/ amount > MaxCost - b.cost
    THEN [b EXCEPT !.exceeded = TRUE]
    ELSE [b EXCEPT !.cost = Plus(@, amount)]

ChargeAll(b, amounts) == FoldLeft(Charge, b, amounts)

WrappingSum(amounts) == FoldLeft(Plus, 0, amounts)              \* mutant

\* filterCost: a sum that saturates.
SaturatingSum(amounts) ==
    FoldLeft(LAMBDA s, a : IF a > MaxInt - s THEN MaxInt ELSE Plus(s, a), 0, amounts)

Costs(defs, names) == [i \in DOMAIN names |-> Def(defs, names[i]).cost]
LeafCosts == LET leaves == SetToSeq(Leaves(walk.kept))
             IN [i \in DOMAIN leaves |-> Filters[tree[leaves[i]].pred.name].cost]

SilentlyCut(list, max) == <<>>                                  \* mutant

Upto(list, max) == SubSeq(list, 1, IF Len(list) < max THEN Len(list) ELSE max)
TooMany(list, max) == Fault(Len(list) > max, "limit_exceeded")

Job(phase, todo) == [phase |-> phase, todo |-> todo, seen |-> {}, edges |-> <<>>, paid |-> {}]
In(phase)   == job.phase = phase
Element     == Head(job.todo)
Next1       == [job EXCEPT !.todo = Tail(@)]
Marked      == [Next1 EXCEPT !.seen = @ \cup {Element}]
\* The element is refused: reported and dropped, before or after it was seen.
Drop(j, code) == Report(<<code>>) /\ job' = j /\ UNCHANGED <<plan, bill>>

NoPlan == [responseFields |-> <<>>, executionFields |-> <<>>, includes |-> <<>>,
           sorts |-> <<>>, constraints |-> <<>>, page |-> Absent, cursor |-> NoCursor]

CompileInit ==
    /\ request \in Requests
    /\ tree = request.filter /\ walk = NoWalk(tree)
    /\ violations = <<>> /\ asked = <<>>
    /\ job = Job("start", <<>>)
    /\ plan = NoPlan /\ bill = [cost |-> 1, exceeded |-> FALSE]
    /\ decoder = NoCursor

-----------------------------------------------------------------------------
\* The revision, the server's mandatory constraints, and on to the fields:
\* those requested, or the schema's defaults.

DefaultFields ==
    LET picked == Only(Fields, LAMBDA f : f.default)
    IN [i \in DOMAIN picked |-> picked[i].name]
RequestedFields == IF request.fields = Absent THEN DefaultFields ELSE request.fields

ConstraintFaults(cs) == FlattenSeq([i \in DOMAIN cs |->
    Fault(~cs[i].valid, "invalid_element") \o
    Fault(\E j \in 1..(i - 1) : cs[j].name = cs[i].name, "conflict") \o
    Fault(cs[i].bytes > MaxStringBytes, "limit_exceeded")])

Start ==
    LET given == request.constraints
        kept  == Upto(given, MaxValues) IN
    /\ In("start")
    /\ Report(Fault(~request.revisionMatches, "version_mismatch") \o
              TooMany(given, MaxValues) \o ConstraintFaults(kept) \o
              TooMany(RequestedFields, MaxFields))
    /\ plan' = [plan EXCEPT !.constraints = kept]
    /\ job' = Job("fields", Upto(RequestedFields, MaxFields))
    /\ UNCHANGED <<bill, decoder, asked, walk, tree, request>>

RefuseField ==
    /\ In("fields") /\ job.todo # <<>>
    /\ \/ ~Declared(Fields, Element) /\ Drop(Next1, "invalid_element")
       \/ Element \in job.seen /\ Drop(Next1, "conflict")
       \/ /\ Declared(Fields, Element) /\ Element \notin job.seen
          /\ Def(Fields, Element).deprecated /\ Drop(Marked, "unsupported_operation")
    /\ UNCHANGED <<decoder, asked, walk, tree, request>>

Field(ok) ==
    /\ In("fields") /\ job.todo # <<>>
    /\ Declared(Fields, Element) /\ Element \notin job.seen
    /\ ~Def(Fields, Element).deprecated
    /\ Ask("field", Element, ok)
    /\ \/ ~ok /\ Drop(Marked, "authorization_rejected")
       \/ /\ ok
          /\ plan' = [plan EXCEPT !.responseFields = Append(@, Element)]
          /\ bill' = Charge(bill, Def(Fields, Element).cost)
          /\ job' = Marked /\ UNCHANGED violations
    /\ UNCHANGED <<decoder, walk, tree, request>>

\* Fields the server needs are executed and charged, never disclosed or asked.
RequiredMissing ==
    LET missing == Only(Fields, LAMBDA f :
                       f.required /\ ~Contains(plan.responseFields, f.name))
    IN [i \in DOMAIN missing |-> missing[i].name]
RequestedIncludes == IF request.includes = Absent THEN <<>> ELSE request.includes

EndFields ==
    /\ In("fields") /\ job.todo = <<>>
    /\ plan' = [plan EXCEPT !.executionFields = RequiredMissing \o plan.responseFields]
    /\ bill' = ChargeAll(bill, Costs(Fields, RequiredMissing))
    /\ Report(TooMany(RequestedIncludes, MaxIncludes))
    /\ job' = Job("includes", Upto(RequestedIncludes, MaxIncludes))
    /\ UNCHANGED <<decoder, asked, walk, tree, request>>

-----------------------------------------------------------------------------
\* Includes: every edge of a path is authorized and charged once per compile;
\* a refused edge ends its path, but what its earlier edges were granted stays.

Edges(path) == [n \in 1..Len(path) |-> SubSeq(path, 1, n)]
OnlyTheLast(path) == IF path \in job.paid THEN <<>> ELSE <<path>> \* mutant
AllAgain(path) == Edges(path)                                   \* mutant
Unpaid(path) == Only(Edges(path), LAMBDA e : e \notin job.paid)

RefuseInclude ==
    /\ In("includes") /\ job.todo # <<>> /\ job.edges = <<>>
    /\ \/ Element \notin DOMAIN Relations /\ Drop(Next1, "invalid_element")
       \/ /\ Element \in DOMAIN Relations
          /\ Len(Element) > MaxIncludeDepth /\ Drop(Next1, "limit_exceeded")
       \/ /\ Element \in DOMAIN Relations /\ Len(Element) <= MaxIncludeDepth
          /\ Element \in job.seen /\ Drop(Next1, "conflict")
    /\ UNCHANGED <<decoder, asked, walk, tree, request>>

TakeInclude ==
    LET j == [job EXCEPT !.seen = @ \cup {Element}] IN
    /\ In("includes") /\ job.todo # <<>> /\ job.edges = <<>>
    /\ Element \in DOMAIN Relations /\ Len(Element) <= MaxIncludeDepth
    /\ Element \notin job.seen
    /\ \/ /\ Unpaid(Element) # <<>>
          /\ job' = [j EXCEPT !.edges = Unpaid(Element)]
          /\ UNCHANGED plan
       \/ /\ Unpaid(Element) = <<>>
          /\ job' = [j EXCEPT !.todo = Tail(@)]
          /\ plan' = [plan EXCEPT !.includes = Append(@, Element)]
    /\ UNCHANGED <<bill, decoder, violations, asked, walk, tree, request>>

Edge(ok) ==
    LET edge == Head(job.edges)
        j    == [job EXCEPT !.edges = Tail(@), !.paid = @ \cup {edge}] IN
    /\ In("includes") /\ job.edges # <<>>
    /\ Ask("relationship", edge, ok)
    /\ \/ ~ok /\ Drop([Next1 EXCEPT !.edges = <<>>], "authorization_rejected")
       \/ /\ ok
          /\ bill' = Charge(bill, Relations[edge].cost)
          /\ IF Tail(job.edges) = <<>>
             THEN /\ job' = [j EXCEPT !.todo = Tail(@)]
                  /\ plan' = [plan EXCEPT !.includes = Append(@, Element)]
             ELSE job' = j /\ UNCHANGED plan
          /\ UNCHANGED violations
    /\ UNCHANGED <<decoder, walk, tree, request>>

EndIncludes ==
    /\ In("includes") /\ job.todo = <<>>
    /\ job' = Job("filter", <<>>)
    /\ UNCHANGED <<plan, bill, decoder, violations, asked, walk, tree, request>>

FilterNode ==
    /\ In("filter") /\ Visit
    /\ UNCHANGED <<job, plan, bill, decoder, tree, request>>

-----------------------------------------------------------------------------
\* Sorts, once the filter is walked.

RequestedSorts == IF request.sorts = Absent THEN DefaultSort ELSE request.sorts

EndFilter ==
    /\ In("filter") /\ walk.todo = <<>>
    /\ Report(TooMany(RequestedSorts, MaxSorts))
    /\ job' = Job("sorts", Upto(RequestedSorts, MaxSorts))
    /\ UNCHANGED <<plan, bill, decoder, asked, walk, tree, request>>

SortMarked == [Next1 EXCEPT !.seen = @ \cup {Element.name}]
FreshSort  == Declared(SortDefs, Element.name) /\ Element.name \notin job.seen
Directed   == Element.dir \in {"asc", "desc"}

RefuseSort ==
    /\ In("sorts") /\ job.todo # <<>>
    /\ \/ ~Declared(SortDefs, Element.name) /\ Drop(Next1, "invalid_element")
       \/ Element.name \in job.seen /\ Drop(Next1, "conflict")
       \/ FreshSort /\ ~Directed /\ Drop(SortMarked, "invalid_element")
    /\ UNCHANGED <<decoder, asked, walk, tree, request>>

\* Null placement is the schema's to choose; a request may only repeat it.
Sort(ok) ==
    LET nulls == Def(SortDefs, Element.name).nulls IN
    /\ In("sorts") /\ job.todo # <<>> /\ FreshSort /\ Directed
    /\ Ask("sort", Element.name, ok)
    /\ \/ ~ok /\ Drop(SortMarked, "authorization_rejected")
       \/ /\ ok /\ Element.nulls \notin {"", nulls}
          /\ Drop(SortMarked, IF Element.nulls \in {"first", "last"}
                              THEN "unsupported_operation" ELSE "invalid_element")
       \/ /\ ok /\ Element.nulls \in {"", nulls}
          /\ plan' = [plan EXCEPT !.sorts = Append(@, [Element EXCEPT !.nulls = nulls])]
          /\ job' = SortMarked /\ UNCHANGED <<bill, violations>>
    /\ UNCHANGED <<decoder, walk, tree, request>>

-----------------------------------------------------------------------------
\* The page: defaults, then every rule, all of them reported.

Normalized(page) ==
    LET mode == IF page.mode = "" THEN "none" ELSE page.mode IN
    [page EXCEPT !.mode = mode,
                 !.size = IF mode # "none" /\ @ = 0 THEN Pagination.defaultSize ELSE @]

Tokens(page) == {t \in {page.after, page.before} : t # NoCursor}

PageFaults(page) ==
    LET tokens == Tokens(page)
        both   == page.after # NoCursor /\ page.before # NoCursor IN
    Fault(page.mode = "cursor" /\ ~Pagination.cursor, "unsupported_operation") \o
    Fault(page.mode = "offset" /\ ~Pagination.offset, "unsupported_operation") \o
    Fault(page.mode = "offset" /\ page.offset \notin 0..Pagination.maxOffset,
          "limit_exceeded") \o
    Fault(page.size \notin 0..MaxPageSize, "limit_exceeded") \o
    Fault(both, "conflict") \o
    Fault(page.after = "oversized", "limit_exceeded") \o
    Fault(page.before = "oversized", "limit_exceeded") \o
    Fault(page.mode \notin {"none", "cursor", "offset"}, "unsupported_operation") \o
    Fault(page.mode = "none" /\ (page.size # 0 \/ tokens # {} \/ page.offset # 0),
          "conflict") \o
    Fault(page.mode = "cursor" /\ page.offset # 0, "conflict") \o
    Fault(page.mode = "offset" /\ tokens # {}, "conflict")

EndSorts ==
    /\ In("sorts") /\ job.todo = <<>>
    /\ plan' = [plan EXCEPT !.page = Normalized(request.page)]
    /\ Report(PageFaults(Normalized(request.page)))
    /\ job' = Job("page", <<>>)
    /\ UNCHANGED <<bill, decoder, asked, walk, tree, request>>

\* Cursor pages need a total order: the schema's tie-breaker is appended when
\* the sorts lack it, if there is room and the client may sort by it.
TieBreakers == Only(SortDefs, LAMBDA d : d.tie)
SortNames   == {plan.sorts[i].name : i \in DOMAIN plan.sorts}
NeedsTie    == /\ plan.page.mode = "cursor" /\ TieBreakers # <<>>
               /\ Head(TieBreakers).name \notin SortNames
HasRoom     == Len(plan.sorts) < MaxSorts

NoTie ==
    /\ In("page")
    /\ NeedsTie => ~HasRoom
    /\ Report(Fault(NeedsTie, "limit_exceeded"))
    /\ job' = Job("cursor", <<>>)
    /\ UNCHANGED <<plan, bill, decoder, asked, walk, tree, request>>

Tie(ok) ==
    LET d == Head(TieBreakers) IN
    /\ In("page") /\ NeedsTie /\ HasRoom
    /\ Ask("sort", d.name, ok)
    /\ Report(Fault(~ok, "authorization_rejected"))
    /\ plan' = IF ok THEN [plan EXCEPT !.sorts =
                             Append(@, [name |-> d.name, dir |-> "asc", nulls |-> d.nulls])]
                ELSE plan
    /\ job' = Job("cursor", <<>>)
    /\ UNCHANGED <<bill, decoder, walk, tree, request>>

-----------------------------------------------------------------------------
\* The cursor.  The decoder is the application's or a cursor.Codec: it may fail
\* or return any state, and it is called even when the request has already been
\* found at fault.

OneToken == plan.page.mode = "cursor" /\ (plan.page.after # NoCursor) # (plan.page.before # NoCursor)
Towards  == IF plan.page.before # NoCursor THEN "backward" ELSE "forward"

FitsAPrefix(state) ==                                           \* mutant
    /\ state.direction = Towards
    /\ Len(state.positions) <= Len(plan.sorts)

\* Positions must fit the plan's sorts one by one; a null fits any type.
Fits(state) ==
    /\ state.direction = Towards
    /\ Len(state.positions) = Len(plan.sorts)
    /\ state.policyBytes <= MaxStringBytes
    /\ \A i \in DOMAIN state.positions :
          /\ state.positions[i].bytes <= MaxStringBytes
          /\ state.positions[i].type \in {"null", Def(SortDefs, plan.sorts[i].name).type}

\* The decoder's error is NoCursor.
Accepted(state) == state # NoCursor /\ Fits(state)

NoDecode ==
    /\ In("cursor")
    /\ OneToken => ~request.hasDecoder
    /\ Report(Fault(OneToken, "cursor_failure"))
    /\ job' = Job("cost", <<>>)
    /\ UNCHANGED <<plan, bill, decoder, asked, walk, tree, request>>

Decode(state) ==
    /\ In("cursor") /\ OneToken /\ request.hasDecoder
    /\ decoder' = plan.sorts
    /\ \/ /\ Accepted(state)
          /\ plan' = [plan EXCEPT !.cursor = state,
                                  !.page.after = NoCursor, !.page.before = NoCursor]
          /\ UNCHANGED violations
       \/ /\ ~Accepted(state)
          /\ Report(<<"cursor_failure">>)
          /\ UNCHANGED plan
    /\ job' = Job("cost", <<>>)
    /\ UNCHANGED <<bill, asked, walk, tree, request>>

\* The filter is charged in one sum, the final sorts one by one.
SortNamesInOrder == [i \in DOMAIN plan.sorts |-> plan.sorts[i].name]

Finish ==
    LET final == ChargeAll(IF Leaves(walk.kept) = {} THEN bill
                           ELSE Charge(bill, SaturatingSum(LeafCosts)),
                           Costs(SortDefs, SortNamesInOrder)) IN
    /\ In("cost")
    /\ bill' = final
    /\ Report(Fault(final.exceeded \/ final.cost > MaxCost, "cost_limit"))
    /\ job' = Job("done", <<>>)
    /\ UNCHANGED <<plan, decoder, asked, walk, tree, request>>

CompileNext ==
    \/ Start \/ RefuseField \/ EndFields
    \/ RefuseInclude \/ TakeInclude \/ EndIncludes
    \/ FilterNode \/ EndFilter
    \/ RefuseSort \/ EndSorts \/ NoTie
    \/ \E ok \in BOOLEAN : Field(ok) \/ Edge(ok) \/ Sort(ok) \/ Tie(ok)
    \/ NoDecode \/ (\E state \in DecoderStates \cup {NoCursor} : Decode(state))
    \/ Finish

CompileSpec == CompileInit /\ [][CompileNext]_cvars

-----------------------------------------------------------------------------
\* Compile returns the plan only if nothing was reported.
Returned == job.phase = "done" /\ violations = <<>>

ToNames(list) == {list[i].name : i \in DOMAIN list}

\* A plan is the whole request or nothing: every field, include, predicate and
\* sort asked for is in it in order, and so is every server constraint, whatever
\* was truncated or dropped on the way (compile.go:114-189, 191-236, 361-406).
PlanIsTheRequest == Returned =>
    /\ plan.responseFields = RequestedFields
    /\ plan.includes = RequestedIncludes
    /\ plan.constraints = request.constraints
    /\ walk.kept = DOMAIN request.filter
    /\ [i \in DOMAIN RequestedSorts |-> plan.sorts[i].name] =
          [i \in DOMAIN RequestedSorts |-> RequestedSorts[i].name]
    /\ Len(plan.sorts) - Len(RequestedSorts) \in {0, 1}
    /\ Len(plan.sorts) <= MaxSorts

\* Whatever a client put into a plan, down to each edge of an include and the
\* tie-breaker it never named, was granted by the authorizer during this very
\* compile; and no compile that met a refusal returns a plan.
PlanAuthorized == Returned =>
    /\ \A i \in DOMAIN plan.responseFields : Granted("field", plan.responseFields[i])
    /\ \A i \in DOMAIN plan.includes : \A n \in 1..Len(plan.includes[i]) :
          Granted("relationship", SubSeq(plan.includes[i], 1, n))
    /\ \A at \in Leaves(walk.kept) : Granted("filter", tree[at].pred.name)
    /\ \A i \in DOMAIN plan.sorts : Granted("sort", plan.sorts[i].name)
    /\ \A i \in DOMAIN asked : asked[i].ok

\* The authorizer hears of declared capabilities only, whatever the client
\* names; it is not asked again for an edge it granted, and the bounds of the
\* schema bound how often a request of any size can make it run
\* (compile.go:147-150, 196-199, 219-230, 310-314, 366-369, 460-468).
AuthorizerLoad ==
    LET Asked(kind) == {i \in DOMAIN asked : asked[i].kind = kind} IN
    /\ \A i \in Asked("field")        : asked[i].name \in ToNames(Fields)
    /\ \A i \in Asked("relationship") : asked[i].name \in DOMAIN Relations
    /\ \A i \in Asked("filter")       : asked[i].name \in DOMAIN Filters
    /\ \A i \in Asked("sort")         : asked[i].name \in ToNames(SortDefs)
    /\ \A i, j \in Asked("relationship") :
          i < j /\ asked[i].ok => asked[i].name # asked[j].name
    /\ Cardinality(Asked("field")) <= MaxFields
    /\ Cardinality(Asked("relationship")) <= MaxIncludes * MaxIncludeDepth
    /\ Cardinality(Asked("filter")) <= MaxFilterNodes
    /\ Cardinality(Asked("sort")) <= MaxSorts + 1

\* The reference price: one, each field executed, each distinct edge, each
\* predicate and each sort, counted once.
Price ==
    LET fields == {plan.executionFields[i] : i \in DOMAIN plan.executionFields}
        edges  == UNION {{SubSeq(plan.includes[i], 1, n) : n \in 1..Len(plan.includes[i])} :
                         i \in DOMAIN plan.includes} IN
    1 + SumOf([f \in fields |-> Def(Fields, f).cost], fields)
      + SumOf([e \in edges |-> Relations[e].cost], edges)
      + SumOf([at \in Leaves(walk.kept) |-> Filters[tree[at].pred.name].cost],
              Leaves(walk.kept))
      + SumOf([i \in DOMAIN plan.sorts |-> Def(SortDefs, plan.sorts[i].name).cost],
              DOMAIN plan.sorts)

\* The cost of a plan is its price and within the limit, and a request is turned
\* away for its cost alone only when its price is beyond it: charging as the
\* walk goes, stopping at the limit and saturating never get it wrong
\* (compile.go:97-106, 518-542).
CostIsPrice == job.phase = "done" =>
    /\ violations = <<>> => bill.cost = Price /\ Price <= MaxCost
    /\ violations = <<"cost_limit">> => Price > MaxCost

\* A cursor in a plan is what the decoder answered for exactly the sorts of the
\* plan, fits them position by position, and replaces the raw tokens; cursor
\* plans are totally ordered; a token is never silently ignored.
CursorBound == Returned =>
    /\ plan.cursor # NoCursor => decoder = plan.sorts
                                /\ Len(plan.cursor.positions) = Len(plan.sorts)
    /\ Tokens(plan.page) = {}
    /\ (plan.cursor # NoCursor) <=> (Tokens(request.page) # {})
    /\ plan.page.mode = "cursor" => \E d \in ToNames(TieBreakers) : d \in SortNames
============================================================================
