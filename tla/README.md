# Verification of go-api-query

TLA+ models of this library, checked with TLC on small instances, and theorems
about them proved with TLAPS for every instance. The models follow the code
under `src/`; `PROJECT.json` maps each definition to the lines it stands for.

- [The system](#the-system)
- [Modules](#modules)
- [What the runs check](#what-the-runs-check)
- [What is proved](#what-is-proved)
- [Disagreements between code and documents](#disagreements-between-code-and-documents)
- [What is not modelled](#what-is-not-modelled)
- [Plan](#plan)

## The system

The library turns a client's query (fields, includes, filter, sorts, page) into
an immutable *plan* that an application executes. A request arrives through a
transport adapter, is compiled against a server-declared schema, and the plan
is handed to a persistence adapter.

| Component | State it keeps | Operations | Called by / calls |
|---|---|---|---|
| Request compiler (`compile.go`) | per call: the plan so far, the running bill, sets of what was seen, the violations | `Compile` and its seven phases | the application; calls the authorizer for each declared element and the cursor decoder |
| Filter walk (`compile.go:250-359`) | per call: nodes and values spent, name/operator pairs seen | `compileFilterNode`, `validatePredicateValues` | the compiler; the authorizer |
| Schema (`schema.go`) | immutable after `NewSchema` | `NewSchema` | the application |
| Violations (`errors.go`) | bounded list | `add`, `err` | the compiler, the schema |
| Plan (`plan.go`) | immutable | accessors, `Canonical` | persistence adapters |
| Cursor codec (`cursor/cursor.go`) | the installed clock | `Encode`, `Decode`, `DecodeContext`, `DecodeCursor`, `SetClock` | the compiler (as its decoder), the application; calls keyring, clock, replay store |
| Keyring (`cursor/cursor.go`) | active key ID, map of secrets | `Rotate`, two lookups | the operator, the codec |
| Replay store (application) | fingerprints consumed | one atomic accept-or-reject | the codec |
| Cursor pages (`cursor/page.go`) | none | `BuildPage` | the application; calls its encoder |
| Typed values, requests (`types.go`) | immutable values | constructors, `MarshalJSON`, `UnmarshalJSON`, `Optional` | the application, encoding/json |
| PostgreSQL adapter | immutable mapping | `Compile` | the application |
| HTTP, JSON-RPC, JSON:API adapters, strict JSON | none | parse, convert | the application |
| Validation adapter | none | `Report` | the application, with a failure of the library |
| Test support (`apiquerytest`) | two mutable builders | setters, `Build`, `MustBuild`, `RunCanonicalConformance` | tests |

What is hard here:

- *Concurrency.* One codec serves many goroutines while an operator rotates its
  keys and somebody replaces its clock. The code holds a lock only to copy a
  key or the clock function, so each call works on snapshots taken at different
  instants.
- *One-time consumption.* A decode validates first and calls the store later;
  cancellation, expiry, eviction and other decodes of the same cursor fall
  between.
- *Order within a call.* `Encode` samples the clock before it copies the active
  key; whether the documented rotation procedure is safe depends on that order.
- *Collect and go on.* `Compile` does not stop at a violation. It truncates,
  drops and continues with what is left, calling the application's authorizer
  and decoder on the way; only the bounded list of violations prevents a
  partial plan from being returned.
- *Text that must mean a tree.* The PostgreSQL adapter joins fragments; only
  its parentheses and the order in which it numbers arguments keep the meaning.
- *Several writers of one text.* Three transports write the same request, with
  their own ways to say absent, empty and null; typed values, paths of
  violations and canonical forms are text that somebody else compares or reads.
- *Shared memory.* Slices and pointers are shared when their holder is copied; a
  reviewed plan stays reviewed only if every level of it is copied.
- *Arithmetic at limits.* Costs are charged to a bill that must not wrap, by
  charges that stop at the limit and a filter sum that saturates.

What makes each component correct is stated by the properties below; the list
of hazards, each at its line and with the properties that cover it, is in
`PROJECT.json`.

## Modules

| Module | Models | Checked by |
|---|---|---|
| `CursorPromise` | what the codec promises its callers (abstract) | as `ImplementsPromise` |
| `CursorCodec` | codec, keyring, clock, replay store, callers | `MCCursorCodec` |
| `KeyRotation` | the rotation procedure of `docs/cursor.md:22-26`, composed with the codec | `MCKeyRotation` |
| `Violations` | the bounded list of violations; `FilterWalk`, `Compile` and `SchemaValidation` extend it | with those |
| `Collections` | sums over sets and selections from lists, which `FilterWalk`, `Compile` and `Pagination` share | with those |
| `FilterWalk` | the walk of a filter tree, the authorizer | `MCFilterWalk` |
| `Compile` | the whole compile, with `FilterWalk` as one of its phases | `MCCompile` |
| `SchemaValidation` | `NewSchema`, which establishes what `Compile` assumes | `MCSchemaValidation` |
| `Postgres` | the PostgreSQL adapter, and a reader of the SQL it writes | `MCPostgres` |
| `StrictJSON` | the strict JSON decoder | `MCWire` |
| `QueryService` | the compiler around its decoder, with `CursorCodec` as the decoder; many compiles | `MCQueryService` |
| `Pagination` | `BuildPage`, an application that seeks, a client that walks | `MCPagination` |
| `Transport` | the HTTP, JSON-RPC and JSON:API adapters | `MCWire` |
| `Values` | typed values and their wire form | `MCWire` |
| `Canonical` | the canonical form of a plan, the conformance suite | `MCResults` |
| `Ownership` | who shares memory with whom, over all components | `MCResults` |
| `ValidationReport` | paths of violations written and read back; extends `Violations` | `MCResults` |
| `CodecProofs` | theorems about `CursorCodec`, and about `KeyRotation` and `QueryService`, which build on the codec's | TLAPS |
| `FilterWalkProofs`, `CompileProofs` | theorems about the module in the name; `CompileProofs` builds on the walk's | TLAPS |
| `SchemaProofs` | theorems about `SchemaValidation` | TLAPS |
| `PaginationProofs` | theorems about `Pagination` | TLAPS |
| `ResultsProofs` | theorems about `Ownership` and `Canonical` | TLAPS |
| `WireProofs` | theorems about `StrictJSON`, `Transport` and `Values`; builds on `CollectionsProofs` | TLAPS |
| `CollectionsProofs` | what the sums, folds, selections and flattened lists of the others compute | TLAPS |

Definitions marked `\* mutant` are not part of a model. Each is a plausible
fault in the definition below it; `PROJECT.json` pairs it with a property that
TLC reports violated when the fault is put in.

### CursorCodec

Each goroutine has one call in progress, `call[p]`: a program counter and the
locals of `Encode` or `DecodeContext` that matter later.

| Code | Action |
|---|---|
| `Encode` 225: lock, copy the clock | `EncodeCall` |
| 225-228: call the clock, validate the payload | `EncodeValidate` |
| 229: lock, copy the active key | `EncodeKey` |
| 233-259: marshal, draw a nonce, seal | `EncodeSeal` |
| `Decode` 266, `DecodeContext` 281-299: what needs nothing shared | `DecodeCall` |
| 300-331: lock, copy one key by ID; open | `DecodeOpen` |
| 332 (402-405): lock, copy the clock | `DecodeClock` |
| 332-344: call the clock, validate | `DecodeValidate` |
| 346: check the context again | `DecodeCtx` |
| 350: the store answers | `StoreAccept`, `StoreReject` (external) |
| 351-358 | `DecodeReturn` |
| `Rotate`, `SetClock` | `Rotate`, `SetClock` |

`Cancel`, `Tick` and `StoreEvict` are the environment. Between two of these
steps the code touches only locals, so nothing finer can be observed.

Abstractions:

- A cursor is what is sealed in it: nonce, secret, version, contract (schema
  revision and sorts), expiry. It opens under the secret it was sealed with and
  no other. `Foreign` holds cursors this codec did not seal. The fingerprint of
  a cursor is the cursor. Positions and policy travel with the contract.
- `validPayload` is its part about time; the rest of it, marshalling, entropy
  and size limits may fail at any `Encode`, by choice.
- A nonce is drawn fresh: `crypto/rand` is taken to be collision free.
- A clock is an offset to physical time, never behind it; `SetClock` may
  replace it at any moment, also while a call has already copied the old one.
- The replay store is atomic, answers a call once, may reject a call whose
  context is cancelled and, depending on `StorePolicy`, keeps fingerprints for
  ever (`keep`), forgets them at expiry (`expire`), or forgets them at expiry
  and refuses expired ones (`recheck_and_expire`).

### KeyRotation

The operator may leave a key out of the ring once `MaxTTL` has passed since the
rotation that deactivated it (`retirable`). The codec's clock is physical time;
`SetClock`, documented for tests, is left out because the procedure's waiting
would then be timed by another clock.

### FilterWalk and Compile

A tree is a function from paths to nodes; the recursion is the list of paths
still to visit. Every step is one element (node, field, edge, sort), because
the authorizer is called for each and may say yes or no every time; `asked`
records the answers. A nil authorizer is one that always says yes. Violations
are their codes. `Compile` moves through the phases of `compile.go:89-105`; its
bill, `MaxInt` and `Plus` model int addition with its width. The decoder may
fail or return any of `DecoderStates`, whatever token it was given. Names,
types and sizes are kept as far as a check looks at them; a token is present,
absent or `"oversized"`. What `NewSchema` guarantees (positive bounds, costs
within `MaxCost`, a default sort within `MaxSorts`, unique names of fields,
relationships closed under prefixes, a tie-breaker for cursor pages) is assumed
(`FilterAssumption`, `CompileAssumption`, `SchemaAssumption`); `SchemaValidation`
shows it. `TreesAssumption` and `RequestsAssumption` say what Go's types make of
every request: a filter is a finite tree whose children are numbered from one, a
list is a sequence, a sort and a page have their fields and no others. Slices
that contain themselves are left out.

### SchemaValidation

The lists of a declaration are checked in one step each group; the relationship
forest is walked one relationship a step, with the prefix and the ancestors that
`indexRelationships` passes down. A forest is a function from paths to
relationships, so it is finite; slices that contain themselves are left out. A
relationship's name is split at its dots, so that dotted names which are invalid
still collide with joined ones as they do in the code. `WellFormed` is the
reference: what `docs/api.md` calls a valid declaration, with no order, index or
walk in it. With the types of Go it implies `FilterAssumption`,
`CompileAssumption` and `SchemaAssumption`.

### Postgres

The condition is a list of tokens. `compileFilter` returns strings that its
callers enclose and join; the module writes the same tokens from left to right,
with the list `rest` of what is still to be written, so arguments are added in
the order of the code. `Read` is a recursive-descent reader of SQL conditions
(OR, AND, NOT, parentheses, BETWEEN); it and `Like` are the database, which is
external. A row is the set of facts (column, operator, bound values) true of it,
and `WhereMeansPlan` compares the reader with the filter on every row. SQL's
third truth value is left out: both sides combine facts by the same connectives.

### StrictJSON

`validateValue`'s recursion is a stack of the objects and arrays it is in; the
tokens and `More` come from `encoding/json`, and `StrictAssumption` (`IsTokens`)
says what it makes of any text: nothing is closed that is not open, and the tokens
of an object are members and values in turn. The reference says the same as the
validator of the whole text, by counting brackets.

### QueryService

Extends `CursorCodec`: `DecodeCursor` is a whole `DecodeContext` of that module,
with its interleavings. A request says which tokens it names, the contract of
its final sorts, and whether anything else in it (`sound`) or its cost
(`cheap`) is at fault; `Compile` looks at how those come about. A goroutine
compiles once, so a retry is another goroutine's compile of the same request.
The positions and policy that `compileCursor` checks travel with the contract;
what is left of that check is the direction (`Fits`). `CompileReturn` is what
`compile.go` does after the decoder: the check, the bill and `Finish`.

### Pagination

`BuildPage` is an operator of the items, the two boundaries and the set of
directions for which the encoder fails. `Fetched` and `Answer` are an
application that does what `docs/cursor.md:5-8, 47-51` asks: seek after or
before the position, one row more than the page, canonical order. A client
opens, follows either cursor, and keeps its page when an answer fails, while
rows are inserted and deleted. Going back may lead to an empty page that says
there is more: every row before the boundary was deleted meanwhile, and a page
without items has no cursor onwards (`DeadEnd`). A client that has resolved to
walk to the end then begins again; a resolved client only goes forward. `stable` and `seen` are histories: the rows that
were there all along, and the client's walk.

### Transport

An intended request is written for one transport, spoiled in up to `MaxFaults`
ways, and parsed once. A list is the sequence of what stands between its commas;
an item is a name after so many dashes, so that a name that begins with a dash
keeps it. Filters and pages keep two and five members, each given or not, since
encoding/json decodes a repeated object into the one before. `fits` stands for
what is refused as a whole: the byte limit, the encoding, and JSON's syntax.
`TransportAssumption` says what Go's types make of a request: an optional
component is absent or one value, a list is a sequence, a page has five members.
`SayableAssumption` asks for requests every transport has a text for: a
comma-separated list cannot say an empty item (`http.go:100-110` refuses it), nor
an ascending sort of a name that begins with a dash, which reads as a descending
one.

### Values

A text is its form (sign, leading zero, offset, spelling) and the number it
writes; `Parsed` is what Go's parsers read, `Formatted` what its formatters
write. Integers have `Width` bits, times `LastTick + 1` ticks before the year
has five digits, a byte `ByteBits` bits in digits of `DigitBits`. A float is a
sign and an integer: 0 and -0 count as two values, as their texts do.

### Canonical

A form is the record of what `Canonical` marshals. Text is repaired where it is
not UTF-8, the digest is free of collisions, and the size is the number of list
elements. The steps are those of `RunCanonicalConformance`, one decoder a step.

### Ownership

An object is a function from its components to *cells*, the arrays and maps
behind them. Each call of the library is one `Make`: copied components get cells
of their own, borrowed ones the cells of their source. Which are copied is one
named set for each copying function (`cloneFilter`, `cloneFilters`,
`SchemaCopies`, ...). The program may write into anything it holds, before and
after; a call is one step, since `docs/api.md` forbids changing inputs during
it. A component of a nested array (operators of filters, values and children of
a filter) is a component of its own.

### ValidationReport

`Written` is how `compile.go` and `schema.go` put a place into a path's text,
`appendPath` how the adapter reads it. Texts are tokens: a name, a number, a
dot, a bracket.

## What the runs check

| Run | Question | Bounds |
|---|---|---|
| `codec_replay` | Is a cursor consumed once, are errors honest, and is the promise kept, with a replay store? | two goroutines, one key, one nonce, two revisions, two clocks, time 0..2 |
| `codec_snapshots` | Is only what this codec issued granted, for exactly its contract, while a secret is replaced under its ID? | two secrets with one ID, two sorts, two foreign cursors, no store |
| `codec_expiring_store` | Does a store that forgets at expiry still consume once? (It does not.) | as `codec_replay`, one clock |
| `key_rotation` | Does the procedure ever strand a live cursor? | two goroutines, two keys, `MaxTTL` 1, time 0..4, expiries 1..4 |
| `filter_walk` | Is anything dropped silently or let past a budget? | eight shapes up to five nodes, ten labels, all budgets met inside |
| `compile` | Is a plan the whole request, authorized and priced? | 1,600 requests, limits 2 or 3, `MaxCost` 10, `MaxInt` 11 |
| `schema_validation` | Does `NewSchema` accept exactly the valid declarations and index them fully? | 4,051 declarations, forests of up to three levels, limits 1 to 3 |
| `postgres` | Does the condition mean the plan, with every value at its number? | 216 plans, seven mappings, filters of up to six nodes, operands of LIKE of up to two characters against texts of up to three |
| `query_service` | Does a client that retries, or asks twice at once, get one plan at most, when is a cursor lost, and does cancelling end a compile? | two compiles of eleven requests, two live cursors of opposite directions, two keys, time 0..1; fair, no symmetry |
| `pagination` | Are rows skipped or repeated, and does a walk end? | six rows under three keys, two to a page, three changes; fair |
| `wire` | Does what arrives mean what was meant, or nothing? | strict JSON: 8,997 texts and sizes, up to five levels, `MaxDepth` 3 for the code's 64; transports: 432 requests, up to two faults in a message; values: two-bit integers, two ticks, four-bit bytes in three-bit digits, one edit of a wire |
| `results` | Does what the library hands out stay what it was and say what it is? | ownership: every order of the calls, two writes; canonical forms: three decoders, 48 plans, size limit 4; reports: 15 places, up to three violations, a report of two |

`wire` and `results` each check three modules that share no state. A behaviour
exercises one of them, named by the variable `part`, while the variables of the
others rest in an initial state: the sum of the three state spaces is explored,
not their product, and nothing is lost because no component of one reads or
writes a variable of another.

Two goroutines are enough for the codec: calls interact only through the ring,
the clock and the store, and each property compares at most two calls of one
cursor; the environment supplies every other interference. One nonce bounds the
cursors issued to one, and the same cursor can be presented any number of
times. Symmetry exchanges the goroutines, in safety runs only. In
`key_rotation` two keys and time 4 let a rotation away from a key, its waiting
time, its removal and its return all happen while an encode is stopped between
its clock and its key.

In `compile`, `MaxInt` is one above `MaxCost`, so sums wrap in the requests with
two predicates if nothing stops them. The requests vary groups of components
around a valid one: the phases of a compile meet only in the violations, the
bill and the answers. In the same way `schema_validation` varies one or two
parts of a valid declaration, which meet only in the bounds and the violations;
forests of three levels have an ancestor that is not the parent. In `postgres`
the values of a plan are all distinct, so that a wrong number shows, and the
filters reach every connective under every other. `filter_walk`, `compile`,
`schema_validation`, `postgres`, `wire` and `results` model calls that return,
and `pagination` a walk that comes to an end and a client that need not go back,
hence no deadlock check there.

In `query_service` two compiles are enough because the properties relate at most
two presentations of one cursor. In `pagination` a page boundary falls between
two rows of one key, where only the tie-breaker tells them apart, and three
changes can empty the table behind and before a page. Two faults let one hide
the other. In `wire` the texts of numbers reach the first one out of range on
both sides, and one byte takes two digits and leaves bits to spare, as 8 bits do
in two digits of 6. In `results` two writes can fall before and after one copy.

The properties:

- `ImplementsPromise`: a decode is granted only a cursor `Encode` issued, for
  exactly its revision and sorts, at most once if there is a store, and a grant
  is never taken back. `Encode` and `Decode` steps map to `Issue`, `Begin`,
  `Grant`, `Deliver`, `Refuse`; the store's acceptance is the commit point, or the
  validation if there is none.
- `OneTimeConsumption`: a decode passes the store only by consuming its cursor,
  which nobody has consumed before.
- `ReplayErrorTruthful`: a caller is told "replay" only of a cursor that has been
  consumed or, by a store that checks expiry, has run out; a refusal that follows
  cancellation is reported as that.
- `RetainedWhileValid`, `OldCursorsExpire`, `NoFalseRejection`: the rotation
  procedure.
- `NothingDropped`, `PlanIsTheRequest`: no violation, no loss.
- `WithinBudget`, `AuthorizerLoad`: budgets are global to the walk, and the
  authorizer's work is bounded by the schema, not the client.
- `PlanAuthorized`: every field, edge, predicate and sort in a plan was granted
  in this compile, and no plan survives a refusal.
- `CostIsPrice`: incremental charging with early stop and saturation agrees
  with a sum over the finished plan; a request refused for its cost alone does
  exceed the limit.
- `CursorBound`: the decoder saw the final sorts and the plan has its answer
  instead of the token.

- `DescentIsAcyclic`, `IndexComplete`, `AcceptsExactly`: the walk of the
  relationships carries the resources of its path, no two alike, so it ends; an
  accepted schema answers for each declared path; and no cut-short walk, index
  or full list of violations makes a bad declaration look good.
- `WhereMeansPlan`, `BoundInOrder`, `LikeIsLiteral`: the condition selects the
  rows the plan asks for, no constraint can be stepped around or left out, and a
  plan that cannot be written has no parts; placeholders are bound once each, in
  order, at every step; operands of LIKE match literally.
- `ExactlyStrict`: what strict JSON is, stated of the whole text; only such a text
  touches the target, and the validator recurses no deeper than its limit.

- `OnePlanPerCursor`, `PlanSeeksAsAsked`, `LostOnlyToFaults`: of all compiles
  that present a one-time cursor one at most has a plan for it, in its own
  contract and direction; and a sound request in the right direction that
  consumes its cursor gets its plan, whatever happens in between. The last
  names the price of `compile.go:74-76`: a request at fault loses its cursor.
- `CancelledCompileReturns`: liveness, through the compiler and the codec, under
  weak fairness of each goroutine's own steps (Go schedules them) and of the
  store's answer to a *cancelled* call (the contract: it honours cancellation).
  Nothing makes a store answer otherwise, and nothing else is assumed to be fair.
- `NoneSkippedNoneTwice`, `EndMeansComplete`, `PagesAdjoin`: walks in both
  directions, among inserts, deletes and failing encoders.
- `WalkEnds`: liveness, under weak fairness of a client that has resolved to walk
  on and tries again with an encoder that succeeds; `MaxChanges` makes inserts
  end. Failing encoders may come between as often as they like. Beginning again
  at a dead end is needed: without it TLC finds a client stuck on an empty page
  with `HasNext` and no `NextCursor`.
- `SameRequestEveryWay`, `Rejected`, `NothingIgnored`: what a client means
  arrives alike over each transport; nothing of a rejected message is handed
  out; and what an accepted message says is all in the request, a null included.
- `NothingForged`, `OneTextPerValue`, `RoundTrip`: an accepted value is one a
  constructor makes, in its only text, and survives the wire; a refused one
  leaves the receiver alone.
- `PassesIffSame`: equal forms are equal plans, the digested cursor included.
- `KeptFrozen`, `SharedOnlyAsDocumented`: no write of the
  program reaches what the library keeps; sharing is where it is documented.
- `ReportLeadsToPlaces`: the report is the failure, in order, and its paths lead
  where the violations are.

## What is proved

For every value of the constants that satisfies the named assumptions of the
modules. The conditions in the table are hypotheses of the theorem.

| Theorem | States |
|---|---|
| `CodecTypeCorrect` | `Spec => []TypeOK` |
| `ReplayErrorsTruthful` | `Spec => []ReplayErrorTruthful` |
| `ConsumedOnce` | `Spec => OneTimeConsumption` if the policy is not `expire` |
| `CodecKeepsPromise` | `Spec => ImplementsPromise`, the refinement of `CursorPromise`, if `NoForgery`, `ContractsExact` and, with a store, a policy that is not `expire` |
| `RotationInvariant` | `RSpec => []RInv` |
| `WaitingMaxTTLSuffices` | `RSpec => []OldCursorsExpire` |
| `NoCursorStranded` | `RSpec => []RetainedWhileValid` |
| `GenuineCursorsHonoured` | `RSpec => []NoFalseRejection` |
| `PlansSeekAsAsked` | `QSpec => []PlanSeeksAsAsked` |
| `OnePlanForACursor` | `QSpec => []OnePlanPerCursor` if the policy is not `expire` |
| `NothingElseLosesACursor` | `QSpec => []LostOnlyToFaults` |
| `WholeFilter` | `WalkSpec => []NothingDropped` |
| `BudgetsHold` | `WalkSpec => []WithinBudget` |
| `OnlyTheGranted` | `CompileSpec => []PlanAuthorized` |
| `PlanIsWhole` | `CompileSpec => []PlanIsTheRequest` |
| `CursorIsBound` | `CompileSpec => []CursorBound` |
| `AuthorizerIsSpared` | `CompileSpec => []AuthorizerLoad` |
| `PriceIsCharged` | `CompileSpec => []CostIsPrice` |
| `NothingSkippedNothingTwice` | `PaginationSpec => []NoneSkippedNoneTwice` |
| `EndIsTheEnd` | `PaginationSpec => []EndMeansComplete` |
| `PagesTouch` | `PaginationSpec => PagesAdjoin` |
| `NoCycleIsFollowed` | `SchemaSpec => []DescentIsAcyclic` |
| `IndexAnswersForAll` | `SchemaSpec => []IndexComplete` |
| `WellFormedAreAccepted` | `SchemaSpec => []AcceptsExactly` |
| `NothingKeptChanges` | `OwnershipSpec => []KeptFrozen` |
| `SharingIsDocumented` | `OwnershipSpec => []SharedOnlyAsDocumented` |
| `PassesExactlyIfSame` | `CanonicalSpec => []PassesIffSame` |
| `OnlyStrictTexts` | `JSpec => []ExactlyStrict` |
| `RequestsArriveAsMeant` | `TransportSpec => []SameRequestEveryWay` |
| `FaultsAreRejected` | `TransportSpec => []Rejected` |
| `AcceptedIsReadInFull` | `TransportSpec => []NothingIgnored` |
| `AcceptedTextIsTheOnlyOne` | `ValuesSpec => []OneTextPerValue` |

*The codec.* `TypeOK` is inductive as it stands because it says what each
program counter's registers hold. One-time consumption needs a relation between
the store's memory and its history: every cursor ever accepted is still
retained or, when the store refuses expired cursors, has expired; staleness is
stable because time does not go back. The hypothesis `StorePolicy # "expire"`
excludes exactly the store of the violation run.

*The refinement.* Each action of the codec is shown to move one claim of
`CursorPromise`, or none. The invariant `PromiseInv` adds to the store's what a
decode knows of its cursor (`Traced`): once opened, `Encode` issued it; once
validated, it is what the caller expects. `NoForgery` says that nobody outside
seals under this codec's keys and version, which is what the keys are for; a
cursor from elsewhere that does open has another version and fails the
validation. `ContractsExact` says that a contract is its schema revision and its
sorts, the two things `DecodeContext` compares (`cursor.go:339-344`).

*Rotation.* `OldCursorsExpire` is not inductive: a draft in flight may be
sealed under a key that is no longer active. `RInv` therefore also says of each
draft that its expiry is within `MaxTTL` of the instant `now` it sampled,
`now <= time`, and that if its key is no longer active its expiry is at most
that key's waiting time. The key is copied while it is active, after `now`; a
later rotation sets the waiting time to its own instant plus `MaxTTL`, which is
at least `now + MaxTTL`. Had `Encode` copied the key first, a rotation could
fall before `now` and the last step would fail. `RetainedWhileValid` follows
because keys outside the ring have served their waiting time.

*Compiles that share a codec.* Every step of `QueryService` is first shown to be
a step of the codec or none, so the codec's invariants carry over. `QInv` joins
a compile to the decode it waits for (`Joined`), says what a compile that
returned holds (`Settled`), and names the one compile whose decode consumed a
cursor. From the store's answer on, that compile either is on the way to a plan,
has it, or is at fault itself (`AllAccounted`).

*The filter walk.* Until something is reported, every node of the tree is kept
or lies under a path that is still to be visited (`Covered`); when none is left
to visit, all are kept. What was charged is what was kept (`Counted`), and a key
that was seen is not kept twice (`Distinct`). The root is the exception of the
code, which charges it without the check its parent would make; `RootFirst` says
that this happens before any other charge.

*The compile.* `Base` says which shape each phase leaves the state in, and every
property has its own invariant above it, so that a step is taken apart once:

- `Vouched`: whatever is in the plan so far was granted in this compile.
- `Whole`: with no violation, the plan so far followed by what is still to do
  is the request; the duplicates that would break this are violations.
- `Paged`: what holds of the page, the order and the cursor after each phase.
- `Load`: what was asked so far and what can still be asked, together, is within
  the bound; of includes, whole paths to come count `MaxIncludeDepth` each. An edge
  that was granted is in the set of edges paid for, and is not asked for again.
- `Billed`: with no violation, the bill *tracks* one plus the price of the
  fields and edges so far (`Tracks`): it is equal to it within the limit and marked
  beyond it. A charge of any amount keeps that relation, no sum exceeds
  `MaxInt`, and the saturating sum over the filter is the true one or `MaxInt`,
  which is at least the limit. `Finish` adds the sorts and the filter.

*Schema construction.* `SInv` follows the walk of the relationships through the
list of calls still to be made. Two of its parts are about that list alone:
`DescentIsAcyclic`, which is inductive because a call goes deeper only with a
resource that is not among its ancestors, and `Fresh`, by which no call waits
below another one or below a relationship that is in the index already, so that
none is visited twice. `Walked` says, with no violation so far, that each
relationship is `Settled` (fine and indexed) or lies under a call still waiting,
and that the prefix of a call is the dotted name of its parent; together they
leave an index that answers for all when no call is left. `Checked` says for each
phase what the absence of violations has established and, the other way round,
that a well-formed declaration has none. That no violation is lost comes from
the list that keeps the first `MaxErrors` of them, `MaxErrors` being positive
(`FirstFew`). A violation inside a list of declarations is found by the flattened
list of the faults of each (`FlattenEmpty`). `ConfigsAssumption` says what Go's
types make of a declaration: lists are sequences, a forest is finite, and what is
below a relationship is numbered from one.

*Cursor pages.* `BuildPage` is treated as an operator first: its items are the
rows beyond the boundary, in order, up to `Size` of them and with nothing between
(`PickedInOrder`), and its next cursor names the last of them, or there is none
beyond. `WalkInv` then says that the walk so far is in order, ends where the page
in hand ends, and contains every row of `stable` that is not beyond its last
(`Covered`). Inserts and deletes keep this because `stable` only shrinks; a step
forward adds a page that adjoins, so nothing stable lies between; a step back cuts
the walk at a boundary. `PaginationAssumption` asks for finitely many rows whose
identifiers tell them apart, which is the application's promise about its
tie-breaker.

*Ownership.* A cell is named after the object it was made for. `OwnershipInv`
says that an object's cells belong to the object itself or to one the
documentation lets it borrow from, that a kept object owns all of its cells, and
that their content is what it was at birth. A write into a kept object's cells
would need a holder that owns or borrows them, and there is none.

*Canonical forms.* Two plans have one form exactly if they are one plan up to
the repair of their text (`FormsTellApart`), and then they are equally large.
`CInv` follows the suite: every plan so far has the form of the first.
`CanonicalAssumption` says what Go's types make of a plan: its records have these
members and no others. So a page has no tokens; `compile.go:514-515` clears them
when the cursor takes their place.

*Strict JSON.* The validator sees one token at a time; its promise counts brackets
of the whole text. `StrictInv` ties the two together (`Framed`): the stack is as
high as the next token lies deep, and its entry at each depth stands for the
opening token that encloses the next one there, with the names of the members
between. `Due` says that the validator wants a value exactly where the text has
one, and `ReadSoFar` that what was read keeps the limits and repeats no member of
one object. A step moves one token, which changes one count by one; a name that
is seen again is a second member of the object on top of the stack, and a first
one is not, since no closed object of the same depth encloses it.

*Transports.* Every fault leaves a trace in the message (`HttpTrace`,
`RpcTrace`): a name nobody reads, two entries of one name, an empty item among
others. `TransportInv` says that the message has the trace of every fault so far,
because a later fault may move an entry or add to it but takes no trace away. The
exceptions are those of `Rejected`: a null in place of what was malformed,
and members that are all left out. An adapter finds any trace (`HttpRefuses`,
`RpcRefuses`, `ApiRefuses`), whatever else is in the message; so the theorem holds
for any number of faults in any order.

A message nobody has spoilt is as it was written (`AsWritten`), and reading undoes
the writing. In HTTP each component has one parameter of its name, or none (`Tells`),
and the list, sort or page in it is read as what it was written from
(`HttpReadBack`). In JSON-RPC the members are decoded one into what the others left,
a fold; as every name stands there once at most (`Fills`), the fold is the request
(`MembersFold`, `RpcReadBack`). Where names are repeated the fold is followed member
by member, and a component whose last member is null is absent in the end
(`MembersInTurn`, `LastNull`). JSON:API reads the fieldset it is configured for,
whatever other fieldsets the query brings (`BringsFields`). That an accepted
message is read in full follows for messages without a fault from the same
lemmas, and for spoilt ones from what `TransportInv` and the last member of a name
say.

*Typed values.* What was accepted has been written again and found the same
(`KeepsCanonical`); two texts of one value are then what the formatter writes
for it. It holds for any width and any parser.

*Sums, folds and picked lists.* The community modules define them as recursive
functions chosen with `CHOOSE`, so that such a function exists has to be shown
before anything else. The provers cannot instantiate the library's induction
theorems; `CollectionsProofs` argues by the least natural number for which a
claim fails (`LeastNatural`), or by a set of numbers that contains a successor
with every member (`Climb`), and derives from it that a sum over a finite set is
typed and grows by what is added (`SumAdd`, `SumJoins`) and that a picked list
has the elements of the set in the order of the list (`PickedIs`). Flattened
lists, counting and sorted choices are treated in the same way.

Only model-checked:

- `WhereMeansPlan`, `BoundInOrder`, `LikeIsLiteral`, `ReportLeadsToPlaces`: their
  modules read texts back with recursive operators, which TLAPS cannot handle.
- `NothingForged`, `RoundTrip`: they rest on powers of two and the digits of
  base64, which the provers do not know.
- `WalkEnds`, `CancelledCompileReturns`: liveness under fairness is out of the
  prover's reach.

## Disagreements between code and documents

*Replay stores.* `docs/cursor.md:29-33`, `SECURITY.md:73-76` and the comment on `ReplayStore`
(`cursor.go:162-164`) ask a store to consume atomically, honour cancellation,
and bound what it retains by expiry. The codec checks expiry before it calls
the store and never again. Run `codec_expiring_store` shows two decodes that
both pass the check; one is accepted, time passes the expiry, the store forgets
the fingerprint, and the other is accepted too. A store must also refuse
fingerprints that are past their expiry, or keep them for a while longer.
`ConsumedOnce` proves that refusing is sufficient.

Two smaller ones were noticed while modelling. No run is devoted to them; the
models do what the code does, and the properties say what holds of it.

- The comment on `Value.UnmarshalJSON` (`types.go:108-109`) says that duplicate
  members use the last value and that a null payload becomes empty. encoding/json
  leaves a string alone when it meets null (`Values!Decoded`), so a payload
  followed by a null one stays. The earlier text is checked like any other, and
  `NothingForged` holds.
- The comment on `Canonical` (`plan.go:77-78`) calls the form suitable for cache
  keys, signing and equality tests. Invalid UTF-8, which `StringValue` and
  `Compile` let through, is repaired by encoding/json, so a plan with such a text,
  or with a cursor of an application's decoder that has one,
  and one with the repaired text have one form although they select different
  rows. `PassesIffSame` therefore compares plans up to that repair (`Readable`).

## What is not modelled

Bytes: base64, AES-GCM, JSON, SQL text, formatting of values. Panics in
callbacks. Memory visibility of the two mutexes (taken as atomic sections).
`NewCodec`'s and `Rotate`'s checks of ID syntax and secret length (a key of the
model is a valid one). Nil receivers, a nil schema, a nil context. Restarts of
a replay store. Clocks that run behind or jump backwards. The sharing of
`Schema.relationships` below its first level, which nothing reads after
`NewSchema`. Seeks with null positions or mixed directions (the application's).
`AssertViolation` and the `OrderSchema` fixture.

The programs under `src/.verification/` (`verify.go`, `harness.go`), 2,279 of the
repository's lines of Go outside tests, are left out whole: they replay the
recorded evidence of a release by running git and the Go toolchain and comparing
files, once, in sequence. They are no part of the library, and a model of them
would have one behaviour.

## Plan

Every component of the library is modelled. Proved, for every value of the
constants: the safety properties of the codec, the rotation, the query service,
the filter walk, the compile, schema construction, cursor pages, canonical forms,
the ownership of memory, strict JSON and the transports; that accepted values
have one text.

What would come next:

1. `RoundTrip`: the fold over the members of an object is that of `NothingIgnored`;
   what is missing are lemmas about powers of two and the digits of base64.
2. `BoundInOrder`, with the writer of `Postgres` restated over a worklist
   without its reader; `WhereMeansPlan` stays with TLC, as its reader is
   recursive.
3. A model of a replay store that restarts, if the library should one day contain
   one.
