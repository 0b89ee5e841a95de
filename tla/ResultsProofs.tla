---------------------------- MODULE ResultsProofs ---------------------------
(***************************************************************************)
(* What the library hands out.                                             *)
(*                                                                         *)
(* Ownership: nothing the program writes reaches what the library keeps,   *)
(* and objects share what the documentation lends and no more, however     *)
(* often the program writes and in whatever order it calls.  A cell is     *)
(* named after the object it was made for, its owner.  The argument is     *)
(* that an object's cells have the owners its documentation allows, that a *)
(* kept object is the owner of all of its own, and that only a kept object *)
(* has cells it owns.                                                      *)
(*                                                                         *)
(* Canonical forms: the conformance suite passes exactly when all requests *)
(* compile to one plan, for any plans and any number of decoders.          *)
(***************************************************************************)
EXTENDS Ownership, Canonical, TLAPS

-----------------------------------------------------------------------------
\* Ownership.

\* Whose cell a component of an object may be: its own or, where it is borrowed,
\* that of the object it is borrowed from.
Owners(o, c) ==
    {o} \cup (IF o = "request" THEN {"args"} ELSE {})
        \cup (IF o = "request" /\ c \in FilterParts THEN {"query"} ELSE {})
        \cup (IF o = "schemaBuilder" /\ c \in {"operators", "nested"} THEN {"definitions"} ELSE {})
        \cup (IF o = "page" /\ c = "pointees" THEN {"rows"} ELSE {})

Shaped == /\ DOMAIN cell \subseteq Objects /\ DOMAIN born = DOMAIN cell
          /\ \A o \in DOMAIN cell :
                /\ DOMAIN cell[o] \subseteq Components
                /\ born[o] \in [DOMAIN cell[o] -> Nat]
          /\ \A x \in DOMAIN content : x[1] \in DOMAIN cell /\ content[x] \in Nat

Owned == \A o \in DOMAIN cell : \A c \in DOMAIN cell[o] :
             /\ cell[o][c] \in DOMAIN content
             /\ \E w \in Owners(o, c) : cell[o][c] = <<w, c>>

Frozen == \A o \in Kept : o \in DOMAIN cell =>
              \A c \in DOMAIN cell[o] : content[cell[o][c]] = born[o][c]

OwnershipInv == Shaped /\ Owned /\ Frozen

-----------------------------------------------------------------------------
\* A kept object owns all it has, and owns nothing of anybody else's.
LEMMA KeptOwnTheirs ==
    ASSUME NEW o, NEW c, NEW w \in Owners(o, c)
    PROVE  /\ o \in Kept => w = o
           /\ w \in Kept => w = o
  BY DEF Owners, Kept

\* Making an object keeps the invariant if what is borrowed for it may be
\* borrowed: the sources' owners are all allowed to it.
LEMMA MakeKeeps ==
    ASSUME OwnershipInv,
           NEW object \in Kept \cup Made, NEW source, NEW copied, NEW borrowed,
           copied \cup borrowed \subseteq Components,
           object \in Kept => borrowed \subseteq copied,
           \A c \in borrowed \ copied : Owners(source[c], c) \subseteq Owners(object, c),
           Make(object, source, copied, borrowed)
    PROVE  OwnershipInv'
  <1> DEFINE parts == {c \in copied \cup borrowed : c \in Parts(source[c])}
             was(c) == cell[source[c]][c]
             mine == [c \in parts |-> IF c \in copied THEN <<object, c>> ELSE was(c)]
             now == [c \in parts |-> content[was(c)]]
             new == {<<object, c>> : c \in copied \cap parts}
  <1>1. /\ object \notin DOMAIN cell
        /\ cell' = Extended(cell, object, mine)
        /\ content' = [x \in new \cup DOMAIN content |->
                          IF x \in new THEN content[was(x[2])] ELSE content[x]]
        /\ born' = Extended(born, object, now)
    BY DEF Make, Held
  <1>2. \A c \in parts : /\ source[c] \in DOMAIN cell /\ c \in DOMAIN cell[source[c]]
                         /\ c \in Components
                         /\ was(c) \in DOMAIN content /\ content[was(c)] \in Nat
                         /\ \E w \in Owners(source[c], c) : was(c) = <<w, c>>
    BY DEF Parts, Held, OwnershipInv, Owned, Shaped
  <1>3. /\ DOMAIN cell' = DOMAIN cell \cup {object}
        /\ cell'[object] = mine
        /\ \A o \in DOMAIN cell : cell'[o] = cell[o]
    BY <1>1 DEF Extended
  <1>4. /\ DOMAIN born' = DOMAIN cell \cup {object}
        /\ born'[object] = now
        /\ \A o \in DOMAIN cell : born'[o] = born[o]
    BY <1>1 DEF Extended, OwnershipInv, Shaped
  <1>5. \A x \in DOMAIN content : x \notin new
    BY <1>1 DEF OwnershipInv, Shaped
  <1>6. /\ DOMAIN content' = new \cup DOMAIN content
        /\ \A x \in DOMAIN content : content'[x] = content[x]
        /\ \A c \in copied \cap parts : content'[<<object, c>>] = content[was(c)]
    <2>1. /\ DOMAIN content' = new \cup DOMAIN content
          /\ \A x \in DOMAIN content : content'[x] = content[x]
      BY <1>1, <1>5
    <2>2. ASSUME NEW c \in copied \cap parts
          PROVE  content'[<<object, c>>] = content[was(c)]
      <3>1. <<object, c>> \in new /\ <<object, c>>[2] = c
        OBVIOUS
      <3> HIDE DEF new, was
      <3>2. QED  BY <1>1, <3>1
    <2>3. QED  BY <2>1, <2>2
  <1> HIDE DEF new
  <1>7. Shaped'
    <2>1. DOMAIN cell' \subseteq Objects /\ DOMAIN born' = DOMAIN cell'
      BY <1>3, <1>4 DEF OwnershipInv, Shaped, Objects
    <2>2. ASSUME NEW o \in DOMAIN cell'
          PROVE  DOMAIN cell'[o] \subseteq Components /\ born'[o] \in [DOMAIN cell'[o] -> Nat]
      BY <1>2, <1>3, <1>4 DEF OwnershipInv, Shaped
    <2>3. ASSUME NEW x \in DOMAIN content'
          PROVE  x[1] \in DOMAIN cell' /\ content'[x] \in Nat
      BY <1>2, <1>3, <1>6 DEF OwnershipInv, Shaped, new
    <2>4. QED  BY <2>1, <2>2, <2>3 DEF Shaped
  <1>8. Owned'
    <2> SUFFICES ASSUME NEW o \in DOMAIN cell', NEW c \in DOMAIN cell'[o]
                 PROVE  /\ cell'[o][c] \in DOMAIN content'
                        /\ \E w \in Owners(o, c) : cell'[o][c] = <<w, c>>
      BY DEF Owned, Owners
    <2>1. CASE o # object
      BY <2>1, <1>3, <1>6 DEF OwnershipInv, Owned
    <2>2. CASE o = object /\ c \in copied
      <3>1. cell'[o][c] = <<object, c>> /\ c \in copied \cap parts
        BY <2>2, <1>3
      <3>2. QED  BY <2>2, <3>1, <1>6 DEF Owners, new
    <2>3. CASE o = object /\ c \notin copied
      <3>1. cell'[o][c] = was(c) /\ c \in parts /\ c \in borrowed \ copied
        BY <2>3, <1>3
      <3>2. QED  BY <2>3, <3>1, <1>2, <1>6
    <2>4. QED  BY <2>1, <2>2, <2>3
  <1>9. Frozen'
    <2> SUFFICES ASSUME NEW o \in Kept, o \in DOMAIN cell', NEW c \in DOMAIN cell'[o]
                 PROVE  content'[cell'[o][c]] = born'[o][c]
      BY DEF Frozen
    <2>1. CASE o # object
      BY <2>1, <1>3, <1>4, <1>6 DEF OwnershipInv, Owned, Frozen
    <2>2. CASE o = object
      <3>1. c \in copied \cap parts /\ cell'[o][c] = <<object, c>>
        BY <2>2, <1>3
      <3>2. QED  BY <2>2, <3>1, <1>4, <1>6
    <2>3. QED  BY <2>1, <2>2
  <1>10. QED  BY <1>7, <1>8, <1>9 DEF OwnershipInv

\* The program writes into what it holds, and holds nothing a kept object owns.
LEMMA WriteKeeps ==
    ASSUME OwnershipInv, NEW o \in Objects, NEW c \in Components, Write(o, c)
    PROVE  OwnershipInv'
  <1>1. /\ o \notin Kept /\ o \in DOMAIN cell /\ c \in DOMAIN cell[o]
        /\ cell' = cell /\ born' = born
        /\ content' = [content EXCEPT ![cell[o][c]] = @ + 1]
    BY DEF Write, Parts, Held
  <1>2. /\ DOMAIN content' = DOMAIN content
        /\ \A x \in DOMAIN content : x # cell[o][c] => content'[x] = content[x]
        /\ \A x \in DOMAIN content : content'[x] \in Nat
    BY <1>1 DEF OwnershipInv, Shaped
  <1>3. Shaped' /\ Owned'
    BY <1>1, <1>2 DEF OwnershipInv, Shaped, Owned, Owners
  <1>4. Frozen'
    <2> SUFFICES ASSUME NEW k \in Kept, k \in DOMAIN cell, NEW d \in DOMAIN cell[k]
                 PROVE  content'[cell[k][d]] = born[k][d]
      BY <1>1 DEF Frozen
    <2>1. cell[k][d] # cell[o][c]
      <3>1. PICK w \in Owners(o, c) : cell[o][c] = <<w, c>>
        BY <1>1 DEF OwnershipInv, Owned
      <3>2. PICK v \in Owners(k, d) : cell[k][d] = <<v, d>>
        BY DEF OwnershipInv, Owned
      <3>3. QED  BY <1>1, <3>1, <3>2, KeptOwnTheirs
    <2>2. QED  BY <1>2, <2>1 DEF OwnershipInv, Owned, Frozen
  <1>5. QED  BY <1>3, <1>4 DEF OwnershipInv

-----------------------------------------------------------------------------
LEMMA OwnershipInvInit == OwnershipInit => OwnershipInv
  <1> SUFFICES ASSUME NEW program \in Programs,
                      cell = [o \in program |-> [c \in Given[o] |-> <<o, c>>]],
                      content = [x \in UNION {{o} \X Given[o] : o \in program} |-> 0],
                      born = [o \in program |-> [c \in Given[o] |-> 0]]
               PROVE  OwnershipInv
    BY DEF OwnershipInit
  <1>1. /\ program \subseteq DOMAIN Given /\ program \cap Kept = {}
        /\ \A o \in DOMAIN Given : Given[o] \subseteq Components
    <2>1. DOMAIN Given = {"config", "definitions", "args", "params", "query", "options", "state",
                          "mapping", "keys", "collector", "rows"}
      BY DEF Given
    <2>2. program \subseteq DOMAIN Given /\ program \cap Kept = {}
      BY <2>1, Zenon DEF Programs, Kept
    <2>3. ASSUME NEW o \in DOMAIN Given
          PROVE  Given[o] \subseteq Components
      BY <2>1, <2>3 DEF Given, Components, SchemaParts, RequestParts, FilterParts
    <2>4. QED  BY <2>2, <2>3
  <1> HIDE DEF Programs, Given, Kept, Components
  <1>2. \A o \in program, c \in Components :
            c \in Given[o] => <<o, c>> \in DOMAIN content
    OBVIOUS
  <1>3. \A x \in DOMAIN content : x[1] \in program /\ content[x] \in Nat
    OBVIOUS
  <1>4. /\ DOMAIN cell = program /\ DOMAIN born = program
        /\ \A o \in program : /\ DOMAIN cell[o] = Given[o] /\ born[o] \in [Given[o] -> Nat]
                              /\ \A c \in Given[o] : cell[o][c] = <<o, c>> /\ born[o][c] = 0
    OBVIOUS
  <1>5. Shaped
    BY <1>1, <1>3, <1>4 DEF Shaped, Objects
  <1>6. Owned
    <2> SUFFICES ASSUME NEW o \in program, NEW c \in Given[o]
                 PROVE  cell[o][c] \in DOMAIN content /\ \E w \in Owners(o, c) : cell[o][c] = <<w, c>>
      BY <1>4 DEF Owned
    <2>1. cell[o][c] = <<o, c>> /\ c \in Components
      BY <1>1, <1>4
    <2>2. o \in Owners(o, c)
      BY DEF Owners
    <2>3. QED  BY <1>2, <2>1, <2>2
  <1>7. Frozen
    BY <1>1, <1>4 DEF Frozen
  <1>8. QED  BY <1>5, <1>6, <1>7 DEF OwnershipInv

\* Every call copies what a kept object gets, and lends only what it may.
LEMMA CallKeeps == OwnershipInv /\ Calls => OwnershipInv'
  <1> SUFFICES ASSUME OwnershipInv, Calls
               PROVE  OwnershipInv'
    OBVIOUS
  <1> USE DEF Kept, Made, Components, SchemaParts, FilterParts, RequestParts, PlanParts, From,
          Owners
  <1>1. CASE NewSchema
    BY <1>1, MakeKeeps DEF NewSchema, SchemaCopies, cloneFilters, cloneRelationship
  <1>2. CASE BuildSchema
    BY <1>2, MakeKeeps DEF BuildSchema
  <1>3. CASE SetRequest
    BY <1>3, MakeKeeps DEF SetRequest
  <1>4. CASE Build
    BY <1>4, MakeKeeps DEF Build, BuildCopies, testCloneFilter
  <1>5. CASE Present
    BY <1>5, MakeKeeps DEF Present
  <1>6. CASE ParamsRequest
    BY <1>6, MakeKeeps DEF ParamsRequest, rpcCloneFilter
  <1>7. CASE FromQuery
    BY <1>7, MakeKeeps DEF FromQuery
  <1>8. CASE DecodeFamily
    BY <1>8, MakeKeeps DEF DecodeFamily, cloneFamily
  <1>9. CASE Compile
    BY <1>9, MakeKeeps DEF Compile, PlanCopies, cloneFilter
  <1>10. CASE DecodeCursor
    BY <1>10, MakeKeeps DEF DecodeCursor, HandedCopies
  <1>11. CASE Read
    BY <1>11, MakeKeeps DEF Read, Accessors, cloneFilter
  <1>12. CASE NewCompiler
    BY <1>12, MakeKeeps DEF NewCompiler, cloneMap
  <1>13. CASE Rotate \/ ActiveKey
    BY <1>13, MakeKeeps DEF Rotate, ActiveKey
  <1>14. CASE Err \/ Items
    BY <1>14, MakeKeeps DEF Err, Items
  <1>15. CASE BuildPage
    BY <1>15, MakeKeeps DEF BuildPage
  <1>16. QED
    BY <1>1, <1>2, <1>3, <1>4, <1>5, <1>6, <1>7, <1>8, <1>9, <1>10, <1>11, <1>12, <1>13,
       <1>14, <1>15 DEF Calls

LEMMA OwnershipInvStep == OwnershipInv /\ [OwnershipNext]_ovars => OwnershipInv'
  <1>1. OwnershipInv /\ UNCHANGED ovars => OwnershipInv'
    BY DEF OwnershipInv, Shaped, Owned, Frozen, ovars, Owners
  <1>2. QED  BY <1>1, CallKeeps, WriteKeeps DEF OwnershipNext

LEMMA OwnershipInvariant == OwnershipSpec => []OwnershipInv
  BY OwnershipInvInit, OwnershipInvStep, PTL DEF OwnershipSpec

-----------------------------------------------------------------------------
\* What the library keeps is as it was made, whatever the program writes, and
\* however often, into anything it holds: NewSchema, Compile, Rotate, NewCompiler,
\* Err and the request builder copy all they keep, and their accessors hand out
\* copies (src/schema.go:175, src/compile.go:72, src/cursor/cursor.go:94,
\* src/adapters/postgres/postgres.go:48, src/errors.go:58).
THEOREM NothingKeptChanges == OwnershipSpec => []KeptFrozen
  <1>1. OwnershipInv => KeptFrozen
    <2> SUFFICES ASSUME OwnershipInv, NEW o \in Kept, Held(o)
                 PROVE  Now(o) = born[o]
      BY DEF KeptFrozen
    <2>1. /\ Parts(o) = DOMAIN cell[o]
          /\ born[o] = [c \in DOMAIN cell[o] |-> born[o][c]]
          /\ \A c \in DOMAIN cell[o] : content[cell[o][c]] = born[o][c]
      BY DEF OwnershipInv, Shaped, Frozen, Held, Parts
    <2>2. QED  BY <2>1 DEF Now
  <1>2. QED  BY <1>1, OwnershipInvariant, PTL

\* Two objects that share a component have one owner for it; only three kinds of
\* object have a component they do not own, and each borrows from objects that
\* own theirs, so one of the two is the borrower and the other the lender
\* (src/types.go:170-178, src/adapters/jsonapi/jsonapi.go:41-42,
\* src/apiquerytest/apiquerytest.go:18-19, src/cursor/page.go:21, 32).
THEOREM SharingIsDocumented == OwnershipSpec => []SharedOnlyAsDocumented
  <1>1. OwnershipInv => SharedOnlyAsDocumented
    <2> SUFFICES ASSUME OwnershipInv, NEW o \in DOMAIN cell, NEW p \in DOMAIN cell, o # p,
                        NEW c \in Parts(o) \cap Parts(p), cell[o][c] = cell[p][c]
                 PROVE  \/ {o, p} = {"request", "args"}
                        \/ {o, p} = {"request", "query"} /\ c \in FilterParts
                        \/ {o, p} = {"schemaBuilder", "definitions"} /\ c \in {"operators", "nested"}
                        \/ {o, p} = {"page", "rows"} /\ c = "pointees"
      BY DEF SharedOnlyAsDocumented
    <2>1. PICK w \in Owners(o, c) : cell[o][c] = <<w, c>>
      BY DEF OwnershipInv, Owned, Parts, Held
    <2>2. PICK v \in Owners(p, c) : cell[p][c] = <<v, c>>
      BY DEF OwnershipInv, Owned, Parts, Held
    <2>3. w = v
      <3>1. <<w, c>> = <<v, c>>
        BY <2>1, <2>2
      <3>2. QED  BY <3>1
    <2>4. QED  BY <2>1, <2>2, <2>3 DEF Owners, FilterParts
  <1>2. QED  BY <1>1, OwnershipInvariant, PTL

-----------------------------------------------------------------------------
\* Canonical forms.

\* A plan up to the repair of its text, member by member.
LEMMA ReadableIs ==
    ASSUME NEW p \in Plans
    PROVE  Readable(p) = [fields |-> p.fields, sorts |-> p.sorts, cost |-> p.cost,
                          filter |-> Readings(p.filter), constraints |-> Texts(p.constraints),
                          page |-> p.page, cursor |-> Digest(p.cursor)]
<1> DEFINE repaired == Repaired(p.cursor)
           filter == Readings(p.filter)
           constraints == Texts(p.constraints)
           r == Readable(p)
<1>1. DOMAIN p = {"fields", "sorts", "cost", "filter", "constraints", "page", "cursor"}
  <2>1. p = [fields |-> p.fields, sorts |-> p.sorts, cost |-> p.cost, filter |-> p.filter,
             constraints |-> p.constraints, page |-> p.page, cursor |-> p.cursor]
      BY CanonicalAssumption
  <2> QED BY <2>1
<1>2. repaired = Digest(p.cursor)
  <2>1. ASSUME NEW i \in DOMAIN p.cursor PROVE IsCursor(p.cursor[i])
    <3>1. p.cursor = <<>> \/ \E c \in Range(p.cursor) : p.cursor = <<c>> /\ IsCursor(c)
        BY CanonicalAssumption
    <3>2. PICK c : p.cursor = <<c>> /\ IsCursor(c)
        BY <2>1, <3>1
    <3> QED BY <2>1, <3>2
  <2>2. ASSUME NEW i \in DOMAIN p.cursor
        PROVE  [p.cursor[i] EXCEPT !.positions = Texts(@), !.policy = Utf8(@)] =
               [direction |-> p.cursor[i].direction, positions |-> Texts(p.cursor[i].positions),
                policy |-> Utf8(p.cursor[i].policy)]
    <3> DEFINE c == p.cursor[i]
               positions == Texts(c.positions)
               policy == Utf8(c.policy)
               d == [c EXCEPT !.positions = positions, !.policy = policy]
    <3>1. c = [direction |-> c.direction, positions |-> c.positions, policy |-> c.policy]
        BY <2>1 DEF IsCursor
    <3>2. DOMAIN c = {"direction", "positions", "policy"}
        BY <3>1
    <3> HIDE DEF c, positions, policy
    <3>3. /\ DOMAIN d = {"direction", "positions", "policy"}
          /\ d.direction = c.direction /\ d.positions = positions /\ d.policy = policy
        BY <3>2
    <3>6. d = [c EXCEPT !.positions = positions, !.policy = policy]
        OBVIOUS
    <3> HIDE DEF d
    <3>4. d = [direction |-> d.direction, positions |-> d.positions, policy |-> d.policy]
        BY <3>2, <3>6
    <3>5. d = [direction |-> c.direction, positions |-> positions, policy |-> policy]
        BY <3>3, <3>4
    <3> QED BY <3>5 DEF c, d, positions, policy
  <2> QED BY <2>2 DEF Digest, Repaired
<1>3. r = [p EXCEPT !.constraints = constraints, !.filter = filter, !.cursor = repaired]
    BY DEF Readable
<1> HIDE DEF repaired, filter, constraints, r
<1>4. DOMAIN r = {"fields", "sorts", "cost", "filter", "constraints", "page", "cursor"}
    BY <1>1, <1>3
<1>5. /\ r.fields = p.fields /\ r.sorts = p.sorts /\ r.cost = p.cost /\ r.page = p.page
      /\ r.filter = filter /\ r.constraints = constraints /\ r.cursor = repaired
    BY <1>1, <1>3
<1>6. r = [fields |-> r.fields, sorts |-> r.sorts, cost |-> r.cost, filter |-> r.filter,
           constraints |-> r.constraints, page |-> r.page, cursor |-> r.cursor]
    BY <1>1, <1>3
<1> QED BY <1>2, <1>5, <1>6 DEF filter, constraints, r

LEMMA EncodedIs ==
    ASSUME NEW p \in Plans
    PROVE  Encoded(p) = [fields |-> p.fields, sorts |-> p.sorts, cost |-> p.cost,
                         filter |-> Readings(p.filter), constraints |-> Texts(p.constraints),
                         page |-> [mode |-> p.page.mode, size |-> p.page.size,
                                   offset |-> p.page.offset, digest |-> Digest(p.cursor)]]
BY DEF Encoded, canonicalizePage

\* Nothing in which two plans differ is left out of the form.
LEMMA FormsTellApart ==
    ASSUME NEW p \in Plans, NEW q \in Plans
    PROVE  Encoded(p) = Encoded(q) <=> Readable(p) = Readable(q)
<1>1. /\ p.page = [mode |-> p.page.mode, size |-> p.page.size, offset |-> p.page.offset]
      /\ q.page = [mode |-> q.page.mode, size |-> q.page.size, offset |-> q.page.offset]
    BY CanonicalAssumption
<1>2. ASSUME Encoded(p) = Encoded(q) PROVE Readable(p) = Readable(q)
  <2>1. /\ Encoded(p).fields = Encoded(q).fields /\ Encoded(p).sorts = Encoded(q).sorts
        /\ Encoded(p).cost = Encoded(q).cost /\ Encoded(p).filter = Encoded(q).filter
        /\ Encoded(p).constraints = Encoded(q).constraints
        /\ Encoded(p).page.mode = Encoded(q).page.mode
        /\ Encoded(p).page.size = Encoded(q).page.size
        /\ Encoded(p).page.offset = Encoded(q).page.offset
        /\ Encoded(p).page.digest = Encoded(q).page.digest
      BY <1>2
  <2>2. /\ p.fields = q.fields /\ p.sorts = q.sorts /\ p.cost = q.cost
        /\ Readings(p.filter) = Readings(q.filter)
        /\ Texts(p.constraints) = Texts(q.constraints)
      BY <2>1, EncodedIs
  <2>3. /\ p.page.mode = q.page.mode /\ p.page.size = q.page.size
        /\ p.page.offset = q.page.offset /\ Digest(p.cursor) = Digest(q.cursor)
      BY <2>1, EncodedIs
  <2> QED BY <1>1, <2>2, <2>3, ReadableIs
<1>3. ASSUME Readable(p) = Readable(q) PROVE Encoded(p) = Encoded(q)
  <2>1. /\ Readable(p).fields = Readable(q).fields /\ Readable(p).sorts = Readable(q).sorts
        /\ Readable(p).cost = Readable(q).cost /\ Readable(p).filter = Readable(q).filter
        /\ Readable(p).constraints = Readable(q).constraints
        /\ Readable(p).page = Readable(q).page /\ Readable(p).cursor = Readable(q).cursor
      BY <1>3
  <2>2. /\ p.fields = q.fields /\ p.sorts = q.sorts /\ p.cost = q.cost
        /\ Readings(p.filter) = Readings(q.filter)
        /\ Texts(p.constraints) = Texts(q.constraints)
        /\ p.page = q.page /\ Digest(p.cursor) = Digest(q.cursor)
      BY <2>1, ReadableIs
  <2> QED BY <2>2, EncodedIs
<1> QED BY <1>2, <1>3

\* Plans with one form are equally large, since repairs keep the length of a list.
LEMMA SameSize ==
    ASSUME NEW p \in Plans, NEW q \in Plans, Readable(p) = Readable(q)
    PROVE  Size(p) = Size(q)
<1>1. /\ Readable(p).fields = Readable(q).fields /\ Readable(p).sorts = Readable(q).sorts
      /\ Readable(p).constraints = Readable(q).constraints
    OBVIOUS
<1>2. p.fields = q.fields /\ p.sorts = q.sorts /\ Texts(p.constraints) = Texts(q.constraints)
    BY <1>1, ReadableIs
<1>3. DOMAIN p.constraints = DOMAIN q.constraints
    BY <1>2 DEF Texts
<1>4. /\ p.constraints \in Seq(Range(p.constraints)) /\ q.constraints \in Seq(Range(q.constraints))
    BY CanonicalAssumption DEF IsList
<1>5. Len(p.constraints) = Len(q.constraints)
    BY <1>3, <1>4
<1> QED BY <1>2, <1>5 DEF Size

LEMMA EqualIs ==
    ASSUME NEW p \in Plans, NEW q \in Plans
    PROVE  CanonicalEqual(p, q) <=> /\ Readable(p) = Readable(q)
                                    /\ ~(Size(p) > MaxCanonical) /\ ~(Size(q) > MaxCanonical)
<1>1. <<Encoded(p)>> # <<>> /\ <<Encoded(q)>> # <<>>
    OBVIOUS
<1>2. <<Encoded(p)>> = <<Encoded(q)>> <=> Encoded(p) = Encoded(q)
    OBVIOUS
<1> QED BY <1>1, <1>2, FormsTellApart, SameSize DEF CanonicalEqual, CanonicalOf

-----------------------------------------------------------------------------
\* The suite.

CTyped ==
    /\ plans \in [1..Decoders -> {<<>>} \cup {<<p>> : p \in Plans}]
    /\ turn \in 1..(Decoders + 1) /\ verdict \in {"running", "passed", "failed"}

\* The plans so far are the first one; a verdict is for good.
Compared ==
    /\ baseline = <<>> => turn = 1
    /\ baseline # <<>> => turn > 1 /\ baseline = plans[1]
    /\ \A i \in 1..(turn - 1) : plans[i] # <<>>
    /\ \A i \in 2..(turn - 1) : CanonicalEqual(plans[1][1], plans[i][1])
    /\ verdict = "passed" => turn > Decoders
    /\ verdict = "failed" => ~(Same /\ Whole)

CInv == CTyped /\ Compared

LEMMA PlanOf ==
    ASSUME CTyped, NEW i \in 1..Decoders, plans[i] # <<>>
    PROVE  plans[i][1] \in Plans /\ plans[i] = <<plans[i][1]>>
BY DEF CTyped

LEMMA CInvInit == CanonicalInit => CInv
<1> SUFFICES ASSUME CanonicalInit PROVE CInv
    OBVIOUS
<1> QED BY CanonicalAssumption DEF CanonicalInit, CInv, CTyped, Compared

LEMMA CInvNext == CInv /\ [CanonicalNext]_canonVars => CInv'
<1> SUFFICES ASSUME CInv, [CanonicalNext]_canonVars PROVE CInv'
    OBVIOUS
<1>d. Decoders \in Nat \ {0}
    BY CanonicalAssumption
<1>1. CASE UNCHANGED canonVars
  <2>1. (Same' <=> Same) /\ (Whole' <=> Whole)
      BY <1>1 DEF canonVars, Same, Whole
  <2> QED BY <1>1, <2>1 DEF CInv, CTyped, Compared, canonVars
<1>2. CASE DecoderFails
  <2>1. turn \in 1..Decoders /\ plans' = plans /\ plans[turn] = <<>>
      BY <1>2, <1>d DEF DecoderFails, CInv, CTyped
  <2>2. ~Whole'
      BY <2>1 DEF Whole
  <2> QED BY <1>2, <2>1, <2>2 DEF DecoderFails, CInv, CTyped, Compared
<1>3. CASE Baseline
  <2>1. /\ turn = 1 /\ turn' = 2 /\ baseline' = plans[1] /\ plans[1] # <<>> /\ plans' = plans
        /\ verdict' = verdict /\ verdict = "running"
      BY <1>3 DEF Baseline, CInv, Compared
  <2>2. turn' \in 1..(Decoders + 1)
      BY <1>d, <2>1
  <2> QED BY <2>1, <2>2 DEF CInv, CTyped, Compared
<1>4. CASE Compare
  <2> DEFINE first == plans[1][1]
             this == plans[turn][1]
  <2>1. /\ turn \in 2..Decoders /\ plans[turn] # <<>> /\ baseline = plans[1] /\ plans[1] # <<>>
        /\ baseline' = baseline /\ plans' = plans /\ verdict = "running"
        /\ CanonicalEqual(baseline[1], plans[turn][1]) <=> CanonicalEqual(first, this)
      BY <1>4, <1>d DEF Compare, CInv, CTyped, Compared
  <2>2. CASE CanonicalEqual(first, this)
    <3>1. turn' = turn + 1 /\ verdict' = verdict
        BY <1>4, <2>1, <2>2 DEF Compare
    <3> HIDE DEF first, this
    <3>2. \A i \in 2..((turn + 1) - 1) : CanonicalEqual(plans[1][1], plans[i][1])
        BY <2>1, <2>2 DEF CInv, Compared, first, this
    <3>3. \A i \in 1..((turn + 1) - 1) : plans[i] # <<>>
        BY <2>1 DEF CInv, Compared
    <3> QED BY <1>d, <2>1, <3>1, <3>2, <3>3 DEF CInv, CTyped, Compared
  <2>3. CASE ~CanonicalEqual(first, this)
    <3>1. turn' = turn /\ verdict' = "failed"
        BY <1>4, <2>1, <2>3 DEF Compare
    <3>2. first \in Plans /\ this \in Plans
        BY <1>d, <2>1, PlanOf DEF CInv
    <3>3. \/ Readable(first) # Readable(this)
          \/ Size(first) > MaxCanonical \/ Size(this) > MaxCanonical
        BY <2>3, <3>2, EqualIs
    <3>4. 1 \in 1..Decoders /\ turn \in 1..Decoders
        BY <1>d, <2>1
    <3>5. ASSUME Same, Whole PROVE FALSE
      <4>1. Readable(first) = Readable(this)
          BY <2>1, <3>4, <3>5 DEF Same
      <4>2. Size(first) <= MaxCanonical /\ Size(this) <= MaxCanonical
          BY <3>4, <3>5 DEF Whole
      <4>3. Size(first) \in Int /\ Size(this) \in Int /\ MaxCanonical \in Int
          BY <3>2, CanonicalAssumption DEF Size, IsList
      <4> HIDE DEF first, this
      <4> QED BY <3>3, <4>1, <4>2, <4>3
    <3>6. ~(Same /\ Whole)'
        BY <2>1, <3>5 DEF Same, Whole
    <3> QED BY <2>1, <3>1, <3>6 DEF CInv, CTyped, Compared
  <2> QED BY <2>2, <2>3
<1>5. CASE Done
  <2> QED BY <1>5 DEF Done, CInv, CTyped, Compared
<1> QED BY <1>1, <1>2, <1>3, <1>4, <1>5 DEF CanonicalNext

\* The comparisons are with the first plan only, and a verdict never changes.
THEOREM SuiteInvariant == CanonicalSpec => []CInv
<1> QED BY CInvInit, CInvNext, PTL DEF CanonicalSpec

\* Every conformance run that passes has shown one plan, and one that fails has
\* met a fault or a difference (src/plan.go:82-120,
\* src/apiquerytest/apiquerytest.go:170-203).
THEOREM PassesExactlyIfSame == CanonicalSpec => []PassesIffSame
<1>1. CInv => PassesIffSame
  <2> SUFFICES ASSUME CInv, verdict = "passed"
               PROVE  Same /\ plans[1] # <<>> /\ (Decoders > 1 => Whole)
      BY DEF PassesIffSame, CInv, Compared
  <2>1. Decoders \in Nat \ {0} /\ turn = Decoders + 1
      BY CanonicalAssumption DEF CInv, CTyped, Compared
  <2>2. \A i \in 1..Decoders : plans[i] # <<>> /\ plans[i][1] \in Plans
      BY <2>1, PlanOf DEF CInv, Compared
  <2>3. \A i \in 2..Decoders : CanonicalEqual(plans[1][1], plans[i][1])
      BY <2>1 DEF CInv, Compared
  <2>4. 1 \in 1..Decoders
      BY <2>1
  <2>5. \A i \in 2..Decoders : /\ Readable(plans[1][1]) = Readable(plans[i][1])
                               /\ ~(Size(plans[1][1]) > MaxCanonical)
                               /\ ~(Size(plans[i][1]) > MaxCanonical)
      BY <2>1, <2>2, <2>3, <2>4, EqualIs
  <2>6. \A i \in 1..Decoders : Readable(plans[i][1]) = Readable(plans[1][1])
      BY <2>1, <2>5
  <2>7. Same
      BY <2>6 DEF Same
  <2>8. ASSUME Decoders > 1, NEW i \in 1..Decoders PROVE Size(plans[i][1]) <= MaxCanonical
    <3>1. ~(Size(plans[i][1]) > MaxCanonical)
        BY <2>1, <2>5, <2>8
    <3>2. Size(plans[i][1]) \in Int /\ MaxCanonical \in Int
        BY <2>2, CanonicalAssumption DEF Size, IsList
    <3> QED BY <3>1, <3>2
  <2> QED BY <2>2, <2>4, <2>7, <2>8 DEF Whole
<1> QED BY <1>1, SuiteInvariant, PTL
=============================================================================
