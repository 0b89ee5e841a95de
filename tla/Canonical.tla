------------------------------ MODULE Canonical -----------------------------
(***************************************************************************)
(* The canonical form of a plan (src/plan.go:77-120), as the conformance   *)
(* suite uses it (src/apiquerytest/apiquerytest.go:145-203): every         *)
(* transport's decoder gives a request, each is compiled, and each plan's  *)
(* form is compared with the first one's.                                  *)
(*                                                                         *)
(* A form is the members of the JSON object, one after another.  Names and *)
(* numbers encode as they are; text is repaired where it is not UTF-8      *)
(* ("bad" becomes "repaired"), and the cursor is digested, without         *)
(* collisions.                                                             *)
(***************************************************************************)
EXTENDS Naturals, Sequences, FiniteSets, SequencesExt

CONSTANTS
    Plans,         \* plans that a decoder's request may compile to
    Decoders,      \* their number
    MaxCanonical   \* the schema's limit, in list elements

\* What Go's types make of every plan: its lists are sequences, its records have
\* these members and no others, and there is one cursor or none.
IsList(x) == x \in Seq(Range(x))
IsCursor(c) ==
    c = [direction |-> c.direction, positions |-> c.positions, policy |-> c.policy]

ASSUME CanonicalAssumption ==
    /\ Decoders \in Nat \ {0} /\ MaxCanonical \in Nat
    /\ \A p \in Plans :
          /\ p = [fields |-> p.fields, sorts |-> p.sorts, cost |-> p.cost, filter |-> p.filter,
                  constraints |-> p.constraints, page |-> p.page, cursor |-> p.cursor]
          /\ p.page = [mode |-> p.page.mode, size |-> p.page.size, offset |-> p.page.offset]
          /\ IsList(p.fields) /\ IsList(p.sorts) /\ IsList(p.constraints) /\ IsList(p.filter)
          /\ \A predicate \in Range(p.filter) : IsList(predicate)
          /\ p.cursor = <<>> \/ \E c \in Range(p.cursor) :
                p.cursor = <<c>> /\ IsCursor(c) /\ IsList(c.positions)

VARIABLES
    plans,         \* per decoder, <<>> where it or the compile fails
    turn,          \* the decoder whose turn it is
    baseline,      \* <<the first plan>>
    verdict        \* "running", "passed" or "failed"

canonVars == <<plans, turn, baseline, verdict>>

-----------------------------------------------------------------------------
Utf8(text) == IF text = "bad" THEN "repaired" ELSE text
Texts(values) == [i \in DOMAIN values |-> Utf8(values[i])]
Readings(filter) == [i \in DOMAIN filter |-> Texts(filter[i])]

\* A digest, or <<>> without a cursor.
Undigested(cursor) == <<>>                                      \* mutant
Digest(cursor) == [i \in DOMAIN cursor |->
    [direction |-> cursor[i].direction, positions |-> Texts(cursor[i].positions),
     policy |-> Utf8(cursor[i].policy)]]

\* The tokens of the page are not part of it: an accepted one is a cursor by now.
canonicalizePage(page, cursor) ==
    [mode |-> page.mode, size |-> page.size, offset |-> page.offset,
     digest |-> Digest(cursor)]

Encoded(plan) ==
    [fields |-> plan.fields, sorts |-> plan.sorts, cost |-> plan.cost,
     filter |-> Readings(plan.filter),
     constraints |-> Texts(plan.constraints),
     page |-> canonicalizePage(plan.page, plan.cursor)]

Size(plan) == Len(plan.fields) + Len(plan.sorts) + Len(plan.constraints)

\* Canonical: <<form>>, or <<>> when it is too large.
CanonicalOf(plan) == IF Size(plan) > MaxCanonical THEN <<>> ELSE <<Encoded(plan)>>

\* AssertCanonicalEqual: two failures are not equal.
CanonicalEqual(left, right) ==
    CanonicalOf(left) # <<>> /\ CanonicalOf(left) = CanonicalOf(right)

-----------------------------------------------------------------------------
CanonicalInit ==
    /\ plans \in [1..Decoders -> {<<>>} \cup {<<p>> : p \in Plans}]
    /\ turn = 1 /\ baseline = <<>> /\ verdict = "running"

\* The test ends at the first failure.
DecoderFails ==
    /\ verdict = "running" /\ turn <= Decoders /\ plans[turn] = <<>>
    /\ verdict' = "failed" /\ UNCHANGED <<plans, turn, baseline>>

Baseline ==
    /\ verdict = "running" /\ turn <= Decoders /\ plans[turn] # <<>> /\ baseline = <<>>
    /\ baseline' = plans[turn] /\ turn' = turn + 1 /\ UNCHANGED <<plans, verdict>>

Compare ==
    /\ verdict = "running" /\ turn <= Decoders /\ plans[turn] # <<>> /\ baseline # <<>>
    /\ IF CanonicalEqual(baseline[1], plans[turn][1])
       THEN turn' = turn + 1 /\ UNCHANGED verdict
       ELSE verdict' = "failed" /\ UNCHANGED turn
    /\ UNCHANGED <<plans, baseline>>

Done ==
    /\ verdict = "running" /\ turn > Decoders
    /\ verdict' = "passed" /\ UNCHANGED <<plans, turn, baseline>>

CanonicalNext == DecoderFails \/ Baseline \/ Compare \/ Done

CanonicalSpec == CanonicalInit /\ [][CanonicalNext]_canonVars

-----------------------------------------------------------------------------
\* One plan, up to text that is not UTF-8, which JSON cannot tell from its repair.
Repaired(cursor) == [i \in DOMAIN cursor |->
    [cursor[i] EXCEPT !.positions = Texts(@), !.policy = Utf8(@)]]
Readable(p) == [p EXCEPT !.constraints = Texts(@), !.filter = Readings(@),
                         !.cursor = Repaired(@)]
Same  == \A i, j \in 1..Decoders : plans[i] # <<>> /\ plans[j] # <<>> =>
            Readable(plans[i][1]) = Readable(plans[j][1])
Whole == \A i \in 1..Decoders : plans[i] # <<>> /\ Size(plans[i][1]) <= MaxCanonical

\* The suite passes exactly when every decoder's request compiles to the same
\* plan and the plan has a canonical form: nothing two plans differ in is left
\* out of the form, the cursor that only its digest stands for included.  A
\* single decoder is compared with nothing (src/plan.go:82-120,
\* src/apiquerytest/apiquerytest.go:170-203).
PassesIffSame ==
    /\ verdict = "passed" => Same /\ plans[1] # <<>> /\ (Decoders > 1 => Whole)
    /\ verdict = "failed" => ~(Same /\ Whole)
=============================================================================
