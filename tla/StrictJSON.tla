----------------------------- MODULE StrictJSON -----------------------------
(***************************************************************************)
(* strictjson.Decode: how the HTTP and JSON-RPC adapters read JSON         *)
(* (src/internal/strictjson/strictjson.go).  encoding/json is external: it *)
(* gives the validator one token after the other, an error where a text    *)
(* breaks off, and decodes the target in a pass of its own.                *)
(* The recursion of validateValue is a stack of the values it is inside.   *)
(***************************************************************************)
EXTENDS Naturals, Sequences, FiniteSets, SequencesExt

CONSTANTS
    Texts,          \* sequences of tokens: values, cut short or followed by more
    Sizes,          \* [bytes, limit]
    MaxDepth

\* Tokens: <<"{">>, <<"}">>, <<"[">>, <<"]">>, <<"scalar">>, <<"member", name>>.
Opening == {"{", "["}
Closing == {"}", "]"}
Kind(t, i) == t[i][1]
IsValue(t, i) == Kind(t, i) \notin Closing \cup {"member"}

\* How deep a token lies, and the object or array it lies in.
Count(t, kinds, n) == Cardinality({i \in 1..n : Kind(t, i) \in kinds})
Level(t, i) == Count(t, Opening, i - 1) - Count(t, Closing, i - 1)
Holds(t, k, i) == /\ k < i /\ Kind(t, k) \in Opening /\ Level(t, i) = Level(t, k) + 1
                  /\ \A m \in (k + 1)..i : Level(t, m) > Level(t, k)

\* What encoding/json makes of any text: nothing is closed that is not open, and
\* the tokens of an object are members and values in turn.
IsTokens(t) ==
    /\ t \in Seq(Range(t))
    /\ \A i \in DOMAIN t :
          /\ Level(t, i + 1) >= 0
          /\ t[i] \in {<<k>> : k \in Opening \cup Closing \cup {"scalar"}} \/ t[i] = <<"member", t[i][2]>>
          /\ Kind(t, i) = "member" =>
                /\ \E k \in 1..(i - 1) : Holds(t, k, i)
                /\ i + 1 \in DOMAIN t => IsValue(t, i + 1)
          /\ \A k \in 1..(i - 1) : Holds(t, k, i) =>
                /\ Kind(t, i) = "member" => Kind(t, k) = "{"
                /\ Kind(t, k) = "{" /\ IsValue(t, i) => Kind(t, i - 1) = "member"

ASSUME StrictAssumption ==
    /\ MaxDepth \in Nat \ {0} /\ \A t \in Texts : IsTokens(t)
    /\ \A s \in Sizes : s.bytes \in Nat /\ s.limit \in Nat

VARIABLES
    text, size,
    next,           \* the position of the validator's decoder
    stack,          \* the objects and arrays validateValue is inside, innermost last
    wants,          \* a value is due: at the root, in an array, after a member's name
    target,         \* what has been done to the caller's target
    result

jvars == <<text, size, next, stack, wants, target, result>>

Here    == Kind(text, next)
AtEnd   == next > Len(text)
Inside  == [kind |-> Here, seen |-> {}]

JInit ==
    /\ text \in Texts /\ size \in Sizes
    /\ next = 1 /\ stack = <<>> /\ wants = TRUE
    /\ target = "untouched" /\ result = "size"

Fails == result' = "error" /\ UNCHANGED <<next, stack, wants, target>>

-----------------------------------------------------------------------------
CheckSize ==
    /\ result = "size"
    /\ IF size.bytes = 0 \/ size.bytes > size.limit THEN Fails
       ELSE result' = "validating" /\ UNCHANGED <<next, stack, wants, target>>
    /\ UNCHANGED <<text, size>>

Depth == Len(stack) + 1

\* decoder.More(): neither the end of the text nor of the value it is in.
More == ~AtEnd /\ Here \notin Closing

\* validateValue up to the first token of what the value contains.
Value ==
    /\ result = "validating" /\ wants
    /\ IF Depth > MaxDepth \/ AtEnd THEN Fails
       ELSE /\ stack' = IF Here \in Opening THEN Append(stack, Inside) ELSE stack
            /\ wants' = FALSE /\ next' = next + 1
            /\ UNCHANGED <<target, result>>
    /\ UNCHANGED <<text, size>>

SeenAnywhere(name) == \E i \in DOMAIN stack : name \in stack[i].seen \* mutant
Seen(name) == name \in Last(stack).seen

Member ==
    LET name == text[next][2] IN
    /\ result = "validating" /\ ~wants /\ stack # <<>>
    /\ Last(stack).kind = "{" /\ More
    /\ IF Seen(name) THEN Fails
       ELSE /\ stack' = [stack EXCEPT ![Len(stack)].seen = @ \cup {name}]
            /\ wants' = TRUE /\ next' = next + 1
            /\ UNCHANGED <<target, result>>
    /\ UNCHANGED <<text, size>>

Item ==
    /\ result = "validating" /\ ~wants /\ stack # <<>>
    /\ Last(stack).kind = "[" /\ More
    /\ wants' = TRUE
    /\ UNCHANGED <<text, size, next, stack, target, result>>

Close ==
    /\ result = "validating" /\ ~wants /\ stack # <<>> /\ ~More
    /\ IF AtEnd THEN Fails
       ELSE /\ stack' = Front(stack) /\ next' = next + 1
            /\ UNCHANGED <<wants, target, result>>
    /\ UNCHANGED <<text, size>>

\* requireEnd, before the target is touched.
End ==
    /\ result = "validating" /\ ~wants /\ stack = <<>>
    /\ IF ~AtEnd THEN Fails
       ELSE result' = "decoding" /\ UNCHANGED <<next, stack, wants, target>>
    /\ UNCHANGED <<text, size>>

\* The second pass may fail on an unknown or ill-typed member, part way.
Decode ==
    /\ result = "decoding"
    /\ \/ target' = "decoded" /\ result' = "ok"
       \/ target' = "partial" /\ result' = "error"
    /\ UNCHANGED <<text, size, next, stack, wants>>

JNext == CheckSize \/ Value \/ Member \/ Item \/ Close \/ End \/ Decode
JSpec == JInit /\ [][JNext]_jvars

-----------------------------------------------------------------------------
\* The same, said of the text as a whole: how deep a token lies, which members
\* belong to one object, where the first value ends.

SameObject(t, i, j) == /\ Level(t, i) = Level(t, j)
                       /\ \A k \in i..j : Level(t, k) >= Level(t, i)

OneValue == /\ Len(text) > 0 /\ Count(text, Opening, Len(text)) = Count(text, Closing, Len(text))
            /\ Cardinality({i \in DOMAIN text : Level(text, i) = 0 /\ IsValue(text, i)}) = 1
Shallow  == \A i \in DOMAIN text : IsValue(text, i) => Level(text, i) < MaxDepth
Unique   == \A i, j \in DOMAIN text :
                i < j /\ Kind(text, i) = "member" /\ text[i] = text[j] => ~SameObject(text, i, j)
Strict   == size.bytes \in 1..size.limit /\ OneValue /\ Shallow /\ Unique

\* The target is touched only for a text that is one value, within the size and
\* depth, without a duplicate member in any object; and only such a text gets as
\* far as the second pass.  The validator recurses no deeper than the limit,
\* whatever the text (strictjson.go:22-95).
ExactlyStrict ==
    /\ Len(stack) <= MaxDepth
    /\ target # "untouched" \/ result = "decoding" => Strict
    /\ result = "error" /\ target = "untouched" => ~Strict
=============================================================================
