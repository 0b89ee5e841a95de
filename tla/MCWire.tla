------------------------------- MODULE MCWire -------------------------------
(***************************************************************************)
(* What arrives on a wire: strict JSON, the three transports and typed     *)
(* values.  They share no state, so a behaviour exercises one of them, its *)
(* part, while the others rest in an initial state.                        *)
(*                                                                         *)
(* Strict JSON: every value of three levels with at most two members or    *)
(* items in each object and array, whole, cut short anywhere, or followed  *)
(* by a token; and texts nested deeper than the limit.                     *)
(* Transports: requests with every component absent, empty and given; a    *)
(* name that starts with a dash, sorted descending; pages of every mode.   *)
(* Values: two-bit integers, so that the first value out of range is among *)
(* the texts; bytes of four bits in digits of three, so that one byte      *)
(* takes two digits and leaves two bits to spare, as 8 in 6 leaves four.   *)
(***************************************************************************)
EXTENDS StrictJSON, Transport, Values

VARIABLE part

-----------------------------------------------------------------------------
Scalar == <<<<"scalar">>>>
Name(n) == <<<<"member", n>>>>
Names  == {"a", "b"}
In(open, content, close) == <<<<open>>>> \o content \o <<<<close>>>>

\* The values that contain those of S.
Around(S) ==
    {In("[", c, "]") : c \in {<<>>} \cup S \cup {x \o y : x, y \in S}} \cup
    {In("{", c, "}") : c \in {<<>>} \cup {Name(n) \o x : n \in Names, x \in S} \cup
                             {Name(n) \o x \o Name(m) \o y : n, m \in Names, x, y \in S}}

Level1 == {Scalar} \cup Around({Scalar})
Level2 == {Scalar} \cup Around(Level1)
Nested(S) == {In("[", x, "]") : x \in S} \cup {In("{", Name("a") \o x, "}") : x \in S}
Deep   == Nested(Nested(Level1)) \cup Nested(Nested(Nested(Level1)))

Whole  == Level2 \cup Deep
Broken == UNION {{SubSeq(t, 1, n) : n \in 0..(Len(t) - 1)} : t \in Whole}
AllTexts == Whole \cup Broken \cup {t \o Scalar : t \in Level1} \cup
            {t \o u : t, u \in Around({Scalar})}
AllSizes == {[bytes |-> b, limit |-> 1] : b \in 0..2}

-----------------------------------------------------------------------------
A == ListItem(0, "a")
B == ListItem(0, "b")
Sorted(name, direction) == [name |-> name, direction |-> direction]

Page(mode, limit, after, before, offset) ==
    [mode |-> mode, size |-> limit, after |-> after, before |-> before, offset |-> offset]

SomeIntents == [
    revision : {<<>>, <<"r1">>},
    fields   : {<<>>, <<<<>>>>, <<<<B, A>>>>},
    includes : {<<>>, <<<<>>>>, <<<<A>>>>},
    filter   : {<<>>, <<[predicate |-> "p", logic |-> ""]>>},
    sorts    : {<<>>, <<<<>>>>,
                <<<<Sorted(A, "asc"), Sorted(ListItem(1, "b"), "desc"), Sorted(B, "desc")>>>>},
    page     : {ZeroPage, Page("cursor", 2, "c1", "", 0),
                Page("cursor", 0, "", "c2", 0), Page("offset", 2, "", "", 4)}]

-----------------------------------------------------------------------------
JRest == /\ text = Scalar /\ size = [bytes |-> 1, limit |-> 1] /\ next = 1 /\ stack = <<>>
         /\ wants = TRUE /\ target = "untouched" /\ result = "size"
TransportRest == /\ via = "http" /\ intent = ZeroRequest /\ sent = HttpText(ZeroRequest)
                 /\ faults = {} /\ got = <<>>

WireInit == \/ part = "strict"    /\ JInit /\ TransportRest /\ ValuesInit
            \/ part = "transport" /\ JRest /\ TransportInit /\ ValuesInit
            \/ part = "values"    /\ JRest /\ TransportRest /\ ValuesInit

WireNext == \/ part = "strict"    /\ JNext /\ UNCHANGED <<part, tvars, vvars>>
            \/ part = "transport" /\ TransportNext /\ UNCHANGED <<part, jvars, vvars>>
            \/ part = "values"    /\ ValuesNext /\ UNCHANGED <<part, jvars, tvars>>

WireSpec == WireInit /\ [][WireNext]_<<part, jvars, tvars, vvars>>
=============================================================================
