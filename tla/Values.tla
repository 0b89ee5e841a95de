------------------------------- MODULE Values -------------------------------
(***************************************************************************)
(* The typed value (src/types.go:39-161): what its constructors write,     *)
(* what MarshalJSON sends, and what UnmarshalJSON takes back from a wire   *)
(* that a client may have written or edited.                               *)
(*                                                                         *)
(* Compile compares values by type and text (compile.go:346-350), so a     *)
(* text must be the only one of what it denotes.  A text is its form - the *)
(* sign, leading zero, offset or spelling that a parser of Go accepts -    *)
(* and the number it writes.  Numbers have Width bits; a time is a tick   *)
(* of 0..LastTick, beyond which its year has no four digits; Bits of the   *)
(* bytes are one byte, Digit bits one digit of base64.                     *)
(***************************************************************************)
EXTENDS Integers, Sequences, SequencesExt

CONSTANTS
    Width, LastTick, ByteBits, DigitBits,
    MaxEdits       \* bound on members a client adds to a wire

ASSUME ValuesAssumption ==
    /\ Width \in Nat \ {0} /\ LastTick \in Nat /\ ByteBits \in Nat \ {0}
    /\ DigitBits \in Nat \ {0} /\ DigitBits < ByteBits /\ MaxEdits \in Nat

VARIABLES
    held,          \* a value: what was constructed, or the receiver
    wire,          \* the members of a JSON object, in order
    origin,        \* the value marshalled onto the wire, <<>> once it is edited
    outcome        \* of the last UnmarshalJSON: "", "decoded" or "refused"

vvars == <<held, wire, origin, outcome>>

Text(form, len, n) == [form |-> form, len |-> len, n |-> n]
Nothing == Text("", 0, 0)
Typed(type, text) == [type |-> type, text |-> text]
Zero    == Typed("", Nothing)

validType == {"string", "int", "uint", "float", "bool", "time", "bytes"}
validValueType == validType \cup {"null"}

-----------------------------------------------------------------------------
\* What each format writes and each parser reads: Parsed gives <<what the text
\* denotes>>, or <<>> for an error.

TopInt == 2^(Width - 1)
Abs(i) == IF i < 0 THEN -i ELSE i

\* Base64: so many whole bytes in so many digits, and bits to spare.
BytesIn(digits)  == (digits * DigitBits) \div ByteBits
SpareBits(digits) == digits * DigitBits - BytesIn(digits) * ByteBits
DigitsFor(bytes) == CHOOSE d \in 0..(2 * bytes + 1) :
                       BytesIn(d) = bytes /\ SpareBits(d) < DigitBits

Formatted(type, x) ==
    CASE type = "int"   -> Text(IF x < 0 THEN "-" ELSE "digits", 0, Abs(x))
      [] type = "uint"  -> Text("digits", 0, x)
      [] type = "float" -> Text(IF x.negative THEN "-" ELSE "digits", 0, x.n)
      [] type = "bool"  -> Text(IF x THEN "true" ELSE "false", 0, 0)
      [] type = "time"  -> Text("Z", 0, x)
      [] type = "bytes" -> Text("", DigitsFor(x.len), x.n * 2^SpareBits(DigitsFor(x.len)))
      [] type = "null"  -> Nothing
      [] OTHER          -> x

\* Decimal text: a sign, a leading zero.
Signed(form) == form \in {"-", "-0"}
Decimal == {"digits", "-", "+", "0", "-0"}

Parsed(type, text) ==
    LET i == IF Signed(text.form) THEN -text.n ELSE text.n IN
    CASE type = "int" ->
           IF text.form \in Decimal /\ i >= -TopInt /\ i < TopInt THEN <<i>> ELSE <<>>
      [] type = "uint" ->
           IF text.form \in {"digits", "0"} /\ i < 2^Width THEN <<i>> ELSE <<>>
      [] type = "float" ->
           IF text.form \in Decimal \cup {"exponent"} /\ text.n < 2^Width
           THEN <<[negative |-> Signed(text.form), n |-> text.n]>> ELSE <<>>
      [] type = "bool" ->
           CASE text.form \in {"true", "TRUE", "1", "t"} -> <<TRUE>>
             [] text.form \in {"false", "FALSE", "0", "f"} -> <<FALSE>>
             [] OTHER -> <<>>
      [] type = "time" ->
           IF text.form \in {"Z", "+00:00", "+01:00", "zeros"} /\ text.n <= LastTick
           THEN <<IF text.form = "+01:00" THEN text.n - 1 ELSE text.n>> ELSE <<>>
      [] type = "bytes" ->
           IF text.form \in {"", "newline"} /\ SpareBits(text.len) < DigitBits
           THEN <<[len |-> BytesIn(text.len), n |-> text.n \div 2^SpareBits(text.len)]>>
           ELSE <<>>

AnyParsed(valueType, text) ==                                   \* mutant
    valueType \in {"string", "null"} \/ Parsed(valueType, text) # <<>>
canonicalValue(valueType, text) ==
    CASE valueType = "string" -> TRUE
      [] valueType = "null"   -> text = Nothing
      [] OTHER -> LET parsed == Parsed(valueType, text) IN
                  parsed # <<>> /\ Formatted(valueType, parsed[1]) = text

-----------------------------------------------------------------------------
\* JSON: a member is [name, text], the text <<>> when it is null.

\* encoding/json repairs what is not UTF-8.
Repaired(text) == IF text.form = "bad UTF-8" THEN Text("repaired", 0, 0) ELSE text

Pair(name, text) == [name |-> name, text |-> text]

TypeOnly(v) ==                                                  \* mutant
    <<Pair("type", <<Text(v.type, 0, 0)>>), Pair("value", <<Nothing>>)>>
MarshalJSON(v) ==
    <<Pair("type", <<Text(v.type, 0, 0)>>), Pair("value", <<Repaired(v.text)>>)>>

\* Into a struct of two strings, member after member: extra ones are skipped, a
\* null leaves the string as it is.
Decoded(encoded, member) ==
    IF member.text = <<>> THEN encoded
    ELSE CASE member.name = "type"  -> [encoded EXCEPT !.type = member.text[1].form]
           [] member.name = "value" -> [encoded EXCEPT !.text = Repaired(member.text[1])]
           [] OTHER -> encoded

Encoded(members) == FoldLeft(Decoded, Zero, members)

TypeChecked(v) == v.type \in validValueType                     \* mutant
Accepts(v) == v.type \in validValueType /\ canonicalValue(v.type, v.text)

-----------------------------------------------------------------------------
\* What the constructors are called with; a NaN or an infinity gives Zero.
Arguments(type) ==
    CASE type = "int"    -> (-TopInt)..(TopInt - 1)
      [] type = "uint"   -> 0..(2^Width - 1)
      [] type = "float"  -> [negative : BOOLEAN, n : 0..(2^Width - 1)]
      [] type = "bool"   -> BOOLEAN
      [] type = "time"   -> 0..(LastTick + 1)
      [] type = "bytes"  -> UNION {[len : {k}, n : 0..(2^(k * ByteBits) - 1)] : k \in 0..1}
      [] type = "string" -> {Nothing, Text("x", 0, 0), Text("bad UTF-8", 0, 0)}
      [] type = "null"   -> {Nothing}

Constructed(type) == {Typed(type, Formatted(type, x)) : x \in Arguments(type)}
Constructible == {Zero} \cup UNION {Constructed(type) : type \in validValueType}

\* What a client may write: the type of a value or another word, a text that
\* some parser reads or none does, and members after those.
ClientTexts ==
    {Text(f, 0, n) : f \in Decimal \cup {"exponent", "Z", "+00:00", "+01:00", "zeros"},
                     n \in {0, 1, TopInt, 2^Width}} \cup
    {Text(f, 0, 0) : f \in {"true", "TRUE", "1", "t", "false", "FALSE", "f", "NaN", "x",
                            "bad UTF-8"}} \cup
    {Text(f, len, 0) : f \in {"", "newline", "padded"}, len \in 0..2} \cup
    {Text(f, len, n) : f \in {"", "newline", "padded"}, len \in 1..2, n \in {1, 3, 4}}
EditTexts == {<<>>} \cup {<<Text(f, 0, 0)>> : f \in {"string", "int", "digits", "x"}}

ValuesInit == held = Zero /\ wire = <<>> /\ origin = <<>> /\ outcome = ""

Construct ==
    /\ wire = <<>> /\ held' \in Constructible /\ outcome' = ""
    /\ UNCHANGED <<wire, origin>>

Marshal ==
    /\ wire' = MarshalJSON(held) /\ origin' = <<held>> /\ outcome' = ""
    /\ UNCHANGED held

Write ==
    /\ wire = <<>> /\ outcome' = "" /\ UNCHANGED <<held, origin>>
    /\ \E type \in validValueType \cup {"decimal"}, text \in ClientTexts :
          wire' = <<Pair("type", <<Text(type, 0, 0)>>), Pair("value", <<text>>)>>

Edit ==
    /\ wire # <<>> /\ Len(wire) < 2 + MaxEdits
    /\ \E name \in {"type", "value", "extra"}, text \in EditTexts :
          wire' = Append(wire, Pair(name, text))
    /\ origin' = <<>> /\ outcome' = ""
    /\ UNCHANGED held

UnmarshalJSON ==
    /\ IF Accepts(Encoded(wire))
       THEN held' = Encoded(wire) /\ outcome' = "decoded"
       ELSE UNCHANGED held /\ outcome' = "refused"
    /\ UNCHANGED <<wire, origin>>

ValuesNext == Construct \/ Marshal \/ Write \/ Edit \/ UnmarshalJSON

ValuesSpec == ValuesInit /\ [][ValuesNext]_vvars

-----------------------------------------------------------------------------
\* The year of a time has more than four digits (types.go:74-75).
OutOfRange(v) == v.type = "time" /\ v.text.n > LastTick

\* Whatever a client writes or adds, a value that was accepted is one that a
\* constructor makes, and one that was refused leaves the receiver what it was
\* (src/types.go:106-126, 129-157).
NothingForged ==
    /\ held.type # "string" => held \in Constructible
    /\ outcome = "decoded" => held.type # "" /\ ~OutOfRange(held)
                              /\ held.text.form # "bad UTF-8"

\* No other accepted text denotes what the value denotes: two values that a
\* filter tells apart differ, and a repeated one is seen to be repeated
\* (src/types.go:128-157, src/compile.go:346-350).
OneTextPerValue ==
    outcome = "decoded" /\ held.type \notin {"string", "null"} =>
        \A t \in ClientTexts :
            canonicalValue(held.type, t) /\ Parsed(held.type, t) = Parsed(held.type, held.text)
                => t = held.text

\* A value survives the wire, its text repaired; only the zero value and a time
\* out of range do not come back (src/types.go:60-62, 74-75, 98-126).
RoundTrip ==
    origin # <<>> =>
        /\ outcome = "decoded" => held = [origin[1] EXCEPT !.text = Repaired(@)]
        /\ outcome = "refused" => origin[1] = Zero \/ OutOfRange(origin[1])
=============================================================================
