-------------------------- MODULE ValidationReport --------------------------
(***************************************************************************)
(* From a failure to the report of go-validation                           *)
(* (src/adapters/validation/validation.go): the compiler or NewSchema      *)
(* writes where something is wrong as a path's text, and Report reads the  *)
(* text back into a path.                                                  *)
(*                                                                         *)
(* A place is a sequence of segments, a field by its name or an item by    *)
(* its index.  A text is a sequence of tokens: names, numbers, ".", "[",   *)
(* "]".  Codes and paths are kept, messages left out.                      *)
(***************************************************************************)
EXTENDS Violations

CONSTANTS
    Places,        \* where the library finds faults
    MaxErrors,     \* the collector's limit
    ReportLimit    \* the limit of the report, go-validation's

VARIABLES
    places,        \* of the violations, in order (history)
    failure,       \* "open" while violations are collected, then what Report is
                   \* given: "nil", "other" or "query"
    coming,          \* the violation that the loop of Report comes to
    report         \* [code, path] in order

reportVars == <<violations, places, failure, coming, report>>

-----------------------------------------------------------------------------
Token(kind, name, n) == [kind |-> kind, name |-> name, n |-> n]
Dot       == Token(".", "", 0)
Name(s)   == Token("name", s, 0)
Number(n) == Token("number", "", n)

Segment(kind, text) == [kind |-> kind, text |-> text]
Field(s) == Segment("field", <<Name(s)>>)
Index(n) == Segment("index", <<Number(n)>>)

\* How compile.go and schema.go write a place: fields after a dot, items in brackets.
Written(place) ==
    FoldLeft(LAMBDA text, s :
        IF s.kind = "index" THEN text \o <<Token("[", "", 0)>> \o s.text \o <<Token("]", "", 0)>>
        ELSE text \o (IF text = <<>> THEN <<>> ELSE <<Dot>>) \o s.text,
        <<>>, place)

\* The first token of one of the kinds, or 0.
FirstOf(text, kinds) == SelectInSeq(text, LAMBDA t : t.kind \in kinds)
UpTo(text, n) == SubSeq(text, 1, n)
After(text, n) == SubSeq(text, n + 1, Len(text))

AsField(text) == Segment("field", text)                         \* mutant
Item(text) == Segment(IF Len(text) = 1 /\ text[1].kind = "number" THEN "index" ELSE "key", text)

RECURSIVE appendPath(_, _)
appendPath(path, value) ==
    LET end == FirstOf(value, {".", "["}) IN
    IF value = <<>> THEN path
    ELSE IF end = 0 THEN Append(path, Segment("field", value))
    ELSE LET named == IF end = 1 THEN path ELSE Append(path, Segment("field", UpTo(value, end - 1)))
             rest  == After(value, end) IN
         IF value[end].kind = "." THEN appendPath(named, rest)
         ELSE LET close == FirstOf(rest, {"]"})
                  item  == IF close = 0 THEN rest ELSE UpTo(rest, close - 1) IN
              IF close = 0 THEN Append(named, Item(item))
              ELSE appendPath(Append(named, Item(item)), After(rest, close))

parsePath(value) == appendPath(<<>>, value)

-----------------------------------------------------------------------------
ReportInit == violations = <<>> /\ places = <<>> /\ failure = "open" /\ coming = 1 /\ report = <<>>

\* The library finds a fault; beyond its limit the collector drops it.
Find ==
    /\ failure = "open"
    /\ \E place \in Places, code \in {"limit_exceeded", "conflict"} :
          /\ violations' = Collected(MaxErrors, <<[code |-> code, path |-> Written(place)]>>)
          /\ places' = IF violations' = violations THEN places ELSE Append(places, place)
    /\ UNCHANGED <<failure, coming, report>>

\* It returns: no failure, its violations, or an error of another kind.
Return ==
    /\ failure = "open"
    /\ failure' = IF violations = <<>> THEN "nil" ELSE "query"
    /\ UNCHANGED <<violations, places, coming, report>>

FailOtherwise ==
    /\ failure = "open" /\ violations = <<>> /\ failure' = "other"
    /\ UNCHANGED <<violations, places, coming, report>>

\* The report of go-validation takes violations up to its limit.
Added(code, path) ==
    IF Len(report) < ReportLimit THEN Append(report, [code |-> code, path |-> path]) ELSE report

ReportOther ==
    /\ failure = "other" /\ coming = 1
    /\ report' = Added("query_error", <<>>) /\ coming' = 2
    /\ UNCHANGED <<violations, places, failure>>

ReportViolation ==
    /\ failure = "query" /\ coming <= Len(violations)
    /\ report' = Added(violations[coming].code, parsePath(violations[coming].path))
    /\ coming' = coming + 1
    /\ UNCHANGED <<violations, places, failure>>

ReportNext == Find \/ Return \/ FailOtherwise \/ ReportOther \/ ReportViolation

ReportSpec == ReportInit /\ [][ReportNext]_reportVars

-----------------------------------------------------------------------------
\* The report has one entry for each violation that the loop has passed, until
\* it is full, in their order, each with its code and a path that leads to the
\* place the violation is about, item by item; no failure has no entry, another
\* kind of failure one at the root (src/adapters/validation/validation.go:20-67,
\* src/compile.go:316, src/schema.go:361, 389).
ReportLeadsToPlaces ==
    /\ failure \in {"open", "nil"} => report = <<>>
    /\ failure = "other" /\ coming > 1 =>
          report = UpTo(<<[code |-> "query_error", path |-> <<>>]>>, Len(report))
    /\ failure = "query" =>
          /\ Len(report) = IF coming - 1 < ReportLimit THEN coming - 1 ELSE ReportLimit
          /\ \A i \in DOMAIN report :
                report[i] = [code |-> violations[i].code, path |-> places[i]]
=============================================================================
