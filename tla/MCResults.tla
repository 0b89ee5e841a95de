----------------------------- MODULE MCResults ------------------------------
(***************************************************************************)
(* What the library hands out: objects and the memory behind them,         *)
(* canonical forms of plans, and reports of violations.  The three share   *)
(* no state, so a behaviour exercises one of them, its part, while the     *)
(* others rest in an initial state.                                        *)
(*                                                                         *)
(* Ownership: two writes, one of which may come before a copy is made and  *)
(* the other after it.                                                     *)
(* Canonical forms: plans that differ from one another in each component   *)
(* alone and in several, among them two pages of one listing that differ   *)
(* in the cursor only, and text that is not UTF-8 beside its repair.       *)
(* Reports: the shapes of path that compile.go and schema.go write: a      *)
(* component, an item, a member, and nested items of a filter and of       *)
(* relationships.                                                          *)
(***************************************************************************)
EXTENDS Ownership, Canonical, ValidationReport

VARIABLE part

-----------------------------------------------------------------------------
Cursor(direction, position, policy) ==
    <<[direction |-> direction, positions |-> <<position>>, policy |-> policy]>>
Page(mode, size, offset) == [mode |-> mode, size |-> size, offset |-> offset]

SomePlans == [
    fields : {<<"id">>}, sorts : {<<"id">>, <<"name", "id">>}, cost : {1},
    filter : {<<>>, <<<<"a">>>>, <<<<"a", "b">>>>}, constraints : {<<"a">>},
    page : {Page("cursor", 2, 0)},
    cursor : {<<>>, Cursor("forward", "a", ""), Cursor("backward", "a", ""),
              Cursor("forward", "b", ""), Cursor("forward", "a", "p")}] \cup
    [fields : {<<"id">>, <<"id", "status", "total">>}, sorts : {<<"id">>}, cost : {1, 2},
     filter : {<<>>}, constraints : {<<>>, <<"b">>, <<"bad">>, <<"repaired">>},
     page : {Page("offset", 2, 0)}, cursor : {<<>>}] \cup
    [fields : {<<"id">>}, sorts : {<<"id">>}, cost : {1}, filter : {<<>>},
     constraints : {<<>>}, page : {Page("none", 0, 0), Page("offset", 2, 4)}, cursor : {<<>>}] \cup
    [fields : {<<"id">>}, sorts : {<<"id">>}, cost : {1}, filter : {<<>>}, constraints : {<<>>},
     page : {Page("cursor", 2, 0)},
     cursor : {Cursor("forward", "bad", "p"), Cursor("forward", "repaired", "p")}]

-----------------------------------------------------------------------------
Children(i) == <<Field("children"), Index(i)>>
Edges(i)    == <<Field("relationships"), Index(i)>>

SomePlaces ==
    {<<Field("query")>>, <<Field("page"), Field("after")>>, <<Field("fields"), Index(12)>>,
     <<Field("filter")>>, <<Field("schema"), Field("default_sort"), Index(0)>>} \cup
    {<<Field("filter")>> \o Children(i) : i \in 0..1} \cup
    {<<Field("filter")>> \o Children(i) \o Children(j) : i, j \in 0..1} \cup
    {<<Field("schema")>> \o Edges(i) \o Edges(j) : i, j \in 0..1}

-----------------------------------------------------------------------------
OwnershipRest == /\ cell = "keys" :> [c \in {"secret"} |-> <<"keys", c>>]
                 /\ content = <<"keys", "secret">> :> 0
                 /\ born = "keys" :> [c \in {"secret"} |-> 0]
                 /\ writes = 0
CanonicalRest == /\ plans = [i \in 1..Decoders |-> <<>>]
                 /\ turn = 1 /\ baseline = <<>> /\ verdict = "running"

ResultsInit == \/ part = "ownership" /\ OwnershipInit /\ CanonicalRest /\ ReportInit
               \/ part = "canonical" /\ OwnershipRest /\ CanonicalInit /\ ReportInit
               \/ part = "report"    /\ OwnershipRest /\ CanonicalRest /\ ReportInit

ResultsNext ==
    \/ part = "ownership" /\ OwnershipNext /\ UNCHANGED <<part, canonVars, reportVars>>
    \/ part = "canonical" /\ CanonicalNext /\ UNCHANGED <<part, ovars, reportVars>>
    \/ part = "report"    /\ ReportNext /\ UNCHANGED <<part, ovars, canonVars>>

ResultsSpec == ResultsInit /\ [][ResultsNext]_<<part, ovars, canonVars, reportVars>>
=============================================================================
