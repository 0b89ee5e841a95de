--------------------------- MODULE MCQueryService ---------------------------
(***************************************************************************)
(* Two compiles of any of these requests, against two live cursors for     *)
(* opposite directions; two keys, each of which may be retired under a     *)
(* decode.                                                                 *)
(***************************************************************************)
EXTENDS QueryService, TLC

CONSTANTS p1, p2, k1, k2

MCKeyId == k1 :> "a" @@ k2 :> "b"

Contract(sorts, direction) == [schema |-> "r1", sorts |-> sorts, direction |-> direction]
MCContracts == {Contract("name", "forward"), Contract("name", "backward"),
                Contract("age", "forward")}

Next1 == Token("n1", k1, "v1", Contract("name", "forward"), 1)
Prev1 == Token("n2", k2, "v1", Contract("name", "backward"), 2)
MCForeign == {Next1, Prev1}

Asking(after, before, sorts, sound, cheap) ==
    [after |-> after, before |-> before, want |-> Contract(sorts, "forward"),
     sound |-> sound, cheap |-> cheap]

MCRequests ==
    {Asking(Next1, NoToken, "name", sound, cheap) : sound, cheap \in BOOLEAN} \cup
    {Asking(NoToken, t, "name", TRUE, TRUE) : t \in MCForeign} \cup
    {Asking(Next1, NoToken, "age", TRUE, TRUE),
     Asking(Prev1, NoToken, "name", TRUE, TRUE),
     Asking(Malformed, NoToken, "name", TRUE, TRUE),
     Asking(Next1, Prev1, "name", TRUE, TRUE),
     Asking(NoToken, NoToken, "name", TRUE, TRUE)}
=============================================================================
