---------------------------- MODULE QueryService ----------------------------
(***************************************************************************)
(* Compiles that use the codec as their cursor decoder, many at once and   *)
(* often for the same cursor: clients retry, responses get lost, contexts  *)
(* are cancelled.  A compile goes through its phases up to the cursor,     *)
(* hands the token to DecodeCursor, is charged, and returns a plan or its  *)
(* violations (src/compile.go:81-112, 478-516).                            *)
(*                                                                         *)
(* Compile looks at the request in detail; here a request says only what   *)
(* decides about its cursor: which tokens it names, for which sorts, and   *)
(* whether its other parts or its cost are at fault.  A goroutine makes    *)
(* one compile, so a retry is the compile of another goroutine.            *)
(***************************************************************************)
EXTENDS CursorCodec

CONSTANT Requests   \* [after, before: cursors or NoToken, want: a contract,
                    \*  sound, cheap: BOOLEAN]

ASSUME RequestsAssumption ==
    /\ \A r \in Requests : /\ {r.after, r.before} \subseteq Foreign \cup {Malformed, NoToken}
                           /\ r.want \in Contracts
                           /\ r.sound \in BOOLEAN /\ r.cheap \in BOOLEAN
    \* A cursor's direction is part of its contract, though not of a decode's.
    /\ \A t \in Foreign : t.contract = [schema |-> t.contract.schema, sorts |-> t.contract.sorts,
                                        direction |-> t.contract.direction]

VARIABLE query      \* per goroutine: its compile

qvars == <<active, keys, time, clock, issued, retained, accepted, call, query>>

Compiles == [phase: {"new", "decoding", "done"}, request: Requests, plan: BOOLEAN,
             cursor: Foreign \cup {NoToken}]

QInit == /\ Init
         /\ query \in [Procs -> {[phase |-> "new", request |-> r, plan |-> FALSE,
                                  cursor |-> NoToken] : r \in Requests}]

Request(p)  == query[p].request
OneToken(r) == (r.after = NoToken) # (r.before = NoToken)
TokenOf(r)  == IF r.before # NoToken THEN r.before ELSE r.after
Towards(r)  == IF r.before # NoToken THEN "backward" ELSE "forward"

\* Compile's result: a plan if nothing was reported in any phase.
Finish(p, cursor, fault) ==
    query' = [query EXCEPT ![p].phase = "done",
                           ![p].plan = ~fault /\ Request(p).sound /\ Request(p).cheap,
                           ![p].cursor = cursor]

\* No token to decode, or two of them: the decoder is not called.
CompileUndecoded(p) ==
    /\ query[p].phase = "new" /\ ~OneToken(Request(p))
    /\ Finish(p, NoToken, Request(p).after # NoToken)
    /\ UNCHANGED vars

\* The decoder is called whether or not the request has already been found at
\* fault, for the final sorts of the plan.
CompileToCursor(p, cancelled) ==
    LET r == Request(p) IN
    /\ query[p].phase = "new" /\ OneToken(r)
    /\ DecodeCall(p, TokenOf(r), r.want, cancelled, FALSE)
    /\ query' = [query EXCEPT ![p].phase = "decoding"]

EitherWay(r, t) == TRUE                                         \* mutant

\* A cursor is good for the direction it was issued for.
Fits(r, t) == t.contract.direction = Towards(r)

\* DecodeCursor has returned: its state must fit, then the bill is settled.
CompileReturn(p) ==
    LET t  == TokenOf(Request(p))
        ok == call[p].out = "ok" /\ Fits(Request(p), t) IN
    /\ query[p].phase = "decoding" /\ call[p].pc = "idle"
    /\ Finish(p, IF ok THEN t ELSE NoToken, ~ok)
    /\ UNCHANGED vars

QNext ==
    \/ \E p \in Procs :
          \/ CompileUndecoded(p) \/ CompileReturn(p)
          \/ \E cancelled \in BOOLEAN : CompileToCursor(p, cancelled)
          \/ (Decode(p) \/ Cancel(p)) /\ UNCHANGED query
    \/ (Store \/ Tick) /\ UNCHANGED query
    \/ \E ks \in SUBSET Keys, a \in Keys : Rotate(a, ks) /\ UNCHANGED query

\* A compile runs on by itself, up to the store's answer.
QSpec == QInit /\ [][QNext]_qvars /\ Fairness /\ \A p \in Procs : WF_qvars(CompileReturn(p))

-----------------------------------------------------------------------------
HasPage(p, t) == query[p].plan /\ query[p].cursor = t

\* However often and however concurrently a client presents a one-time cursor,
\* one compile at most returns a plan for it, and that one consumed it
\* (src/compile.go:478-516, src/cursor/cursor.go:345-361).
OnePlanPerCursor == ReplayEnabled =>
    \A p, q \in Procs : \A t \in Foreign \cup issued :
       /\ HasPage(p, t) => t \in accepted
       /\ HasPage(p, t) /\ HasPage(q, t) => p = q

\* A plan seeks where and in the direction its request says, in its own sorts
\* and revision: no mismatched cursor gets through the decoder and the check of
\* its state together (src/compile.go:482-516, src/cursor/cursor.go:338-343).
PlanSeeksAsAsked == \A p \in Procs : query[p].plan =>
    LET r == Request(p)
        t == query[p].cursor IN
    /\ r.sound /\ r.cheap /\ (r.after # NoToken => r.before = NoToken)
    /\ t = NoToken <=> r.after = NoToken /\ r.before = NoToken
    /\ t # NoToken =>
          /\ t = TokenOf(r)
          /\ t.contract = [schema |-> r.want.schema, sorts |-> r.want.sorts,
                           direction |-> Towards(r)]

\* The only requests that lose a cursor are those at fault for another reason
\* or presenting it in the wrong direction: a sound request that consumes its
\* cursor gets the plan, whatever cancellation, rotation, the clock and other
\* compiles do in between (src/compile.go:74-76, 478-516,
\* src/cursor/cursor.go:345-359; src/docs/cursor.md, "Replay acceptance is not
\* rolled back").
LostOnlyToFaults == \A t \in accepted : \E p \in Procs :
    LET r == Request(p) IN
    /\ OneToken(r) /\ TokenOf(r) = t
    /\ \/ query[p].phase = "decoding"
       \/ HasPage(p, t)
       \/ ~r.sound \/ ~r.cheap \/ ~Fits(r, t)

\* A compile whose context is cancelled returns, with a plan or without, even if
\* the store would not answer by itself (src/compile.go:497,
\* src/cursor/cursor.go:346-355).
CancelledCompileReturns == \A p \in Procs :
    query[p].phase = "decoding" /\ call[p].cancelled ~> query[p].phase = "done"
=============================================================================
