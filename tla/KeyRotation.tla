---------------------------- MODULE KeyRotation ----------------------------
(***************************************************************************)
(* The documented key rotation procedure (src/docs/cursor.md:22-26) run by *)
(* an operator against a codec in use:                                     *)
(*   1. activate the new key and retain the old one for decoding;          *)
(*   2. issue only new-key cursors for at least the maximum TTL;           *)
(*   3. retire the old key after every old cursor has expired.             *)
(* The operator is outside src/: it waits MaxTTL from the rotation that    *)
(* deactivated a key and then may leave it out.  Encodes that copied the   *)
(* old key before the rotation are still in flight, and the question is    *)
(* whether waiting MaxTTL is enough for them.                              *)
(***************************************************************************)
EXTENDS CursorCodec

VARIABLE retirable  \* per key: the time from which the operator may drop it

rvars == <<active, keys, time, clock, issued, retained, accepted, call, retirable>>

RInit == Init /\ retirable = [k \in Keys |-> 0]

MayDrop(k) == k # active /\ retirable[k] <= time

OperatorRotate(a, ks) ==
    /\ \A k \in keys \ ks : MayDrop(k)
    /\ Rotate(a, ks)
    /\ retirable' = IF a = active THEN retirable
                    ELSE [retirable EXCEPT ![active] = time + MaxTTL]

\* The codec's callers, under one clock that follows time.
RNext ==
    \/ /\ \/ \E p \in Procs : Call(p) \/ Encode(p) \/ Decode(p) \/ Cancel(p)
          \/ Store
          \/ Tick
       /\ UNCHANGED retirable
    \/ \E ks \in SUBSET Keys, a \in Keys : OperatorRotate(a, ks)

RSpec == RInit /\ [][RNext]_rvars

-----------------------------------------------------------------------------
\* What TypeOK says, under the one clock the procedure's waiting is timed by.
RTypeOK == TypeOK /\ clock = 0 /\ retirable \in [Keys -> Nat]

\* The procedure never strands a cursor: while a cursor has not expired, the
\* key it was sealed under is in the ring (docs/cursor.md:22-26).
RetainedWhileValid == \A t \in issued : t.exp > time => t.key \in keys

\* Waiting MaxTTL covers the encodes in flight at the rotation too: Encode
\* samples the clock before it copies the active key
\* (src/cursor/cursor.go:225-229), so a cursor sealed under a key that is no
\* longer active has expired by the time that key may be dropped.
OldCursorsExpire == \A t \in issued :
    t.key # active => t.exp <= retirable[t.key]

\* A decode of a genuine cursor answers ErrInvalid only when that cursor has
\* expired, whatever rotations overtook it (DecodeContext, 300-336).  A codec
\* with a replay store also says it of every context-free decode (266-268).
NoFalseRejection == \A p \in Procs :
    /\ call[p].pc = "idle" /\ call[p].out = "ErrInvalid"
    /\ call[p].tok \in issued
    => Stale(call[p].tok) \/ ReplayEnabled

-----------------------------------------------------------------------------
\* A draft's expiry is within MaxTTL of the instant its clock was sampled, and
\* the key it copied has not been deactivated before that instant.
DraftOK(p) ==
    /\ call[p].pc \in {"enc_now", "enc_key"} => call[p].tok.key = NoKey
    /\ call[p].pc \in EncodePC => call[p].clk = 0
    /\ call[p].pc \in {"enc_key", "enc_seal"} =>
          call[p].now <= time /\ call[p].tok.exp <= call[p].now + MaxTTL
    /\ call[p].pc = "enc_seal" /\ call[p].tok.key # active =>
          call[p].tok.exp <= retirable[call[p].tok.key]

\* The strengthening that makes them inductive: every encode in flight is
\* accounted for by the clock it sampled (cursor.go:225-229), and a key is out
\* of the ring only once its waiting time is over.
RInv ==
    /\ RTypeOK
    /\ OldCursorsExpire
    /\ NoFalseRejection
    /\ \A t \in issued : t.exp <= time + MaxTTL
    /\ \A k \in Keys \ keys : retirable[k] <= time
    /\ \A p \in Procs : DraftOK(p)
============================================================================
