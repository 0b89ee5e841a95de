---------------------------- MODULE CursorCodec ----------------------------
(***************************************************************************)
(* One cursor.Codec shared by concurrent callers: the keyring an operator  *)
(* rotates under their feet, the clock that can be replaced while it is    *)
(* being read, and the application's replay store                          *)
(* (src/cursor/cursor.go).                                                 *)
(*                                                                         *)
(* The code holds a lock only to copy the clock (402-407), the active key  *)
(* (118-126) or one key (128-136); everything between two such copies, a   *)
(* call of the clock and a call of the store is local.  Those are the      *)
(* steps below.  A cursor is what is sealed in it; its text is opaque, and *)
(* two cursors differ in their nonce.                                      *)
(***************************************************************************)
EXTENDS Naturals, FiniteSets

CONSTANTS
    Procs,        \* goroutines that share the codec
    Keys,         \* secrets, each with the ID it is configured under
    KeyId,        \* [Keys -> IDs]; one ID may name two secrets over time
    Nonces,       \* nonces left to draw: the bound on cursors issued
    Contracts,    \* [schema |-> revision, sorts |-> ordered sorts]
    Version,      \* Config.Version
    Foreign,      \* cursors sealed elsewhere, or before this history
    Expiries,     \* expiries a caller may ask Encode for
    Clocks,       \* clock functions: how far each runs ahead of time
    MaxTTL,       \* Config.MaxTTL
    MaxTime,      \* bound on time
    ReplayEnabled,\* Config.ReplayStore # nil
    StorePolicy,  \* what the application's replay store does at expiry
    Malformed, NoToken, NoKey, NoNonce, NoContract

Token(n, k, v, c, e) ==
    [nonce |-> n, key |-> k, version |-> v, contract |-> c, exp |-> e]

Tokens == [nonce: Nonces, key: Keys, version: {Version}, contract: Contracts,
           exp: Expiries]
Drafts == [nonce: {NoNonce}, key: Keys \cup {NoKey}, version: {Version},
           contract: Contracts, exp: Expiries]

ASSUME CodecAssumption ==
    /\ Expiries \subseteq Nat /\ Clocks \subseteq Nat /\ 0 \in Clocks
    /\ MaxTTL \in Nat \ {0} /\ MaxTime \in Nat
    /\ ReplayEnabled \in BOOLEAN
    /\ StorePolicy \in {"keep", "expire", "recheck_and_expire"}
    /\ NoKey \notin Keys /\ NoNonce \notin Nonces
    /\ \A t \in Foreign : t.exp \in Nat
    /\ {Malformed, NoToken} \cap (Foreign \cup Tokens) = {}

VARIABLES
    active,       \* Keyring.active, as the key it names
    keys,         \* Keyring.keys, as the set of its keys
    time,         \* physical time
    clock,        \* Codec.clock
    issued,       \* cursors Encode has returned
    retained,     \* fingerprints the replay store remembers
    accepted,     \* every fingerprint it ever accepted (history)
    call          \* per goroutine: its call in progress, or its last outcome

ring  == <<active, keys>>
store == <<retained, accepted>>
vars  == <<active, keys, time, clock, issued, retained, accepted, call>>

EncodePC == {"enc_now", "enc_key", "enc_seal"}
DecodePC == {"dec_key", "dec_clock", "dec_now", "dec_ctx", "store", "stored", "rejected"}

IdleCall == [pc |-> "idle", tok |-> NoToken, want |-> NoContract, clk |-> 0,
             now |-> 0, cancelled |-> FALSE, out |-> "none"]

\* NewKeyring rotates an empty ring to its first snapshot.
DistinctIds(ks) == \A j, k \in ks : KeyId[j] = KeyId[k] => j = k
RingOf(a, ks)   == a \in ks /\ DistinctIds(ks)

Init ==
    /\ keys \in SUBSET Keys /\ active \in keys /\ RingOf(active, keys)
    /\ time = 0 /\ clock = 0
    /\ issued = {} /\ retained = {} /\ accepted = {}
    /\ call = [p \in Procs |-> IdleCall]

-----------------------------------------------------------------------------
\* The environment: the operator, the passage of time, the request's context.

RotateUnchecked(a, ks) ==                                       \* mutant
    /\ active' = a /\ keys' = ks
    /\ UNCHANGED <<time, clock, issued, retained, accepted, call>>

\* Keyring.Rotate replaces the snapshot under the lock; a duplicate ID is
\* refused before it and changes nothing.
Rotate(a, ks) ==
    /\ RingOf(a, ks)
    /\ active' = a /\ keys' = ks
    /\ UNCHANGED <<time, clock, issued, retained, accepted, call>>

SetClock(c) ==
    /\ clock' = c
    /\ UNCHANGED <<active, keys, time, issued, retained, accepted, call>>

Tick ==
    /\ time < MaxTime
    /\ time' = time + 1
    /\ UNCHANGED <<active, keys, clock, issued, retained, accepted, call>>

Cancel(p) ==
    /\ call[p].pc \in DecodePC /\ ~call[p].cancelled
    /\ call' = [call EXCEPT ![p].cancelled = TRUE]
    /\ UNCHANGED <<active, keys, time, clock, issued, retained, accepted>>

-----------------------------------------------------------------------------
\* Steps of one call.

At(p, pc) == call[p].pc = pc

Goto(p, pc) == call' = [call EXCEPT ![p].pc = pc]

\* The call returns: only its cursor and its outcome are of use after it.
Return(p, out) ==
    call' = [call EXCEPT ![p] = [IdleCall EXCEPT !.tok = call[p].tok, !.out = out]]

Quiet == UNCHANGED <<active, keys, time, clock, issued, retained, accepted>>

ValidUnbounded(e, now) == e > now                               \* mutant
ValidOneMore(e, now) == e > now /\ e <= now + MaxTTL + 1        \* mutant

\* validPayload's part about time; a caller may also break the rest of it.
ValidAt(e, now) == e > now /\ e <= now + MaxTTL

(* Encode: the clock is copied, then called and the payload validated; only
   then is the active key copied; sealing is local. *)
EncodeCall(p, c, e) ==
    /\ At(p, "idle")
    /\ call' = [call EXCEPT ![p] =
          [IdleCall EXCEPT !.pc = "enc_now", !.clk = clock,
                           !.tok = Token(NoNonce, NoKey, Version, c, e)]]
    /\ Quiet

EncodeValidate(p) ==
    LET now == time + call[p].clk IN
    /\ At(p, "enc_now")
    /\ \/ /\ ValidAt(call[p].tok.exp, now)
          /\ call' = [call EXCEPT ![p].pc = "enc_key", ![p].now = now, ![p].clk = 0]
       \/ Return(p, "ErrInvalid")   \* for this or another payload rule
    /\ Quiet

EncodeKey(p) ==
    /\ At(p, "enc_key")
    /\ call' = [call EXCEPT ![p].pc = "enc_seal", ![p].tok.key = active]
    /\ Quiet

\* Fresh entropy makes the cursor new.  Marshalling, the entropy read and the
\* two size limits may fail instead.
EncodeSeal(p) ==
    /\ At(p, "enc_seal")
    /\ \/ \E n \in Nonces \ {t.nonce : t \in issued \cup Foreign} :
             LET t == [call[p].tok EXCEPT !.nonce = n] IN
             /\ issued' = issued \cup {t}
             /\ call' = [call EXCEPT ![p] = [IdleCall EXCEPT !.tok = t, !.out = "issued"]]
       \/ Return(p, "ErrInvalid") /\ UNCHANGED issued
    /\ UNCHANGED <<active, keys, time, clock, retained, accepted>>

(* DecodeContext. *)

\* The checks that need nothing shared: context, text, version.  A
\* context-free Decode cannot serve a codec with a replay store.
OnSight(t, cancelled, contextFree) ==
    IF contextFree /\ ReplayEnabled THEN "ErrInvalid"
    ELSE IF cancelled               THEN "Canceled"
    ELSE IF t = Malformed           THEN "ErrInvalid"
    ELSE IF t.version # Version     THEN "ErrVersion"
    ELSE "go on"

DecodeCall(p, t, w, cancelled, contextFree) ==
    LET verdict == OnSight(t, cancelled, contextFree)
        fresh   == [IdleCall EXCEPT !.tok = t] IN
    /\ At(p, "idle")
    /\ contextFree => ~cancelled
    /\ call' = [call EXCEPT ![p] =
          IF verdict = "go on" THEN [fresh EXCEPT !.pc = "dec_key", !.want = w]
                               ELSE [fresh EXCEPT !.out = verdict]]
    /\ Quiet

OpensById(t)     == \E k \in keys : KeyId[k] = KeyId[t.key]     \* mutant
OpensIfActive(t) == active = t.key                              \* mutant

\* The key is looked up by the cursor's ID; the seal opens under the secret
\* it was made with and no other.
Opens(t) == \E k \in keys : KeyId[k] = KeyId[t.key] /\ k = t.key

DecodeOpen(p) ==
    /\ At(p, "dec_key")
    /\ IF Opens(call[p].tok) THEN Goto(p, "dec_clock") ELSE Return(p, "ErrInvalid")
    /\ Quiet

DecodeClock(p) ==
    /\ At(p, "dec_clock")
    /\ call' = [call EXCEPT ![p].pc = "dec_now", ![p].clk = clock]
    /\ Quiet

Verdict(t, w, now) ==
    IF t.exp <= now                      THEN "ErrExpired"
    ELSE IF ~ValidAt(t.exp, now)         THEN "ErrInvalid"
    ELSE IF t.contract.schema # w.schema THEN "ErrSchema"
    ELSE IF t.contract.sorts # w.sorts   THEN "ErrSort"
    ELSE "ok"

DecodeValidate(p) ==
    LET verdict == Verdict(call[p].tok, call[p].want, time + call[p].clk) IN
    /\ At(p, "dec_now")
    /\ IF verdict = "ok" /\ ReplayEnabled
       THEN call' = [call EXCEPT ![p].pc = "dec_ctx", ![p].clk = 0]
       ELSE Return(p, verdict)
    /\ Quiet

CtxFailsOpen(p) ==                                              \* mutant
    /\ At(p, "dec_ctx")
    /\ IF call[p].cancelled THEN Goto(p, "stored") ELSE Goto(p, "store")
    /\ Quiet

\* ctx.Err() once more, then the store is called with the same context.
DecodeCtx(p) ==
    /\ At(p, "dec_ctx")
    /\ IF call[p].cancelled THEN Return(p, "Canceled") ELSE Goto(p, "store")
    /\ Quiet

ReturnUnasked(p) ==                                             \* mutant
    /\ \/ At(p, "stored") /\ Return(p, "ok")
       \/ At(p, "rejected") /\ Return(p, "ErrReplay")
    /\ Quiet

ReturnLateCheck(p) ==                                           \* mutant
    /\ \/ At(p, "stored") /\ ~call[p].cancelled /\ Return(p, "ok")
       \/ At(p, "rejected") /\ ~call[p].cancelled /\ Return(p, "ErrReplay")
       \/ call[p].pc \in {"stored", "rejected"} /\ call[p].cancelled /\ Return(p, "Canceled")
    /\ Quiet

\* What the store said decides; a refusal is the context's fault if it can be.
DecodeReturn(p) ==
    /\ \/ At(p, "stored") /\ Return(p, "ok")
       \/ At(p, "rejected") /\ ~call[p].cancelled /\ Return(p, "ErrReplay")
       \/ At(p, "rejected") /\ call[p].cancelled /\ Return(p, "Canceled")
    /\ Quiet

-----------------------------------------------------------------------------
\* The application's ReplayStore, atomic as its contract asks
\* (src/cursor/cursor.go:162-165).  It answers once per call, may accept a
\* call whose context has just been cancelled, and may forget a fingerprint
\* once its expiry has passed, unless the policy is to keep it.

Stale(t) == t.exp <= time

Background(p) == FALSE                                          \* mutant

\* The context the store is handed is the caller's own.
StoreCancelled(p) == call[p].cancelled

StoreAccept(p) ==
    LET t == call[p].tok IN
    /\ At(p, "store")
    /\ t \notin retained
    /\ StorePolicy = "recheck_and_expire" => ~Stale(t)
    /\ Goto(p, "stored")
    /\ retained' = retained \cup {t}
    /\ accepted' = accepted \cup {t}
    /\ UNCHANGED <<active, keys, time, clock, issued>>

StoreReject(p) ==
    LET t == call[p].tok IN
    /\ At(p, "store")
    /\ \/ t \in retained
       \/ StoreCancelled(p)
       \/ StorePolicy = "recheck_and_expire" /\ Stale(t)
    /\ Goto(p, "rejected")
    /\ Quiet

StoreEvict(t) ==
    /\ StorePolicy # "keep" /\ t \in retained /\ Stale(t)
    /\ retained' = retained \ {t}
    /\ UNCHANGED <<active, keys, time, clock, issued, accepted, call>>

-----------------------------------------------------------------------------
Encode(p) == EncodeValidate(p) \/ EncodeKey(p) \/ EncodeSeal(p)

Decode(p) == \/ DecodeOpen(p) \/ DecodeClock(p) \/ DecodeValidate(p)
             \/ DecodeCtx(p) \/ DecodeReturn(p)

Call(p) ==
    \/ \E c \in Contracts, e \in Expiries : EncodeCall(p, c, e)
    \/ \E t \in issued \cup Foreign \cup {Malformed}, w \in Contracts,
          cancelled, contextFree \in BOOLEAN :
          DecodeCall(p, t, w, cancelled, contextFree)

Store == \/ \E p \in Procs : StoreAccept(p) \/ StoreReject(p)
         \/ \E t \in retained : StoreEvict(t)

Next ==
    \/ \E p \in Procs : Call(p) \/ Encode(p) \/ Decode(p) \/ Cancel(p)
    \/ Store
    \/ \E ks \in SUBSET Keys, a \in Keys : Rotate(a, ks)
    \/ \E c \in Clocks : SetClock(c)
    \/ Tick

Spec == Init /\ [][Next]_vars

\* A call that has begun runs on, and a store that honours cancellation
\* answers a cancelled call.  Nothing makes a store answer any other call.
Fairness == \A p \in Procs :
    /\ WF_vars(Encode(p))
    /\ WF_vars(Decode(p))
    /\ WF_vars(StoreCancelled(p) /\ StoreReject(p))

-----------------------------------------------------------------------------
Outcomes == {"none", "issued", "ok", "Canceled", "ErrInvalid", "ErrExpired",
             "ErrVersion", "ErrSchema", "ErrSort", "ErrReplay"}

Calls == [pc: {"idle"} \cup EncodePC \cup DecodePC,
          tok: Tokens \cup Foreign \cup Drafts \cup {Malformed, NoToken},
          want: Contracts \cup {NoContract}, clk: Clocks, now: Nat,
          cancelled: BOOLEAN, out: Outcomes]

RegistersOK(p) ==
    /\ call[p].pc \in EncodePC => call[p].tok \in Drafts
    /\ call[p].pc = "enc_seal" => call[p].tok.key \in Keys
    /\ call[p].pc \in DecodePC => call[p].tok \in issued \cup Foreign
    /\ call[p].tok \in issued \cup Foreign \cup Drafts \cup {Malformed, NoToken}

\* The snapshot always has its active key and distinct IDs, cursors and
\* fingerprints are cursors of this codec, registers hold what their step needs.
TypeOK ==
    /\ RingOf(active, keys) /\ keys \subseteq Keys
    /\ time \in 0..MaxTime /\ clock \in Clocks
    /\ issued \subseteq Tokens
    /\ accepted \subseteq issued \cup Foreign /\ retained \subseteq accepted
    /\ call \in [Procs -> Calls]
    /\ \A p \in Procs : RegistersOK(p)

Spent(t) == t \in accepted \/ (StorePolicy = "recheck_and_expire" /\ Stale(t))

\* ErrReplay is only ever said of a cursor the store has consumed, or, with a
\* store that checks expiry itself, of one that has run out: a caller whose
\* own context was cancelled is never told its cursor was replayed
\* (DecodeContext, src/cursor/cursor.go:351-355).
ReplayErrorTruthful == \A p \in Procs :
    call[p].pc = "idle" /\ call[p].out = "ErrReplay" => Spent(call[p].tok)

\* A decode reaches its commit point only by consuming its cursor, and no cursor
\* is consumed twice, however its decodes interleave with each other, with
\* cancellation, eviction, the clocks and rotation (src/cursor/cursor.go:345-358;
\* src/docs/cursor.md:29-34, "one-time consumption").
OneTimeConsumption ==
    [][\A p \in Procs : call[p].pc # "stored" /\ call'[p].pc = "stored" =>
          call[p].tok \in accepted' \ accepted]_vars

\* What the codec's callers may rely on.
Claim(c) ==
    CASE c.pc = "stored" -> [state |-> "granted", cursor |-> c.tok]
      [] c.pc = "idle" /\ c.out = "ok" -> [state |-> "delivered", cursor |-> c.tok]
      [] c.pc \in DecodePC \ {"stored"} ->
             [state |-> "pending", cursor |-> c.tok, want |-> c.want]
      [] c.pc = "idle" /\ c.out \notin {"none", "issued", "ok"} -> [state |-> "refused"]
      [] OTHER -> [state |-> "free"]

Promise == INSTANCE CursorPromise WITH
    Callers  <- Procs,
    Cursors  <- Tokens \cup Foreign \cup {Malformed},
    Wants    <- Contracts,
    OneTime  <- ReplayEnabled,
    live     <- issued,
    redeemed <- accepted,
    claim    <- [p \in Procs |-> Claim(call[p])]

ImplementsPromise == Promise!Spec
============================================================================
