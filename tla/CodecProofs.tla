---------------------------- MODULE CodecProofs -----------------------------
(***************************************************************************)
(* The cursor codec and two systems around it.                             *)
(*                                                                         *)
(* CursorCodec, for every set of goroutines, keys, nonces, contracts,      *)
(* foreign cursors and clocks: types, one-time consumption, honest errors, *)
(* and the refinement of CursorPromise.                                    *)
(*                                                                         *)
(* KeyRotation: the documented procedure strands no cursor, for every      *)
(* number of goroutines and keys and every MaxTTL.                         *)
(*                                                                         *)
(* QueryService: compiles that share a codec, for any number of goroutines *)
(* and any requests: no plan for a cursor its request does not name, one   *)
(* plan for a one-time cursor, and no cursor lost to anything but its own  *)
(* request.  A compile and the decode it makes are joined by an invariant  *)
(* that says where the decode stands and what it has established; the      *)
(* store's part comes from the codec's, since every step of QNext is a     *)
(* step of the codec's Next or leaves the codec alone.                     *)
(***************************************************************************)
EXTENDS KeyRotation, QueryService, TLAPS

-----------------------------------------------------------------------------
\* The codec.

LEMMA IdleTyped == ASSUME NEW t \in Tokens \cup Foreign \cup Drafts \cup {Malformed, NoToken},
                          NEW o \in Outcomes
                   PROVE  /\ IdleCall \in Calls
                          /\ [IdleCall EXCEPT !.tok = t, !.out = o] \in Calls
BY CodecAssumption DEF IdleCall, Calls, Outcomes

LEMMA TypeInit == Init => TypeOK
<1> SUFFICES ASSUME Init PROVE TypeOK
    OBVIOUS
<1>1. RingOf(active, keys) /\ keys \subseteq Keys
    BY DEF Init
<1>2. time \in 0..MaxTime /\ clock \in Clocks
    BY CodecAssumption DEF Init
<1>3. call \in [Procs -> Calls]
    BY IdleTyped DEF Init, Outcomes
<1>4. \A p \in Procs : RegistersOK(p)
    BY DEF Init, RegistersOK, IdleCall, EncodePC, DecodePC
<1> QED
    BY <1>1, <1>2, <1>3, <1>4 DEF Init, TypeOK

-----------------------------------------------------------------------------
\* What a step of one goroutine leaves of the call table.

AllPC == {"idle"} \cup EncodePC \cup DecodePC

LEMMA GotoStep ==
    ASSUME call \in [Procs -> Calls], NEW p \in Procs, NEW pc \in AllPC, Goto(p, pc)
    PROVE  /\ call' \in [Procs -> Calls]
           /\ call'[p].pc = pc /\ call'[p].tok = call[p].tok
           /\ \A q \in Procs \ {p} : call'[q] = call[q]
BY DEF Goto, Calls, AllPC

LEMMA ReturnStep ==
    ASSUME call \in [Procs -> Calls], NEW p \in Procs, NEW o \in Outcomes, Return(p, o)
    PROVE  /\ call' \in [Procs -> Calls]
           /\ call'[p].pc = "idle" /\ call'[p].tok = call[p].tok /\ call'[p].out = o
           /\ \A q \in Procs \ {p} : call'[q] = call[q]
<1>1. call[p].tok \in Tokens \cup Foreign \cup Drafts \cup {Malformed, NoToken}
    BY DEF Calls
<1>2. [IdleCall EXCEPT !.tok = call[p].tok, !.out = o] \in Calls
    BY <1>1, IdleTyped
<1>3. /\ [IdleCall EXCEPT !.tok = call[p].tok, !.out = o].pc = "idle"
      /\ [IdleCall EXCEPT !.tok = call[p].tok, !.out = o].tok = call[p].tok
      /\ [IdleCall EXCEPT !.tok = call[p].tok, !.out = o].out = o
    BY DEF IdleCall
<1> QED
    BY <1>2, <1>3 DEF Return

LEMMA OthersKeepRegisters ==
    ASSUME NEW p \in Procs, \A q \in Procs : RegistersOK(q), RegistersOK(p)',
           \A q \in Procs \ {p} : call'[q] = call[q], issued \subseteq issued'
    PROVE  \A q \in Procs : RegistersOK(q)'
BY DEF RegistersOK

-----------------------------------------------------------------------------
\* Each operation preserves the type invariant.

LEMMA EncodeTyped ==
    ASSUME TypeOK, NEW p \in Procs, Encode(p)
    PROVE  TypeOK'
<1> USE DEF TypeOK
<1>1. ASSUME EncodeValidate(p) PROVE TypeOK'
    <2> DEFINE now == time + call[p].clk
    <2>0. call[p] \in Calls /\ now \in Nat /\ call[p].tok \in Drafts
        BY <1>1, CodecAssumption DEF Calls, EncodeValidate, At, RegistersOK, EncodePC
    <2>1. CASE call' = [call EXCEPT ![p].pc = "enc_key", ![p].now = now, ![p].clk = 0]
        <3>1. call' \in [Procs -> Calls]
            BY <2>0, <2>1, CodecAssumption DEF Calls, EncodePC
        <3>2. /\ call'[p].pc = "enc_key" /\ call'[p].tok = call[p].tok
              /\ \A q \in Procs \ {p} : call'[q] = call[q]
            BY <2>1 DEF Calls
        <3> HIDE DEF now
        <3>3. RegistersOK(p)'
            BY <2>0, <3>2 DEF RegistersOK, DecodePC
        <3> QED
            BY <1>1, <3>1, <3>2, <3>3, OthersKeepRegisters DEF EncodeValidate, Quiet, RingOf
    <2>2. CASE Return(p, "ErrInvalid")
        <3>1. RegistersOK(p)'
            BY <1>1, <2>2, ReturnStep DEF EncodeValidate, Quiet, Outcomes, RegistersOK, EncodePC, DecodePC
        <3> QED
            BY <1>1, <2>2, <3>1, ReturnStep, OthersKeepRegisters
            DEF EncodeValidate, Quiet, RingOf, Outcomes
    <2> QED
        BY <1>1, <2>1, <2>2 DEF EncodeValidate
<1>2. ASSUME EncodeKey(p) PROVE TypeOK'
    <2>1. call[p].tok \in Drafts /\ call[p] \in Calls /\ active \in Keys
        BY <1>2 DEF EncodeKey, At, RegistersOK, EncodePC, RingOf
    <2>2. [call[p].tok EXCEPT !.key = active] \in Drafts
        BY <2>1 DEF Drafts
    <2>3. call'[p] = [call[p] EXCEPT !.pc = "enc_seal", !.tok = [call[p].tok EXCEPT !.key = active]]
        BY <1>2, <2>1 DEF EncodeKey, Calls
    <2>4. /\ call'[p] \in Calls /\ call'[p].pc = "enc_seal"
          /\ call'[p].tok = [call[p].tok EXCEPT !.key = active]
        BY <2>1, <2>2, <2>3 DEF Calls, EncodePC
    <2>5. /\ call' \in [Procs -> Calls]
          /\ \A q \in Procs \ {p} : call'[q] = call[q]
        BY <1>2, <2>4 DEF EncodeKey
    <2>6. call'[p].tok.key \in Keys
        BY <2>1, <2>4 DEF Drafts
    <2>7. RegistersOK(p)'
        BY <2>2, <2>4, <2>6 DEF RegistersOK, DecodePC
    <2> QED
        BY <1>2, <2>5, <2>7, OthersKeepRegisters DEF EncodeKey, Quiet, RingOf
<1>3. ASSUME EncodeSeal(p) PROVE TypeOK'
    <2>1. CASE Return(p, "ErrInvalid") /\ UNCHANGED issued
        <3>1. RegistersOK(p)'
            BY <2>1, ReturnStep DEF Outcomes, RegistersOK, EncodePC, DecodePC
        <3> QED
            BY <1>3, <2>1, <3>1, ReturnStep, OthersKeepRegisters
            DEF EncodeSeal, RingOf, Outcomes
    <2>2. ASSUME NEW n \in Nonces,
                 issued' = issued \cup {[call[p].tok EXCEPT !.nonce = n]},
                 call' = [call EXCEPT ![p] = [IdleCall EXCEPT
                            !.tok = [call[p].tok EXCEPT !.nonce = n], !.out = "issued"]]
          PROVE  TypeOK'
        <3> DEFINE t == [call[p].tok EXCEPT !.nonce = n]
                   done == [IdleCall EXCEPT !.tok = t, !.out = "issued"]
        <3>1. t \in Tokens
            BY <1>3 DEF EncodeSeal, At, RegistersOK, EncodePC, Drafts, Tokens
        <3>2. done \in Calls
            BY <3>1, IdleTyped DEF Outcomes
        <3>3. done.pc = "idle" /\ done.tok = t
            BY DEF IdleCall
        <3> HIDE DEF t, done
        <3>4. issued' = issued \cup {t} /\ call' = [call EXCEPT ![p] = done]
            BY <2>2 DEF t, done
        <3>5. RegistersOK(p)'
            BY <3>3, <3>4 DEF RegistersOK, EncodePC, DecodePC
        <3> QED
            BY <1>3, <3>1, <3>2, <3>4, <3>5, OthersKeepRegisters DEF EncodeSeal, RingOf
    <2> QED
        BY <1>3, <2>1, <2>2 DEF EncodeSeal
<1> QED
    BY <1>1, <1>2, <1>3 DEF Encode

\* Where a decode stands after one of its steps: further on, or returned.
LEMMA DecodeMoves ==
    ASSUME TypeOK, NEW p \in Procs, Decode(p)
    PROVE  /\ call[p].pc \in DecodePC
           /\ call' \in [Procs -> Calls]
           /\ call'[p].pc \in DecodePC \cup {"idle"} /\ call'[p].tok = call[p].tok
           /\ \A q \in Procs \ {p} : call'[q] = call[q]
<1> DEFINE moved ==
        /\ call' \in [Procs -> Calls]
        /\ call'[p].pc \in DecodePC \cup {"idle"} /\ call'[p].tok = call[p].tok
        /\ \A q \in Procs \ {p} : call'[q] = call[q]
<1>0. call \in [Procs -> Calls]
    BY DEF TypeOK
<1>1. ASSUME NEW pc \in DecodePC, Goto(p, pc) PROVE moved
    BY <1>0, <1>1, GotoStep DEF AllPC
<1>2. ASSUME NEW o \in Outcomes, Return(p, o) PROVE moved
    BY <1>0, <1>2, ReturnStep
<1>3. ASSUME DecodeOpen(p) PROVE moved /\ call[p].pc \in DecodePC
    BY <1>1, <1>2, <1>3 DEF DecodeOpen, At, DecodePC, Outcomes
<1>4. ASSUME DecodeClock(p) PROVE moved /\ call[p].pc \in DecodePC
    <2>1. call[p].pc = "dec_clock" /\ call[p] \in Calls /\ clock \in Clocks
        BY <1>0, <1>4 DEF DecodeClock, At, TypeOK
    <2>2. call' = [call EXCEPT ![p] = [call[p] EXCEPT !.pc = "dec_now", !.clk = clock]]
        BY <1>0, <1>4 DEF DecodeClock
    <2>3. /\ [call[p] EXCEPT !.pc = "dec_now", !.clk = clock] \in Calls
          /\ [call[p] EXCEPT !.pc = "dec_now", !.clk = clock].pc = "dec_now"
          /\ [call[p] EXCEPT !.pc = "dec_now", !.clk = clock].tok = call[p].tok
        BY <2>1 DEF Calls, DecodePC
    <2>4. moved
        BY <1>0, <2>2, <2>3 DEF DecodePC
    <2> QED
        BY <2>1, <2>4 DEF DecodePC
<1>5. ASSUME DecodeValidate(p) PROVE moved /\ call[p].pc \in DecodePC
    <2> DEFINE verdict == Verdict(call[p].tok, call[p].want, time + call[p].clk)
    <2>1. verdict \in Outcomes
        BY DEF Verdict, Outcomes
    <2> HIDE DEF verdict
    <2>2. CASE Return(p, verdict)
        BY <1>2, <1>5, <2>1, <2>2 DEF DecodeValidate, At, DecodePC
    <2>3. CASE call' = [call EXCEPT ![p].pc = "dec_ctx", ![p].clk = 0]
        <3>1. call[p].pc \in DecodePC
            BY <1>5 DEF DecodeValidate, At, DecodePC
        <3>2. moved
            <4>1. call[p] \in Calls
                BY <1>0
            <4>2. call' \in [Procs -> Calls]
                BY <1>0, <2>3, <4>1, CodecAssumption DEF DecodePC, Calls
            <4>3. /\ call'[p].pc = "dec_ctx" /\ call'[p].tok = call[p].tok
                  /\ \A q \in Procs \ {p} : call'[q] = call[q]
                BY <1>0, <2>3, <4>1 DEF Calls
            <4> QED
                BY <4>2, <4>3 DEF DecodePC
        <3> QED
            BY <3>1, <3>2
    <2> QED
        BY <1>5, <2>2, <2>3 DEF DecodeValidate, verdict
<1>6. ASSUME DecodeCtx(p) PROVE moved /\ call[p].pc \in DecodePC
    BY <1>1, <1>2, <1>6 DEF DecodeCtx, At, DecodePC, Outcomes
<1>7. ASSUME DecodeReturn(p) PROVE moved /\ call[p].pc \in DecodePC
    BY <1>2, <1>7 DEF DecodeReturn, At, DecodePC, Outcomes
<1> QED
    BY <1>3, <1>4, <1>5, <1>6, <1>7 DEF Decode

LEMMA DecodeTyped ==
    ASSUME TypeOK, NEW p \in Procs, Decode(p)
    PROVE  TypeOK'
<1>1. Quiet
    BY DEF Decode, DecodeOpen, DecodeClock, DecodeValidate, DecodeCtx, DecodeReturn
<1>2. RegistersOK(p)'
    BY <1>1, DecodeMoves DEF TypeOK, RegistersOK, Quiet, EncodePC, DecodePC
<1>3. \A q \in Procs : RegistersOK(q)'
    BY <1>1, <1>2, DecodeMoves, OthersKeepRegisters DEF TypeOK, Quiet
<1> QED
    BY <1>1, <1>3, DecodeMoves DEF TypeOK, Quiet, RingOf

LEMMA CallTyped ==
    ASSUME TypeOK, NEW p \in Procs, Call(p) \/ Cancel(p)
    PROVE  TypeOK'
<1> USE DEF TypeOK
<1>1. ASSUME NEW r \in Calls, call' = [call EXCEPT ![p] = r], Quiet,
             r.pc \in EncodePC \ {"enc_seal"} => r.tok \in Drafts,
             r.pc \in DecodePC => r.tok \in issued \cup Foreign,
             r.pc # "enc_seal",
             r.tok \in issued \cup Foreign \cup Drafts \cup {Malformed, NoToken}
      PROVE  TypeOK'
    <2>1. RegistersOK(p)'
        BY <1>1 DEF RegistersOK, Quiet
    <2> QED
        BY <1>1, <2>1, OthersKeepRegisters DEF Quiet, RingOf
<1>2. ASSUME NEW c \in Contracts, NEW e \in Expiries, EncodeCall(p, c, e) PROVE TypeOK'
    <2> DEFINE r == [IdleCall EXCEPT !.pc = "enc_now", !.clk = clock,
                                     !.tok = Token(NoNonce, NoKey, Version, c, e)]
    <2>1. Token(NoNonce, NoKey, Version, c, e) \in Drafts
        BY DEF Token, Drafts
    <2>2. r \in Calls /\ r.pc = "enc_now" /\ r.tok \in Drafts
        BY <2>1, CodecAssumption DEF IdleCall, Calls, EncodePC, Outcomes
    <2> HIDE DEF r
    <2> QED
        BY <1>1, <1>2, <2>2 DEF EncodeCall, r, DecodePC
<1>3. ASSUME NEW t \in issued \cup Foreign \cup {Malformed}, NEW w \in Contracts,
             NEW x \in BOOLEAN, NEW f \in BOOLEAN, DecodeCall(p, t, w, x, f)
      PROVE  TypeOK'
    <2> DEFINE verdict == OnSight(t, x, f)
               go   == [[IdleCall EXCEPT !.tok = t] EXCEPT !.pc = "dec_key", !.want = w]
               stop == [[IdleCall EXCEPT !.tok = t] EXCEPT !.out = verdict]
    <2>1. verdict \in Outcomes \cup {"go on"} /\ (verdict = "go on" => t # Malformed)
        BY DEF OnSight, Outcomes
    <2>2. go \in Calls /\ go.pc = "dec_key" /\ go.tok = t
        BY CodecAssumption DEF IdleCall, Calls, DecodePC, Outcomes
    <2>3. verdict \in Outcomes => stop \in Calls /\ stop.pc = "idle" /\ stop.tok = t
        BY CodecAssumption DEF IdleCall, Calls, DecodePC
    <2>4. call' = [call EXCEPT ![p] = IF verdict = "go on" THEN go ELSE stop] /\ Quiet
        BY <1>3 DEF DecodeCall
    <2> HIDE DEF verdict, go, stop
    <2>5. CASE verdict = "go on"
        BY <1>1, <2>1, <2>2, <2>4, <2>5 DEF EncodePC
    <2>6. CASE verdict # "go on"
        BY <1>1, <2>1, <2>3, <2>4, <2>6 DEF EncodePC, DecodePC
    <2> QED
        BY <2>5, <2>6
<1>4. ASSUME Cancel(p) PROVE TypeOK'
    <2>1. /\ call'[p] \in Calls /\ call'[p].pc = call[p].pc /\ call'[p].tok = call[p].tok
          /\ call' = [call EXCEPT ![p] = call'[p]]
        BY <1>4 DEF Cancel, Calls
    <2>2. RegistersOK(p)'
        BY <1>4, <2>1 DEF Cancel, RegistersOK
    <2> QED
        BY <1>4, <2>1, <2>2, OthersKeepRegisters DEF Cancel, RingOf
<1> QED
    BY <1>2, <1>3, <1>4 DEF Call

LEMMA StoreTyped ==
    ASSUME TypeOK, Store
    PROVE  TypeOK'
<1> USE DEF TypeOK
<1>1. ASSUME NEW p \in Procs, StoreAccept(p) PROVE TypeOK'
    <2>1. /\ Goto(p, "stored") /\ "stored" \in AllPC /\ "stored" \in DecodePC
          /\ call[p].tok \in issued \cup Foreign
        BY <1>1 DEF StoreAccept, At, RegistersOK, AllPC, DecodePC
    <2>2. RegistersOK(p)'
        BY <1>1, <2>1, GotoStep DEF StoreAccept, RegistersOK, EncodePC
    <2> QED
        BY <1>1, <2>1, <2>2, GotoStep, OthersKeepRegisters DEF StoreAccept, RingOf
<1>2. ASSUME NEW p \in Procs, StoreReject(p) PROVE TypeOK'
    <2>1. /\ Goto(p, "rejected") /\ "rejected" \in AllPC /\ "rejected" \in DecodePC
          /\ call[p].tok \in issued \cup Foreign
        BY <1>2 DEF StoreReject, At, RegistersOK, AllPC, DecodePC
    <2>2. RegistersOK(p)'
        BY <1>2, <2>1, GotoStep DEF StoreReject, RegistersOK, EncodePC, Quiet
    <2> QED
        BY <1>2, <2>1, <2>2, GotoStep, OthersKeepRegisters DEF StoreReject, Quiet, RingOf
<1>3. ASSUME NEW t \in retained, StoreEvict(t) PROVE TypeOK'
    BY <1>3 DEF StoreEvict, RegistersOK, RingOf
<1> QED
    BY <1>1, <1>2, <1>3 DEF Store

LEMMA EnvironmentTyped ==
    ASSUME TypeOK,
           \/ \E ks \in SUBSET Keys, a \in Keys : Rotate(a, ks)
           \/ \E c \in Clocks : SetClock(c)
           \/ Tick
    PROVE  TypeOK'
<1> USE DEF TypeOK
<1>1. ASSUME NEW ks \in SUBSET Keys, NEW a \in Keys, Rotate(a, ks) PROVE TypeOK'
    BY <1>1 DEF Rotate, RingOf, RegistersOK
<1>2. ASSUME NEW c \in Clocks, SetClock(c) PROVE TypeOK'
    BY <1>2 DEF SetClock, RingOf, RegistersOK
<1>3. ASSUME Tick PROVE TypeOK'
    BY <1>3, CodecAssumption DEF Tick, RingOf, RegistersOK
<1> QED
    BY <1>1, <1>2, <1>3

LEMMA TypeStep == TypeOK /\ [Next]_vars => TypeOK'
<1> SUFFICES ASSUME TypeOK, [Next]_vars PROVE TypeOK'
    OBVIOUS
<1>1. CASE Next
    BY <1>1, EncodeTyped, DecodeTyped, CallTyped, StoreTyped, EnvironmentTyped DEF Next
<1>2. CASE UNCHANGED vars
    BY <1>2 DEF vars, TypeOK, RegistersOK, RingOf
<1> QED
    BY <1>1, <1>2

\* Type correctness of the codec under every interleaving: the snapshot always
\* holds its active key under distinct IDs, and the fingerprints the store saw
\* are those of cursors in circulation.
THEOREM CodecTypeCorrect == Spec => []TypeOK
<1>1. Init => TypeOK
    BY TypeInit
<1>2. TypeOK /\ [Next]_vars => TypeOK'
    BY TypeStep
<1> QED
    BY <1>1, <1>2, PTL DEF Spec

-----------------------------------------------------------------------------
\* The replay store.

\* The library's own steps of q stay clear of the store and of other calls,
\* and blame a replay only for what the store rejected uncancelled.
LEMMA LocalStep ==
    ASSUME TypeOK, NEW q \in Procs, Call(q) \/ Encode(q) \/ Decode(q)
    PROVE  /\ call[q].pc # "store" /\ call'[q].pc \notin {"rejected", "stored"}
           /\ call'[q].pc = "idle" /\ call'[q].out = "ErrReplay" =>
                 /\ call[q].pc = "rejected" /\ ~call[q].cancelled
                 /\ call'[q].tok = call[q].tok
           /\ \A p \in Procs \ {q} : call'[p] = call[p]
           /\ issued \subseteq issued'
           /\ UNCHANGED <<retained, accepted, time>>
<1> USE DEF At, Quiet
<1>0. call \in [Procs -> Calls]
    BY DEF TypeOK
<1> DEFINE local ==
        /\ call'[q].pc \notin {"rejected", "stored"}
        /\ call'[q].pc = "idle" => call'[q].out # "ErrReplay"
        /\ \A p \in Procs \ {q} : call'[p] = call[p]
<1>a. ASSUME NEW pc \in AllPC \ {"idle", "rejected", "stored"}, Goto(q, pc) PROVE local
    BY <1>0, <1>a, GotoStep
<1>b. ASSUME NEW o \in Outcomes \ {"ErrReplay"}, Return(q, o) PROVE local
    BY <1>0, <1>b, ReturnStep
<1>1. CASE Call(q)
    <2>1. ASSUME NEW c \in Contracts, NEW e \in Expiries, EncodeCall(q, c, e) PROVE local
        BY <1>0, <2>1 DEF EncodeCall, IdleCall
    <2>2. ASSUME NEW t \in issued \cup Foreign \cup {Malformed}, NEW w \in Contracts,
                 NEW x \in BOOLEAN, NEW f \in BOOLEAN, DecodeCall(q, t, w, x, f)
          PROVE  local
        <3>1. OnSight(t, x, f) # "ErrReplay"
            BY DEF OnSight
        <3>2. \/ call'[q] = [[IdleCall EXCEPT !.tok = t] EXCEPT !.pc = "dec_key", !.want = w]
              \/ call'[q] = [[IdleCall EXCEPT !.tok = t] EXCEPT !.out = OnSight(t, x, f)]
            BY <1>0, <2>2 DEF DecodeCall
        <3>3. \A p \in Procs \ {q} : call'[p] = call[p]
            BY <1>0, <2>2 DEF DecodeCall
        <3> QED
            BY <3>1, <3>2, <3>3 DEF IdleCall
    <2>3. call[q].pc = "idle" /\ issued' = issued /\ UNCHANGED <<retained, accepted, time>>
        BY <1>1 DEF Call, EncodeCall, DecodeCall
    <2> QED
        BY <1>1, <2>1, <2>2, <2>3 DEF Call
<1>2. CASE Encode(q)
    <2>1. ASSUME EncodeValidate(q) PROVE local
        BY <1>0, <1>b, <2>1 DEF EncodeValidate, Outcomes, Calls
    <2>2. ASSUME EncodeKey(q) PROVE local
        BY <1>0, <2>2 DEF EncodeKey, Calls
    <2>3. ASSUME EncodeSeal(q) PROVE local
        BY <1>0, <1>b, <2>3 DEF EncodeSeal, Outcomes, IdleCall
    <2>4. /\ call[q].pc \in EncodePC /\ issued \subseteq issued'
          /\ UNCHANGED <<retained, accepted, time>>
        BY <1>2 DEF Encode, EncodeValidate, EncodeKey, EncodeSeal, EncodePC
    <2> QED
        BY <1>2, <2>1, <2>2, <2>3, <2>4 DEF Encode, EncodePC
<1>3. CASE Decode(q)
    <2>1. ASSUME DecodeOpen(q) PROVE local
        BY <1>a, <1>b, <2>1 DEF DecodeOpen, Outcomes, AllPC, DecodePC
    <2>2. ASSUME DecodeClock(q) PROVE local
        BY <1>0, <2>2 DEF DecodeClock, Calls
    <2>3. ASSUME DecodeValidate(q) PROVE local
        <3> DEFINE verdict == Verdict(call[q].tok, call[q].want, time + call[q].clk)
        <3>1. verdict \in Outcomes \ {"ErrReplay"}
            BY DEF Verdict, Outcomes
        <3> HIDE DEF verdict
        <3>2. \/ Return(q, verdict)
              \/ call' = [call EXCEPT ![q].pc = "dec_ctx", ![q].clk = 0]
            BY <2>3 DEF DecodeValidate, verdict
        <3>3. call' = [call EXCEPT ![q].pc = "dec_ctx", ![q].clk = 0] => local
            BY <1>0 DEF Calls
        <3> QED
            BY <1>b, <3>1, <3>2, <3>3
    <2>4. ASSUME DecodeCtx(q) PROVE local
        BY <1>a, <1>b, <2>4 DEF DecodeCtx, Outcomes, AllPC, DecodePC
    <2>5. ASSUME DecodeReturn(q)
          PROVE  \/ local
                 \/ /\ call[q].pc = "rejected" /\ ~call[q].cancelled
                    /\ Return(q, "ErrReplay")
        BY <1>b, <2>5 DEF DecodeReturn, Outcomes
    <2>6. Return(q, "ErrReplay") =>
              /\ call'[q].pc = "idle" /\ call'[q].tok = call[q].tok
              /\ \A p \in Procs \ {q} : call'[p] = call[p]
        BY <1>0, ReturnStep DEF Outcomes
    <2>7. call[q].pc # "store" /\ UNCHANGED <<issued, retained, accepted, time>>
        BY <1>3 DEF Decode, DecodeOpen, DecodeClock, DecodeValidate, DecodeCtx, DecodeReturn
    <2> QED
        BY <1>3, <2>1, <2>2, <2>3, <2>4, <2>5, <2>6, <2>7 DEF Decode
<1> QED
    BY <1>1, <1>2, <1>3

\* Every fingerprint ever accepted is remembered, unless the store itself
\* turns expired ones away and this one has expired.
Remembered == StorePolicy # "expire" =>
    \A t \in accepted :
        t \in retained \/ (StorePolicy = "recheck_and_expire" /\ Stale(t))

\* A goroutine about to blame a replay, or having done so, names a spent cursor.
Blames(p) == \/ call[p].pc = "rejected" /\ ~call[p].cancelled
             \/ call[p].pc = "idle" /\ call[p].out = "ErrReplay"

BlameDeserved == \A p \in Procs :
    Blames(p) => call[p].tok \in issued \cup Foreign /\ Spent(call[p].tok)

StoreInv == TypeOK /\ Remembered /\ BlameDeserved

LEMMA StoreInvInit == Init => StoreInv
BY TypeInit DEF Init, StoreInv, Remembered, BlameDeserved, Blames, IdleCall

\* Time never runs back, so what has expired stays expired.
LEMMA StaleStays ==
    ASSUME TypeOK, [Next]_vars, NEW t \in issued \cup Foreign, Stale(t)
    PROVE  Stale(t)'
<1>0. ASSUME NEW u \in Tokens PROVE u.exp \in Nat
    BY CodecAssumption DEF Tokens
<1>1. t.exp \in Nat /\ time \in Nat
    BY <1>0, CodecAssumption DEF TypeOK
<1>2. time' = time \/ time' = time + 1
    BY LocalStep DEF Next, Store, vars, Rotate, SetClock, Tick, Cancel, StoreAccept,
       StoreReject, StoreEvict, Quiet
<1> QED
    BY <1>1, <1>2 DEF Stale

LEMMA RememberedStep ==
    ASSUME TypeOK, Remembered, [Next]_vars PROVE Remembered'
<1> SUFFICES ASSUME StorePolicy # "expire", NEW t \in accepted'
             PROVE  \/ t \in retained'
                    \/ StorePolicy = "recheck_and_expire" /\ Stale(t)'
    BY DEF Remembered
<1>1. CASE retained' = retained /\ accepted' = accepted
    <2>1. t \in issued \cup Foreign
        BY <1>1 DEF TypeOK
    <2> QED
        BY <1>1, <2>1, StaleStays DEF Remembered
<1>2. ASSUME NEW p \in Procs, StoreAccept(p)
      PROVE  \/ t \in retained'
             \/ StorePolicy = "recheck_and_expire" /\ Stale(t)'
    BY <1>2 DEF StoreAccept, Remembered, Stale
<1>3. ASSUME NEW u \in retained, StoreEvict(u)
      PROVE  \/ t \in retained'
             \/ StorePolicy = "recheck_and_expire" /\ Stale(t)'
    BY <1>3, CodecAssumption DEF StoreEvict, Remembered, Stale
<1> QED
    BY <1>1, <1>2, <1>3, LocalStep DEF Next, Store, vars, Rotate, SetClock, Tick, Cancel,
       StoreReject, Quiet

LEMMA BlameStep ==
    ASSUME TypeOK, BlameDeserved, [Next]_vars PROVE BlameDeserved'
<1> SUFFICES ASSUME NEW p \in Procs, Blames(p)'
             PROVE  call'[p].tok \in issued' \cup Foreign /\ Spent(call[p].tok)'
    BY DEF BlameDeserved
<1>1. /\ issued \subseteq issued' /\ accepted \subseteq accepted'
    BY LocalStep DEF Next, Store, vars, Rotate, SetClock, Tick, Cancel, StoreAccept,
       StoreReject, StoreEvict, Quiet
<1>2. ASSUME NEW t \in issued \cup Foreign, Spent(t)
      PROVE  t \in issued' \cup Foreign /\ Spent(t)'
    BY <1>1, <1>2, StaleStays DEF Spent
<1>3. ASSUME Blames(p), call'[p].tok = call[p].tok
      PROVE  call'[p].tok \in issued' \cup Foreign /\ Spent(call[p].tok)'
    BY <1>2, <1>3 DEF BlameDeserved, Spent, Stale
<1>4. CASE call'[p] = call[p]
    BY <1>3, <1>4 DEF Blames
<1>5. CASE Call(p) \/ Encode(p) \/ Decode(p)
    BY <1>3, <1>5, LocalStep DEF Blames
<1>6. CASE Cancel(p)
    BY <1>6 DEF Cancel, Blames, TypeOK, Calls, DecodePC
<1>7. CASE StoreAccept(p)
    BY <1>7, GotoStep DEF StoreAccept, Blames, TypeOK, AllPC, DecodePC
<1>8. CASE StoreReject(p)
    <2>1. /\ call'[p].pc = "rejected" /\ call'[p].tok = call[p].tok
          /\ call[p].tok \in issued \cup Foreign
          /\ call'[p].cancelled = call[p].cancelled
        BY <1>8 DEF StoreReject, At, Goto, TypeOK, RegistersOK, DecodePC, Calls
    <2>2. Spent(call[p].tok)
        BY <1>8, <2>1 DEF StoreReject, StoreCancelled, Blames, Spent, TypeOK
    <2> QED
        BY <1>2, <2>1, <2>2 DEF Spent, Stale
<1>9. \/ call'[p] = call[p]
      \/ Call(p) \/ Encode(p) \/ Decode(p)
      \/ Cancel(p) \/ StoreAccept(p) \/ StoreReject(p)
    <2>1. ASSUME NEW q \in Procs \ {p}, Call(q) \/ Encode(q) \/ Decode(q)
          PROVE  call'[p] = call[p]
        BY <2>1, LocalStep
    <2>2. ASSUME NEW q \in Procs \ {p}, Cancel(q) \/ StoreAccept(q) \/ StoreReject(q)
          PROVE  call'[p] = call[p]
        BY <2>2 DEF Cancel, StoreAccept, StoreReject, Goto, TypeOK
    <2>3. CASE UNCHANGED call
        BY <2>3
    <2> QED
        BY <2>1, <2>2, <2>3 DEF Next, Store, vars, Rotate, SetClock, Tick, StoreEvict
<1> QED
    BY <1>4, <1>5, <1>6, <1>7, <1>8, <1>9

LEMMA StoreInvStep == StoreInv /\ [Next]_vars => StoreInv'
BY TypeStep, RememberedStep, BlameStep DEF StoreInv

LEMMA StoreInvariant == Spec => []StoreInv
BY StoreInvInit, StoreInvStep, PTL DEF Spec

\* A caller is told its cursor was replayed only when it was: cancelled callers
\* get their context's error instead.
THEOREM ReplayErrorsTruthful == Spec => []ReplayErrorTruthful
<1>1. StoreInv => ReplayErrorTruthful
    BY DEF StoreInv, BlameDeserved, Blames, ReplayErrorTruthful
<1> QED
    BY <1>1, StoreInvariant, PTL

\* No cursor is consumed twice by a store that keeps every fingerprint, or that
\* checks expiry itself before it forgets one.
THEOREM ConsumedOnce ==
    ASSUME StorePolicy # "expire"
    PROVE  Spec => OneTimeConsumption
<1>1. StoreInv /\ [Next]_vars =>
        [\A p \in Procs : call[p].pc # "stored" /\ call'[p].pc = "stored" =>
            call[p].tok \in accepted' \ accepted]_vars
    <2> SUFFICES ASSUME StoreInv, Next, NEW p \in Procs,
                        call[p].pc # "stored", call'[p].pc = "stored"
                 PROVE  call[p].tok \in accepted' \ accepted
        OBVIOUS
    <2>1. StoreAccept(p)
        <3>1. ASSUME NEW q \in Procs, Call(q) \/ Encode(q) \/ Decode(q) PROVE FALSE
            BY <3>1, LocalStep DEF StoreInv
        <3>2. ASSUME NEW q \in Procs, Cancel(q) PROVE FALSE
            BY <3>2 DEF Cancel, StoreInv, TypeOK, Calls
        <3>3. ASSUME NEW q \in Procs, StoreReject(q) PROVE FALSE
            BY <3>3 DEF StoreReject, Goto, StoreInv, TypeOK, Calls
        <3>4. ASSUME NEW q \in Procs, StoreAccept(q), q # p PROVE FALSE
            BY <3>4 DEF StoreAccept, Goto, StoreInv, TypeOK
        <3> QED
            BY <3>1, <3>2, <3>3, <3>4 DEF Next, Store, Rotate, SetClock, Tick, StoreEvict
    <2> QED
        BY <2>1 DEF StoreAccept, StoreInv, Remembered
<1> QED
    BY <1>1, StoreInvariant, PTL DEF Spec, OneTimeConsumption

-----------------------------------------------------------------------------
\* The codec keeps the promise of CursorPromise.

Onward(p, from, to) ==
    /\ call[p].pc = from /\ call'[p].pc = to
    /\ call'[p].tok = call[p].tok /\ call'[p].want = call[p].want
    /\ call'[p].cancelled = call[p].cancelled

Over(p, o) == call'[p].pc = "idle" /\ call'[p].tok = call[p].tok /\ call'[p].out = o

Refusals == Outcomes \ {"none", "issued", "ok"}

Matches(t, w) == t.contract.schema = w.schema /\ t.contract.sorts = w.sorts

\* The path of a decode: what each of its own steps has established.
LEMMA DecodeFlow ==
    ASSUME TypeOK, NEW p \in Procs, Decode(p)
    PROVE  /\ Quiet
           /\ \/ Onward(p, "dec_key", "dec_clock") /\ Opens(call[p].tok)
              \/ Onward(p, "dec_clock", "dec_now")
              \/ /\ Onward(p, "dec_now", "dec_ctx")
                 /\ ReplayEnabled /\ Matches(call[p].tok, call[p].want)
              \/ Onward(p, "dec_ctx", "store")
              \/ call[p].pc = "stored" /\ Over(p, "ok")
              \/ /\ call[p].pc = "dec_now" /\ Over(p, "ok")
                 /\ ~ReplayEnabled /\ Matches(call[p].tok, call[p].want)
              \/ /\ call[p].pc \in DecodePC \ {"stored"}
                 /\ \E o \in Refusals : Over(p, o)
<1>0. call \in [Procs -> Calls] /\ call[p] \in Calls
    BY DEF TypeOK
<1>1. ASSUME NEW o \in Outcomes, Return(p, o) PROVE Over(p, o)
    BY <1>0, <1>1, ReturnStep DEF Over
<1>2. ASSUME NEW from, NEW to, call[p].pc = from, Goto(p, to) PROVE Onward(p, from, to)
    BY <1>0, <1>2 DEF Goto, Onward, Calls
<1>3. CASE DecodeOpen(p)
    BY <1>1, <1>2, <1>3 DEF DecodeOpen, At, DecodePC, Refusals, Outcomes
<1>4. CASE DecodeClock(p)
    BY <1>0, <1>4 DEF DecodeClock, At, Onward, Calls
<1>5. CASE DecodeValidate(p)
    <2> DEFINE verdict == Verdict(call[p].tok, call[p].want, time + call[p].clk)
    <2>1. /\ verdict \in Refusals \cup {"ok"}
          /\ verdict = "ok" => Matches(call[p].tok, call[p].want)
        BY DEF Verdict, Matches, Refusals, Outcomes
    <2> HIDE DEF verdict
    <2>2. CASE verdict = "ok" /\ ReplayEnabled
        BY <1>0, <1>5, <2>1, <2>2 DEF DecodeValidate, At, verdict, Onward, Calls
    <2>3. CASE ~(verdict = "ok" /\ ReplayEnabled)
        <3>1. Over(p, verdict) /\ call[p].pc = "dec_now" /\ Quiet
            BY <1>1, <1>5, <2>1, <2>3 DEF DecodeValidate, At, verdict, Refusals, Outcomes
        <3> QED
            BY <2>1, <2>3, <3>1, CodecAssumption DEF DecodePC
    <2> QED
        BY <2>2, <2>3
<1>6. CASE DecodeCtx(p)
    BY <1>1, <1>2, <1>6 DEF DecodeCtx, At, DecodePC, Refusals, Outcomes
<1>7. CASE DecodeReturn(p)
    BY <1>1, <1>7 DEF DecodeReturn, At, DecodePC, Refusals, Outcomes
<1> QED
    BY <1>3, <1>4, <1>5, <1>6, <1>7 DEF Decode, DecodeOpen, DecodeClock, DecodeValidate,
       DecodeCtx, DecodeReturn

\* A call of the codec, on its first step: refused on sight, or under way.
LEMMA DecodeCallFlow ==
    ASSUME TypeOK, NEW p \in Procs, NEW t \in Foreign \cup Tokens \cup {Malformed},
           NEW w \in Contracts, NEW x \in BOOLEAN, NEW f \in BOOLEAN, DecodeCall(p, t, w, x, f)
    PROVE  /\ Quiet /\ call[p].pc = "idle" /\ call'[p].tok = t
           /\ \A q \in Procs \ {p} : call'[q] = call[q]
           /\ \/ call'[p].pc = "idle" /\ call'[p].out \in Refusals
              \/ /\ call'[p].pc = "dec_key" /\ call'[p].want = w
                 /\ t # Malformed /\ t.version = Version
<1> DEFINE verdict == OnSight(t, x, f)
           go   == [[IdleCall EXCEPT !.tok = t] EXCEPT !.pc = "dec_key", !.want = w]
           stop == [[IdleCall EXCEPT !.tok = t] EXCEPT !.out = verdict]
<1>1. call' = [call EXCEPT ![p] = IF verdict = "go on" THEN go ELSE stop]
      /\ Quiet /\ call[p].pc = "idle"
    BY DEF DecodeCall, At
<1>2. /\ verdict = "go on" => t # Malformed /\ t.version = Version
      /\ verdict # "go on" => verdict \in Refusals
    BY DEF OnSight, Refusals, Outcomes
<1>3. /\ go.pc = "dec_key" /\ go.want = w /\ go.tok = t
      /\ stop.pc = "idle" /\ stop.out = verdict /\ stop.tok = t
    BY DEF IdleCall
<1> HIDE DEF verdict, go, stop
<1> QED
    BY <1>1, <1>2, <1>3 DEF TypeOK

LEMMA EncodeFlow ==
    ASSUME TypeOK, NEW p \in Procs, Encode(p)
    PROVE  /\ call[p].pc \in EncodePC
           /\ UNCHANGED <<retained, accepted>>
           /\ \A q \in Procs \ {p} : call'[q] = call[q]
           /\ \/ call'[p].pc \in EncodePC /\ issued' = issued
              \/ call'[p].pc = "idle" /\ call'[p].out \in Refusals /\ issued' = issued
              \/ /\ call'[p].pc = "idle" /\ call'[p].out = "issued"
                 /\ \E t \in Tokens \ issued : issued' = issued \cup {t}
<1>0. call \in [Procs -> Calls] /\ call[p] \in Calls
    BY DEF TypeOK
<1>1. ASSUME Return(p, "ErrInvalid")
      PROVE  /\ call'[p].pc = "idle" /\ call'[p].out \in Refusals
             /\ \A q \in Procs \ {p} : call'[q] = call[q]
    BY <1>0, <1>1, ReturnStep DEF Outcomes, Refusals
<1>2. CASE EncodeValidate(p)
    BY <1>0, <1>1, <1>2 DEF EncodeValidate, At, Quiet, EncodePC, Calls
<1>3. CASE EncodeKey(p)
    BY <1>0, <1>3 DEF EncodeKey, At, Quiet, EncodePC, Calls
<1>4. CASE EncodeSeal(p)
    <2>1. CASE Return(p, "ErrInvalid") /\ UNCHANGED issued
        BY <1>1, <1>4, <2>1 DEF EncodeSeal, At, EncodePC
    <2>2. ASSUME NEW n \in Nonces \ {t.nonce : t \in issued \cup Foreign},
                 issued' = issued \cup {[call[p].tok EXCEPT !.nonce = n]},
                 call' = [call EXCEPT ![p] = [IdleCall EXCEPT
                            !.tok = [call[p].tok EXCEPT !.nonce = n], !.out = "issued"]]
          PROVE  /\ call'[p].pc = "idle" /\ call'[p].out = "issued"
                 /\ \A q \in Procs \ {p} : call'[q] = call[q]
                 /\ \E t \in Tokens \ issued : issued' = issued \cup {t}
        <3> DEFINE t == [call[p].tok EXCEPT !.nonce = n]
        <3>1. t \in Tokens /\ t.nonce = n
            BY <1>4 DEF TypeOK, EncodeSeal, At, RegistersOK, EncodePC, Drafts, Tokens
        <3>2. t \notin issued
            BY <3>1
        <3>3. call'[p].pc = "idle" /\ call'[p].out = "issued"
            BY <1>0, <2>2 DEF IdleCall
        <3> QED
            BY <1>0, <2>2, <3>1, <3>2, <3>3
    <2> QED
        BY <1>4, <2>1, <2>2 DEF EncodeSeal, At, EncodePC
<1> QED
    BY <1>2, <1>3, <1>4 DEF Encode

LEMMA StoreFlow ==
    ASSUME TypeOK, NEW p \in Procs, StoreAccept(p) \/ StoreReject(p)
    PROVE  /\ StoreAccept(p) => Onward(p, "store", "stored")
           /\ StoreReject(p) => Onward(p, "store", "rejected")
           /\ \A q \in Procs \ {p} : call'[q] = call[q]
           /\ issued' = issued
BY DEF TypeOK, StoreAccept, StoreReject, At, Goto, Onward, Calls, Quiet

\* Nobody else seals under this codec's keys and version, and a contract is its
\* schema revision and its sorts.
NoForgery      == \A t \in Foreign : t.key \in Keys => t.version # Version
ContractsExact == \A c, d \in Contracts : c.schema = d.schema /\ c.sorts = d.sorts => c = d

\* What a decode knows of its cursor: from the seal on, that Encode issued it;
\* from the validation on, that it is what the caller expects.
Traced(p) == call[p].pc \in DecodePC =>
    /\ call[p].want \in Contracts /\ call[p].tok.version = Version
    /\ call[p].pc # "dec_key" => call[p].tok \in issued
    /\ call[p].pc \in {"dec_ctx", "store", "stored", "rejected"} =>
          ReplayEnabled /\ Matches(call[p].tok, call[p].want)

PromiseInv == /\ StoreInv
              /\ \A p \in Procs : Traced(p)
              /\ ~ReplayEnabled => accepted = {}

LEMMA PromiseInvInit == Init => PromiseInv
BY StoreInvInit DEF Init, PromiseInv, Traced, IdleCall, DecodePC

LEMMA PromiseInvStep ==
    ASSUME NoForgery, PromiseInv, [Next]_vars
    PROVE  PromiseInv'
<1>1. StoreInv' /\ TypeOK /\ TypeOK'
    BY StoreInvStep DEF PromiseInv, StoreInv
<1>2. issued \subseteq issued'
    BY <1>1, LocalStep DEF Next, Store, vars, Rotate, SetClock, Tick, Cancel, StoreAccept,
       StoreReject, StoreEvict, Quiet
<1>3. ASSUME NEW p \in Procs, call'[p] = call[p] PROVE Traced(p)'
    BY <1>2, <1>3 DEF PromiseInv, Traced
<1>4. ASSUME NEW p \in Procs, NEW from \in DecodePC, NEW to \in DecodePC,
             Onward(p, from, to), to # "dec_key",
             from = "dec_key" => call[p].tok \in issued,
             to \in {"dec_ctx", "store", "stored", "rejected"} =>
                 \/ from \in {"dec_ctx", "store", "stored", "rejected"}
                 \/ ReplayEnabled /\ Matches(call[p].tok, call[p].want)
      PROVE  Traced(p)'
    BY <1>2, <1>4 DEF PromiseInv, Traced, Onward, Matches
<1>5. ASSUME NEW p \in Procs, Call(p) \/ Encode(p) \/ Decode(p) \/ Cancel(p)
      PROVE  /\ \A q \in Procs : Traced(q)'
             /\ UNCHANGED accepted
    <2>1. CASE Call(p)
        <3>1. ASSUME NEW c \in Contracts, NEW e \in Expiries, EncodeCall(p, c, e)
              PROVE  Traced(p)' /\ \A q \in Procs \ {p} : call'[q] = call[q]
            BY <1>1, <3>1 DEF EncodeCall, Traced, IdleCall, DecodePC, TypeOK
        <3>2. ASSUME NEW t \in issued \cup Foreign \cup {Malformed}, NEW w \in Contracts,
                     NEW x \in BOOLEAN, NEW f \in BOOLEAN, DecodeCall(p, t, w, x, f)
              PROVE  Traced(p)' /\ \A q \in Procs \ {p} : call'[q] = call[q]
            <4>1. t \in Foreign \cup Tokens \cup {Malformed}
                BY <1>1 DEF TypeOK
            <4> QED
                BY <1>1, <3>2, <4>1, DecodeCallFlow DEF Traced, DecodePC
        <3>3. UNCHANGED accepted
            BY <2>1 DEF Call, EncodeCall, DecodeCall, Quiet
        <3> QED
            BY <1>3, <2>1, <3>1, <3>2, <3>3 DEF Call
    <2>2. CASE Encode(p)
        BY <1>1, <1>3, <2>2, EncodeFlow DEF Traced, EncodePC, DecodePC
    <2>3. CASE Decode(p)
        <3>1. Traced(p)'
            <4>1. Opens(call[p].tok) /\ call[p].pc = "dec_key" => call[p].tok \in issued
                <5>1. Opens(call[p].tok) => call[p].tok.key \in Keys
                    BY <1>1 DEF Opens, TypeOK
                <5>2. call[p].pc \in DecodePC
                    BY <1>1, <2>3, DecodeMoves
                <5>3. call[p].tok \in issued \cup Foreign /\ call[p].tok.version = Version
                    BY <1>1, <5>2 DEF TypeOK, RegistersOK, PromiseInv, Traced
                <5> QED
                    BY <5>1, <5>3 DEF NoForgery
            <4>2. ASSUME Over(p, "ok") \/ \E o \in Refusals : Over(p, o)
                  PROVE  Traced(p)'
                BY <4>2 DEF Over, Traced, DecodePC
            <4>3. CASE Onward(p, "dec_key", "dec_clock") /\ Opens(call[p].tok)
                BY <1>4, <4>1, <4>3 DEF Onward, DecodePC
            <4>4. CASE Onward(p, "dec_clock", "dec_now")
                BY <1>4, <4>4 DEF DecodePC
            <4>5. CASE /\ Onward(p, "dec_now", "dec_ctx")
                       /\ ReplayEnabled /\ Matches(call[p].tok, call[p].want)
                BY <1>4, <4>5 DEF DecodePC
            <4>6. CASE Onward(p, "dec_ctx", "store")
                BY <1>4, <4>6 DEF DecodePC
            <4> QED
                BY <1>1, <2>3, <4>2, <4>3, <4>4, <4>5, <4>6, DecodeFlow
        <3> QED
            BY <1>1, <1>3, <2>3, <3>1, DecodeMoves, DecodeFlow DEF Quiet
    <2>4. CASE Cancel(p)
        <3>1. /\ call'[p].pc = call[p].pc /\ call'[p].tok = call[p].tok
              /\ call'[p].want = call[p].want
              /\ \A q \in Procs \ {p} : call'[q] = call[q]
              /\ UNCHANGED <<issued, accepted>>
            BY <1>1, <2>4 DEF Cancel, TypeOK, Calls
        <3> QED
            BY <1>3, <3>1 DEF PromiseInv, Traced
    <2> QED
        BY <1>5, <2>1, <2>2, <2>3, <2>4
<1>6. ASSUME NEW p \in Procs, StoreAccept(p) \/ StoreReject(p)
      PROVE  /\ \A q \in Procs : Traced(q)'
             /\ ReplayEnabled
    <2>1. Traced(p)'
        BY <1>1, <1>4, <1>6, StoreFlow DEF DecodePC
    <2>2. ReplayEnabled
        BY <1>6 DEF PromiseInv, Traced, StoreAccept, StoreReject, At, DecodePC
    <2> QED
        BY <1>1, <1>3, <1>6, <2>1, <2>2, StoreFlow
<1>7. CASE UNCHANGED <<call, accepted>>
    BY <1>1, <1>3, <1>7 DEF PromiseInv
<1> QED
    BY <1>1, <1>5, <1>6, <1>7 DEF PromiseInv, Next, Store, vars, Rotate, SetClock, Tick,
       StoreEvict

\* What the state of a call means to its caller.
LEMMA ClaimMeaning ==
    ASSUME NEW c
    PROVE  /\ c.pc = "stored" => Claim(c) = [state |-> "granted", cursor |-> c.tok]
           /\ c.pc = "idle" /\ c.out = "ok" =>
                 Claim(c) = [state |-> "delivered", cursor |-> c.tok]
           /\ c.pc \in DecodePC \ {"stored"} =>
                 Claim(c) = [state |-> "pending", cursor |-> c.tok, want |-> c.want]
           /\ c.pc = "idle" /\ c.out \in Refusals => Claim(c) = [state |-> "refused"]
           /\ c.pc \in EncodePC \/ (c.pc = "idle" /\ c.out \in {"none", "issued"}) =>
                 Claim(c) = [state |-> "free"]
           /\ c.pc = "idle" => Claim(c).state \in {"free", "refused", "delivered"}
BY DEF Claim, DecodePC, EncodePC, Refusals, Outcomes

claims == [p \in Procs |-> Claim(call[p])]

LEMMA ClaimsSettle ==
    ASSUME NEW p \in Procs, \A q \in Procs \ {p} : call'[q] = call[q]
    PROVE  claims' = [claims EXCEPT ![p] = Claim(call'[p])]
BY DEF claims

LEMMA PromiseInitially == Init => Promise!Init
BY ClaimMeaning DEF Init, Promise!Init, Promise!Free, IdleCall

Begins == {Promise!Free, Promise!Refused} \cup
          {Promise!Pending(c, w) : c \in Tokens \cup Foreign \cup {Malformed}, w \in Contracts}

\* The actions of the promise, over the claims.
LEMMA PromiseActions ==
    ASSUME NEW p \in Procs
    PROVE  /\ \A v : Promise!Settle(p, v) <=>
                 claims' = [claims EXCEPT ![p] = v] /\ UNCHANGED issued
           /\ Promise!Begin(p) <=>
                 /\ claims[p].state \in {"free", "refused", "delivered"}
                 /\ \E v \in Begins : Promise!Settle(p, v)
                 /\ UNCHANGED accepted
           /\ Promise!Grant(p) <=>
                 /\ claims[p].state = "pending"
                 /\ claims[p].cursor \in issued \ accepted
                 /\ claims[p].cursor.contract = claims[p].want
                 /\ accepted' = IF ReplayEnabled THEN accepted \cup {claims[p].cursor} ELSE accepted
                 /\ Promise!Settle(p, IF ReplayEnabled THEN Promise!Granted(claims[p].cursor)
                                                       ELSE Promise!Delivered(claims[p].cursor))
           /\ Promise!Deliver(p) <=>
                 /\ claims[p].state = "granted"
                 /\ Promise!Settle(p, Promise!Delivered(claims[p].cursor))
                 /\ UNCHANGED accepted
           /\ Promise!Refuse(p) <=>
                 /\ claims[p].state = "pending"
                 /\ Promise!Settle(p, Promise!Refused)
                 /\ UNCHANGED accepted
<1>1. \A v : Promise!Settle(p, v) <=> claims' = [claims EXCEPT ![p] = v] /\ UNCHANGED issued
    BY DEF Promise!Settle, claims
<1>2. Promise!Begin(p) <=>
          /\ claims[p].state \in {"free", "refused", "delivered"}
          /\ \E v \in Begins : Promise!Settle(p, v)
          /\ UNCHANGED accepted
    BY DEF Promise!Begin, claims, Begins
<1>3. Promise!Grant(p) <=>
          /\ claims[p].state = "pending"
          /\ claims[p].cursor \in issued \ accepted
          /\ claims[p].cursor.contract = claims[p].want
          /\ accepted' = IF ReplayEnabled THEN accepted \cup {claims[p].cursor} ELSE accepted
          /\ Promise!Settle(p, IF ReplayEnabled THEN Promise!Granted(claims[p].cursor)
                                                ELSE Promise!Delivered(claims[p].cursor))
    BY DEF Promise!Grant, claims
<1>4. Promise!Deliver(p) <=>
          /\ claims[p].state = "granted"
          /\ Promise!Settle(p, Promise!Delivered(claims[p].cursor))
          /\ UNCHANGED accepted
    BY DEF Promise!Deliver, claims
<1>5. Promise!Refuse(p) <=>
          /\ claims[p].state = "pending"
          /\ Promise!Settle(p, Promise!Refused)
          /\ UNCHANGED accepted
    BY DEF Promise!Refuse, claims
<1> QED
    BY <1>1, <1>2, <1>3, <1>4, <1>5

\* The steps of one goroutine, as steps of its claim.
LEMMA ClaimSteps ==
    ASSUME NEW p \in Procs, \A q \in Procs \ {p} : call'[q] = call[q]
    PROVE  /\ Claim(call'[p]) = Claim(call[p]) => claims' = claims
           /\ /\ call[p].pc = "idle" /\ UNCHANGED <<issued, accepted>>
              /\ Claim(call'[p]) \in Begins
              => Promise!Begin(p)
           /\ /\ call[p].pc \in DecodePC \ {"stored"} /\ UNCHANGED <<issued, accepted>>
              /\ \E o \in Refusals : Over(p, o)
              => Promise!Refuse(p)
           /\ /\ call[p].pc = "stored" /\ Over(p, "ok") /\ UNCHANGED <<issued, accepted>>
              => Promise!Deliver(p)
           /\ /\ call[p].pc \in DecodePC \ {"stored"}
              /\ call[p].tok \in issued \ accepted /\ call[p].tok.contract = call[p].want
              /\ issued' = issued
              /\ \/ /\ ReplayEnabled /\ accepted' = accepted \cup {call[p].tok}
                    /\ Onward(p, call[p].pc, "stored")
                 \/ ~ReplayEnabled /\ accepted' = accepted /\ Over(p, "ok")
              => Promise!Grant(p)
<1>1. /\ claims' = [claims EXCEPT ![p] = Claim(call'[p])]
      /\ claims[p] = Claim(call[p])
      /\ \A v : v = Claim(call'[p]) /\ UNCHANGED issued => Promise!Settle(p, v)
    BY ClaimsSettle, PromiseActions DEF claims
<1>2. Claim(call'[p]) = Claim(call[p]) => claims' = claims
    BY <1>1 DEF claims
<1>3. ASSUME call[p].pc = "idle", UNCHANGED <<issued, accepted>>, Claim(call'[p]) \in Begins
      PROVE  Promise!Begin(p)
    <2>1. claims[p].state \in {"free", "refused", "delivered"}
        BY <1>1, <1>3, ClaimMeaning
    <2> QED
        BY <1>1, <1>3, <2>1, PromiseActions
<1>4. ASSUME call[p].pc \in DecodePC \ {"stored"}, UNCHANGED <<issued, accepted>>,
             NEW o \in Refusals, Over(p, o)
      PROVE  Promise!Refuse(p)
    <2>1. claims[p].state = "pending" /\ Claim(call'[p]) = Promise!Refused
        BY <1>1, <1>4, ClaimMeaning DEF Over, Promise!Refused
    <2> QED
        BY <1>1, <1>4, <2>1, PromiseActions
<1>5. ASSUME call[p].pc = "stored", Over(p, "ok"), UNCHANGED <<issued, accepted>>
      PROVE  Promise!Deliver(p)
    <2>1. /\ claims[p].state = "granted" /\ claims[p].cursor = call[p].tok
          /\ Claim(call'[p]) = Promise!Delivered(call[p].tok)
        BY <1>1, <1>5, ClaimMeaning DEF Over, Promise!Delivered
    <2> QED
        BY <1>1, <1>5, <2>1, PromiseActions
<1>6. ASSUME call[p].pc \in DecodePC \ {"stored"}, issued' = issued,
             call[p].tok \in issued \ accepted, call[p].tok.contract = call[p].want,
             \/ /\ ReplayEnabled /\ accepted' = accepted \cup {call[p].tok}
                /\ Onward(p, call[p].pc, "stored")
             \/ ~ReplayEnabled /\ accepted' = accepted /\ Over(p, "ok")
      PROVE  Promise!Grant(p)
    <2>1. /\ claims[p].state = "pending" /\ claims[p].cursor = call[p].tok
          /\ claims[p].want = call[p].want
        BY <1>1, <1>6, ClaimMeaning
    <2>2. Claim(call'[p]) = IF ReplayEnabled THEN Promise!Granted(call[p].tok)
                                             ELSE Promise!Delivered(call[p].tok)
        BY <1>6, ClaimMeaning DEF Over, Onward, Promise!Granted, Promise!Delivered
    <2> QED
        BY <1>1, <1>6, <2>1, <2>2, PromiseActions
<1> QED
    BY <1>2, <1>3, <1>4, <1>5, <1>6

\* Every step of the codec is a step of the promise, or none.
LEMMA PromiseStep ==
    ASSUME ContractsExact, ReplayEnabled => StorePolicy # "expire", PromiseInv, [Next]_vars
    PROVE  Promise!Next \/ UNCHANGED <<issued, accepted, claims>>
<1>0. TypeOK /\ StoreInv /\ \A p \in Procs : Traced(p)
    BY DEF PromiseInv, StoreInv
<1>1. ASSUME NEW p \in Procs, Call(p)
      PROVE  Promise!Begin(p)
    <2>1. ASSUME NEW c \in Contracts, NEW e \in Expiries, EncodeCall(p, c, e)
          PROVE  Promise!Begin(p)
        <3>1. /\ call[p].pc = "idle" /\ call'[p].pc = "enc_now"
              /\ \A q \in Procs \ {p} : call'[q] = call[q]
              /\ UNCHANGED <<issued, accepted>>
            BY <1>0, <2>1 DEF EncodeCall, At, Quiet, TypeOK, IdleCall
        <3>2. Claim(call'[p]) \in Begins
            BY <3>1, ClaimMeaning DEF EncodePC, Begins, Promise!Free
        <3> QED
            BY <3>1, <3>2, ClaimSteps
    <2>2. ASSUME NEW t \in issued \cup Foreign \cup {Malformed}, NEW w \in Contracts,
                 NEW x \in BOOLEAN, NEW f \in BOOLEAN, DecodeCall(p, t, w, x, f)
          PROVE  Promise!Begin(p)
        <3>1. t \in Foreign \cup Tokens \cup {Malformed}
            BY <1>0 DEF TypeOK
        <3>2. /\ Quiet /\ call[p].pc = "idle" /\ call'[p].tok = t
              /\ \A q \in Procs \ {p} : call'[q] = call[q]
              /\ \/ call'[p].pc = "idle" /\ call'[p].out \in Refusals
                 \/ call'[p].pc = "dec_key" /\ call'[p].want = w
            BY <1>0, <2>2, <3>1, DecodeCallFlow
        <3>3. Claim(call'[p]) \in {Promise!Refused, Promise!Pending(t, w)}
            BY <3>2, ClaimMeaning DEF DecodePC, Promise!Refused, Promise!Pending
        <3>4. Claim(call'[p]) \in Begins
            BY <3>1, <3>3 DEF Begins
        <3> QED
            BY <3>2, <3>4, ClaimSteps DEF Quiet
    <2> QED
        BY <1>1, <2>1, <2>2 DEF Call
<1>2. ASSUME NEW p \in Procs, Encode(p)
      PROVE  Promise!Next \/ UNCHANGED <<issued, accepted, claims>>
    <2>1. Claim(call[p]) = Promise!Free /\ claims[p].state = "free"
        BY <1>0, <1>2, EncodeFlow, ClaimMeaning DEF Promise!Free, claims
    <2>2. CASE call'[p].pc \in EncodePC /\ issued' = issued
        BY <1>0, <1>2, <2>1, <2>2, EncodeFlow, ClaimMeaning, ClaimSteps DEF Promise!Free
    <2>3. CASE call'[p].pc = "idle" /\ call'[p].out \in Refusals /\ issued' = issued
        <3>1. Claim(call'[p]) \in Begins
            BY <2>3, ClaimMeaning DEF Begins, Promise!Refused
        <3>2. Promise!Settle(p, Claim(call'[p])) /\ UNCHANGED accepted
            BY <1>0, <1>2, <2>3, EncodeFlow, ClaimsSettle, PromiseActions
        <3> QED
            BY <2>1, <3>1, <3>2, PromiseActions DEF Promise!Next
    <2>4. ASSUME call'[p].pc = "idle", call'[p].out = "issued",
                 NEW t \in Tokens \ issued, issued' = issued \cup {t}
          PROVE  Promise!Next
        <3>1. claims' = claims /\ UNCHANGED accepted
            BY <1>0, <1>2, <2>1, <2>4, EncodeFlow, ClaimMeaning, ClaimSteps DEF Promise!Free
        <3>2. Promise!Issue(t)
            BY <2>4, <3>1 DEF Promise!Issue, claims
        <3> QED
            BY <3>2 DEF Promise!Next
    <2> QED
        BY <1>0, <1>2, <2>2, <2>3, <2>4, EncodeFlow
<1>3. ASSUME NEW p \in Procs, NEW from \in DecodePC \ {"stored"}, NEW to \in DecodePC \ {"stored"},
             Onward(p, from, to), \A q \in Procs \ {p} : call'[q] = call[q]
      PROVE  claims' = claims
    <2>1. Claim(call'[p]) = Claim(call[p])
        BY <1>3, ClaimMeaning DEF Onward
    <2> QED
        BY <1>3, <2>1, ClaimSteps
<1>4. ASSUME NEW p \in Procs, call[p].pc \in DecodePC, call[p].tok \in issued,
             Matches(call[p].tok, call[p].want)
      PROVE  call[p].tok.contract = call[p].want
    <2>1. call[p].tok.contract \in Contracts /\ call[p].want \in Contracts
        BY <1>0, <1>4 DEF TypeOK, Tokens, Traced
    <2> QED
        BY <1>4, <2>1 DEF Matches, ContractsExact
<1>5. ASSUME NEW p \in Procs, Decode(p)
      PROVE  Promise!Next \/ UNCHANGED <<issued, accepted, claims>>
    <2>1. UNCHANGED <<issued, accepted>> /\ \A q \in Procs \ {p} : call'[q] = call[q]
        BY <1>0, <1>5, DecodeFlow, DecodeMoves DEF Quiet
    <2>2. CASE \/ Onward(p, "dec_key", "dec_clock") \/ Onward(p, "dec_clock", "dec_now")
               \/ Onward(p, "dec_now", "dec_ctx") \/ Onward(p, "dec_ctx", "store")
        BY <1>3, <2>1, <2>2 DEF DecodePC
    <2>3. CASE call[p].pc = "stored" /\ Over(p, "ok")
        BY <2>1, <2>3, ClaimSteps DEF Promise!Next
    <2>4. CASE /\ call[p].pc = "dec_now" /\ Over(p, "ok")
               /\ ~ReplayEnabled /\ Matches(call[p].tok, call[p].want)
        <3>1. call[p].tok \in issued \ accepted
            BY <1>0, <2>4 DEF PromiseInv, Traced, DecodePC
        <3>2. call[p].tok.contract = call[p].want
            BY <1>4, <2>4, <3>1 DEF DecodePC
        <3>3. Promise!Grant(p)
            BY <2>1, <2>4, <3>1, <3>2, ClaimSteps DEF DecodePC
        <3> QED
            BY <3>3 DEF Promise!Next
    <2>5. CASE call[p].pc \in DecodePC \ {"stored"} /\ \E o \in Refusals : Over(p, o)
        BY <2>1, <2>5, ClaimSteps DEF Promise!Next
    <2> QED
        BY <1>0, <1>5, <2>2, <2>3, <2>4, <2>5, DecodeFlow
<1>6. ASSUME NEW p \in Procs, Cancel(p)
      PROVE  UNCHANGED <<issued, accepted, claims>>
    <2>1. /\ call'[p].pc = call[p].pc /\ call'[p].tok = call[p].tok
          /\ call'[p].want = call[p].want /\ call'[p].out = call[p].out
          /\ \A q \in Procs \ {p} : call'[q] = call[q]
          /\ UNCHANGED <<issued, accepted>>
        BY <1>0, <1>6 DEF Cancel, TypeOK, Calls
    <2>2. Claim(call'[p]) = Claim(call[p])
        BY <2>1 DEF Claim
    <2> QED
        BY <2>1, <2>2, ClaimSteps
<1>7. ASSUME NEW p \in Procs, StoreAccept(p)
      PROVE  Promise!Grant(p)
    <2>1. /\ Onward(p, "store", "stored") /\ issued' = issued
          /\ \A q \in Procs \ {p} : call'[q] = call[q]
        BY <1>0, <1>7, StoreFlow
    <2>2. /\ call[p].tok \in issued /\ ReplayEnabled
          /\ Matches(call[p].tok, call[p].want) /\ call[p].pc \in DecodePC \ {"stored"}
        BY <1>0, <2>1 DEF Onward, Traced, DecodePC
    <2>3. call[p].tok \notin accepted /\ accepted' = accepted \cup {call[p].tok}
        BY <1>0, <1>7, <2>2 DEF StoreAccept, StoreInv, Remembered
    <2>4. call[p].tok.contract = call[p].want
        BY <1>4, <2>2
    <2> QED
        BY <2>1, <2>2, <2>3, <2>4, ClaimSteps DEF Onward
<1>8. ASSUME NEW p \in Procs, StoreReject(p)
      PROVE  UNCHANGED <<issued, accepted, claims>>
    BY <1>0, <1>3, <1>8, StoreFlow DEF StoreReject, Quiet, DecodePC
<1>9. CASE UNCHANGED <<call, issued, accepted>>
    BY <1>9 DEF claims
<1> QED
    BY <1>1, <1>2, <1>5, <1>6, <1>7, <1>8, <1>9 DEF Next, Store, vars, Rotate, SetClock, Tick,
       StoreEvict, Promise!Next

\* The codec implements its promise: whatever the keyring, the clocks, the store
\* and the interleaving, a claim is granted only for a cursor that Encode issued
\* for the same contract and, with a store, never twice; and what was granted is
\* delivered (src/cursor/cursor.go:272-361, src/docs/cursor.md:29-34).  The
\* hypotheses: nobody else holds the keys, a contract is its schema and sorts,
\* and the store is not one that forgets what it would accept again.
THEOREM CodecKeepsPromise ==
    ASSUME NoForgery, ContractsExact, ReplayEnabled => StorePolicy # "expire"
    PROVE  Spec => ImplementsPromise
<1>1. Init => Promise!Init
    BY PromiseInitially
<1>2. PromiseInv /\ [Next]_vars =>
          [Promise!Next]_<<issued, accepted, [p \in Procs |-> Claim(call[p])]>>
    BY PromiseStep DEF claims
<1>3. Spec => []PromiseInv
    <2>1. Init => PromiseInv
        BY PromiseInvInit
    <2>2. PromiseInv /\ [Next]_vars => PromiseInv'
        BY PromiseInvStep
    <2> QED
        BY <2>1, <2>2, PTL DEF Spec
<1> QED
    BY <1>1, <1>2, <1>3, PTL DEF Spec, ImplementsPromise, Promise!Spec

-----------------------------------------------------------------------------
\* Key rotation.

\* The parts of RInv a step can disturb one by one.
WithinTTL   == \A t \in issued : t.exp <= time + MaxTTL
DroppedLate == \A k \in Keys \ keys : retirable[k] <= time
DraftsOK    == \A p \in Procs : DraftOK(p)

LEMMA RInvParts == RInv <=> /\ RTypeOK /\ OldCursorsExpire /\ NoFalseRejection
                            /\ WithinTTL /\ DroppedLate /\ DraftsOK
BY DEF RInv, WithinTTL, DroppedLate, DraftsOK

LEMMA RInvPartsNext ==
    ASSUME RTypeOK', OldCursorsExpire', NoFalseRejection', WithinTTL', DroppedLate', DraftsOK'
    PROVE  RInv'
BY DEF RInv, WithinTTL, DroppedLate, DraftsOK

LEMMA TokenTyped == ASSUME NEW t \in Tokens
                    PROVE  t.exp \in Nat /\ t.key \in Keys /\ t.version = Version
BY CodecAssumption DEF Tokens

LEMMA RInvInit == RInit => RInv
<1> SUFFICES ASSUME RInit PROVE RInv
    OBVIOUS
<1>1. TypeOK
    BY TypeInit DEF RInit
<1>2. \A p \in Procs : call[p] = IdleCall
    BY DEF RInit, Init
<1>3. DraftsOK /\ NoFalseRejection
    BY <1>2 DEF DraftsOK, DraftOK, NoFalseRejection, IdleCall, EncodePC
<1>4. RTypeOK
    BY <1>1 DEF RTypeOK, RInit, Init
<1>5. OldCursorsExpire /\ WithinTTL /\ DroppedLate
    BY CodecAssumption DEF RInit, Init, OldCursorsExpire, WithinTTL, DroppedLate
<1> QED
    BY <1>3, <1>4, <1>5, RInvParts

-----------------------------------------------------------------------------
\* Everything the codec does leaves the ring and the retirement dates alone,
\* so an older invariant only has to be carried to the goroutine that moved.

Quiescent == UNCHANGED <<active, keys, retirable>>

LEMMA DraftCarries ==
    ASSUME NEW q \in Procs, DraftOK(q), call'[q] = call[q], Quiescent,
           TypeOK, time' = time \/ time' = time + 1
    PROVE  DraftOK(q)'
<1>1. call[q].now \in Nat /\ time \in Nat
    BY CodecAssumption DEF TypeOK, Calls
<1> QED
    BY <1>1 DEF DraftOK, Quiescent

\* One step of goroutine p that issues nothing: only p's registers are new.
LEMMA LocalRInv ==
    ASSUME RInv, RTypeOK', NEW p \in Procs, Quiescent, UNCHANGED <<time, issued>>,
           \A q \in Procs \ {p} : call'[q] = call[q],
           DraftOK(p)',
           /\ call'[p].pc = "idle" /\ call'[p].out = "ErrInvalid"
           /\ call'[p].tok \in issued
           => Stale(call'[p].tok) \/ ReplayEnabled
    PROVE  RInv'
<1>1. DraftsOK'
    BY DraftCarries, RInvParts DEF DraftsOK, RTypeOK
<1>2. NoFalseRejection'
    BY RInvParts DEF NoFalseRejection, Stale
<1>3. OldCursorsExpire' /\ WithinTTL' /\ DroppedLate'
    BY RInvParts DEF OldCursorsExpire, WithinTTL, DroppedLate, Quiescent
<1> QED
    BY <1>1, <1>2, <1>3, RInvPartsNext

LEMMA EncodeRInv ==
    ASSUME RInv, RTypeOK', NEW p \in Procs, Encode(p), UNCHANGED retirable
    PROVE  RInv'
<1>0. /\ TypeOK /\ DraftOK(p) /\ call \in [Procs -> Calls] /\ RegistersOK(p)
      /\ call[p] \in Calls /\ time \in Nat /\ MaxTTL \in Nat
    BY CodecAssumption DEF RInv, RTypeOK, TypeOK
<1>1. ASSUME EncodeValidate(p) PROVE RInv'
    <2>1. Quiescent /\ UNCHANGED <<time, issued>>
        BY <1>1 DEF EncodeValidate, Quiet, Quiescent
    <2>2. CASE Return(p, "ErrInvalid")
        <3>1. call[p].tok \in Drafts /\ call[p].tok \notin issued
            BY <1>0, <1>1, CodecAssumption
            DEF EncodeValidate, At, RegistersOK, EncodePC, Drafts, Tokens, TypeOK
        <3> QED
            BY <1>0, <2>1, <2>2, <3>1, ReturnStep, LocalRInv
            DEF Outcomes, DraftOK, EncodePC
    <2>3. CASE /\ ValidAt(call[p].tok.exp, time + call[p].clk)
               /\ call' = [call EXCEPT ![p].pc = "enc_key", ![p].now = time + call[p].clk,
                                       ![p].clk = 0]
        <3>1. call[p].pc = "enc_now" /\ call[p].clk = 0 /\ call[p].tok.key = NoKey
            BY <1>0, <1>1 DEF EncodeValidate, At, DraftOK, EncodePC
        <3>2. /\ call'[p].pc = "enc_key" /\ call'[p].now = time /\ call'[p].clk = 0
              /\ call'[p].tok = call[p].tok
              /\ \A q \in Procs \ {p} : call'[q] = call[q]
            BY <1>0, <2>3, <3>1 DEF Calls
        <3>3. DraftOK(p)'
            BY <1>0, <2>1, <2>3, <3>1, <3>2 DEF DraftOK, ValidAt
        <3> QED
            BY <2>1, <3>2, <3>3, LocalRInv
    <2> QED
        BY <1>1, <2>2, <2>3 DEF EncodeValidate
<1>2. ASSUME EncodeKey(p) PROVE RInv'
    <2>1. Quiescent /\ UNCHANGED <<time, issued>>
        BY <1>2 DEF EncodeKey, Quiet, Quiescent
    <2>2. call[p].pc = "enc_key" /\ call[p].tok \in Drafts
        BY <1>0, <1>2 DEF EncodeKey, At, RegistersOK, EncodePC
    <2>3. call'[p] = [call[p] EXCEPT !.pc = "enc_seal",
                                     !.tok = [call[p].tok EXCEPT !.key = active]]
        BY <1>0, <1>2 DEF EncodeKey, Calls
    <2>4. /\ call'[p].pc = "enc_seal" /\ call'[p].now = call[p].now
          /\ call'[p].clk = call[p].clk
          /\ call'[p].tok = [call[p].tok EXCEPT !.key = active]
        BY <1>0, <2>3 DEF Calls
    <2>5. call'[p].tok.key = active /\ call'[p].tok.exp = call[p].tok.exp
        BY <2>2, <2>4 DEF Drafts
    <2>6. DraftOK(p)'
        BY <1>0, <2>1, <2>2, <2>4, <2>5 DEF DraftOK, EncodePC, Quiescent
    <2>7. \A q \in Procs \ {p} : call'[q] = call[q]
        BY <1>0, <1>2 DEF EncodeKey
    <2> QED
        BY <2>1, <2>4, <2>6, <2>7, LocalRInv
<1>3. ASSUME EncodeSeal(p) PROVE RInv'
    <2>1. Quiescent /\ UNCHANGED time /\ call[p].tok \in Drafts /\ call[p].pc = "enc_seal"
        BY <1>0, <1>3 DEF EncodeSeal, At, Quiescent, RegistersOK, EncodePC
    <2>2. CASE Return(p, "ErrInvalid") /\ UNCHANGED issued
        <3>1. call[p].tok \notin issued
            BY <1>0, <2>1, CodecAssumption DEF Drafts, Tokens, TypeOK
        <3> QED
            BY <1>0, <2>1, <2>2, <3>1, ReturnStep, LocalRInv
            DEF Outcomes, DraftOK, EncodePC
    <2>3. ASSUME NEW n \in Nonces \ {t.nonce : t \in issued \cup Foreign},
                 issued' = issued \cup {[call[p].tok EXCEPT !.nonce = n]},
                 call' = [call EXCEPT ![p] = [IdleCall EXCEPT
                            !.tok = [call[p].tok EXCEPT !.nonce = n], !.out = "issued"]]
          PROVE  RInv'
        <3> DEFINE t == [call[p].tok EXCEPT !.nonce = n]
                   done == [IdleCall EXCEPT !.tok = t, !.out = "issued"]
        <3>1. /\ t.exp = call[p].tok.exp /\ t.key = call[p].tok.key /\ t.nonce = n
              /\ t.exp \in Nat /\ t \in Tokens
            BY <1>0, <2>1, CodecAssumption DEF Drafts, Tokens, RegistersOK
        <3>2. done.pc = "idle" /\ done.out = "issued"
            BY DEF IdleCall
        <3>3. t \notin issued \cup Foreign \cup Drafts \cup {Malformed, NoToken}
            BY <2>3, <3>1, CodecAssumption DEF Drafts
        <3>4. issued' = issued \cup {t} /\ call' = [call EXCEPT ![p] = done]
            BY <2>3
        <3> HIDE DEF t, done
        <3>5. /\ call'[p] = done
              /\ \A q \in Procs \ {p} : call'[q] = call[q]
            BY <1>0, <3>4
        <3>6. t.exp <= time + MaxTTL /\ (t.key # active => t.exp <= retirable[t.key])
            <4>1. call[p].now \in Nat
                BY <1>0 DEF Calls
            <4> QED
                BY <1>0, <2>1, <3>1, <4>1 DEF DraftOK
        <3>7. OldCursorsExpire' /\ WithinTTL' /\ DroppedLate'
            BY <2>1, <3>4, <3>6, RInvParts
            DEF OldCursorsExpire, WithinTTL, DroppedLate, Quiescent
        <3>8. DraftsOK'
            <4>1. DraftOK(p)'
                BY <3>2, <3>5 DEF DraftOK, EncodePC
            <4> QED
                BY <1>0, <2>1, <3>5, <4>1, DraftCarries, RInvParts DEF DraftsOK
        <3>9. NoFalseRejection'
            <4>1. \A q \in Procs : call[q].tok # t
                BY <1>0, <3>3 DEF TypeOK, RegistersOK
            <4> QED
                BY <2>1, <3>2, <3>4, <3>5, <4>1, RInvParts DEF NoFalseRejection, Stale
        <3> QED
            BY <3>7, <3>8, <3>9, RInvPartsNext
    <2> QED
        BY <1>3, <2>2, <2>3 DEF EncodeSeal
<1> QED
    BY <1>1, <1>2, <1>3 DEF Encode

\* Decoding a genuine cursor fails with ErrInvalid only past its expiry: its
\* key is retained until then, and its lifetime was within MaxTTL at sealing.
LEMMA DecodeRInv ==
    ASSUME RInv, RTypeOK', NEW p \in Procs, Decode(p), UNCHANGED retirable
    PROVE  RInv'
<1> DEFINE rejects == call'[p].pc = "idle" /\ call'[p].out = "ErrInvalid"
<1>0. /\ TypeOK /\ call \in [Procs -> Calls] /\ RegistersOK(p) /\ call[p] \in Calls
      /\ time \in Nat /\ active \in keys /\ keys \subseteq Keys
    BY CodecAssumption DEF RInv, RTypeOK, TypeOK, RingOf
<1>1. Quiescent /\ UNCHANGED <<time, issued>>
    BY DEF Decode, DecodeOpen, DecodeClock, DecodeValidate, DecodeCtx, DecodeReturn,
       Quiet, Quiescent
<1>2. /\ call[p].pc \in DecodePC /\ call'[p].pc \in DecodePC \cup {"idle"}
      /\ call'[p].tok = call[p].tok
      /\ \A q \in Procs \ {p} : call'[q] = call[q]
    BY <1>0, DecodeMoves
<1>3. DraftOK(p)'
    BY <1>2 DEF DraftOK, EncodePC, DecodePC
<1>4. ASSUME rejects, call[p].tok \in issued, ~ReplayEnabled
      PROVE  Stale(call[p].tok)
    <2> DEFINE t == call[p].tok
    <2>0. /\ t \in Tokens /\ t.exp \in Nat /\ t.key \in Keys
          /\ t.exp <= time + MaxTTL
          /\ t.key # active => t.exp <= retirable[t.key]
          /\ t.key \notin keys => retirable[t.key] <= time
          /\ retirable[t.key] \in Nat
        BY <1>0, <1>4, TokenTyped, RInvParts
        DEF TypeOK, WithinTTL, OldCursorsExpire, DroppedLate, RTypeOK
    <2>1. CASE DecodeOpen(p)
        <3>1. ~Opens(t)
            BY <1>0, <1>4, <2>1, GotoStep DEF DecodeOpen, AllPC, DecodePC
        <3> QED
            BY <1>0, <2>0, <3>1 DEF Opens, Stale
    <2>2. CASE DecodeValidate(p)
        <3> DEFINE now == time + call[p].clk
                   verdict == Verdict(t, call[p].want, now)
        <3>1. call[p].clk \in Nat
            BY <1>0, CodecAssumption DEF Calls
        <3>2. verdict \in Outcomes /\ (verdict = "ErrInvalid" => ~ValidAt(t.exp, now) /\ t.exp > now)
            BY <2>0, <3>1, <1>0 DEF Verdict, Outcomes
        <3>3. Return(p, verdict)
            <4>1. call' = [call EXCEPT ![p].pc = "dec_ctx", ![p].clk = 0]
                  => call'[p].pc = "dec_ctx"
                BY <1>0 DEF Calls
            <4> HIDE DEF verdict
            <4> QED
                BY <1>4, <2>2, <4>1 DEF DecodeValidate, verdict
        <3>4. verdict = "ErrInvalid"
            <4> HIDE DEF verdict
            <4> QED
                BY <1>0, <1>4, <3>2, <3>3, ReturnStep
        <3> HIDE DEF verdict
        <3> QED
            BY <1>0, <2>0, <3>1, <3>2, <3>4, CodecAssumption DEF ValidAt
    <2>3. CASE DecodeClock(p)
        BY <1>0, <1>4, <2>3 DEF DecodeClock, Calls
    <2>4. CASE DecodeCtx(p)
        BY <1>0, <1>4, <2>4, GotoStep, ReturnStep DEF DecodeCtx, AllPC, DecodePC, Outcomes
    <2>5. CASE DecodeReturn(p)
        BY <1>0, <1>4, <2>5, ReturnStep DEF DecodeReturn, Outcomes
    <2> QED
        BY <2>1, <2>2, <2>3, <2>4, <2>5 DEF Decode
<1> QED
    BY <1>1, <1>2, <1>3, <1>4, LocalRInv, CodecAssumption

\* A call begins, or its context is cancelled: nothing has been decided yet,
\* except for a cursor refused on sight, which is not a genuine one.
LEMMA CallRInv ==
    ASSUME RInv, RTypeOK', NEW p \in Procs, Call(p) \/ Cancel(p), UNCHANGED retirable
    PROVE  RInv'
<1>0. call \in [Procs -> Calls] /\ call[p] \in Calls /\ clock = 0 /\ issued \subseteq Tokens
    BY DEF RInv, RTypeOK, TypeOK
<1>1. Quiescent /\ UNCHANGED <<time, issued>>
    BY DEF Call, EncodeCall, DecodeCall, Cancel, Quiet, Quiescent
<1>2. ASSUME NEW c \in Contracts, NEW e \in Expiries, EncodeCall(p, c, e) PROVE RInv'
    <2>1. /\ call'[p].pc = "enc_now" /\ call'[p].clk = 0 /\ call'[p].tok.key = NoKey
          /\ \A q \in Procs \ {p} : call'[q] = call[q]
        BY <1>0, <1>2 DEF EncodeCall, IdleCall, Token
    <2> QED
        BY <1>1, <2>1, LocalRInv DEF DraftOK
<1>3. ASSUME NEW t \in issued \cup Foreign \cup {Malformed}, NEW w \in Contracts,
             NEW x \in BOOLEAN, NEW f \in BOOLEAN, DecodeCall(p, t, w, x, f)
      PROVE  RInv'
    <2>1. \/ call'[p] = [[IdleCall EXCEPT !.tok = t] EXCEPT !.pc = "dec_key", !.want = w]
          \/ call'[p] = [[IdleCall EXCEPT !.tok = t] EXCEPT !.out = OnSight(t, x, f)]
        BY <1>0, <1>3 DEF DecodeCall
    <2>2. /\ call'[p].pc \in {"dec_key", "idle"} /\ call'[p].tok = t
          /\ call'[p].out \in {"none", OnSight(t, x, f)}
        BY <2>1 DEF IdleCall
    <2>3. \A q \in Procs \ {p} : call'[q] = call[q]
        BY <1>0, <1>3 DEF DecodeCall
    <2>4. OnSight(t, x, f) = "ErrInvalid" /\ t \in issued => ReplayEnabled
        BY <1>0, CodecAssumption DEF OnSight
    <2>5. DraftOK(p)'
        BY <2>2 DEF DraftOK, EncodePC
    <2> QED
        BY <1>1, <2>2, <2>3, <2>4, <2>5, LocalRInv
<1>4. ASSUME Cancel(p) PROVE RInv'
    <2>1. /\ call'[p].pc = call[p].pc /\ call[p].pc \in DecodePC
          /\ \A q \in Procs \ {p} : call'[q] = call[q]
        BY <1>0, <1>4 DEF Cancel, Calls
    <2>2. DraftOK(p)'
        BY <2>1 DEF DraftOK, EncodePC, DecodePC
    <2> QED
        BY <1>1, <2>1, <2>2, LocalRInv DEF DecodePC
<1> QED
    BY <1>2, <1>3, <1>4 DEF Call

LEMMA StoreRInv ==
    ASSUME RInv, RTypeOK', Store, UNCHANGED retirable
    PROVE  RInv'
<1>0. call \in [Procs -> Calls]
    BY DEF RInv, RTypeOK, TypeOK
<1>1. ASSUME NEW p \in Procs, StoreAccept(p) \/ StoreReject(p) PROVE RInv'
    <2>1. /\ call'[p].pc \in DecodePC
          /\ \A q \in Procs \ {p} : call'[q] = call[q]
        BY <1>0, <1>1, GotoStep DEF StoreAccept, StoreReject, AllPC, DecodePC
    <2>2. Quiescent /\ UNCHANGED <<time, issued>>
        BY <1>1 DEF StoreAccept, StoreReject, Quiet, Quiescent
    <2>3. DraftOK(p)'
        BY <2>1 DEF DraftOK, EncodePC, DecodePC
    <2> QED
        BY <2>1, <2>2, <2>3, LocalRInv DEF DecodePC
<1>2. ASSUME NEW t \in retained, StoreEvict(t) PROVE RInv'
    BY <1>2, RInvParts, RInvPartsNext
    DEF StoreEvict, OldCursorsExpire, NoFalseRejection, WithinTTL, DroppedLate, DraftsOK,
        DraftOK, Stale
<1> QED
    BY <1>1, <1>2 DEF Store

LEMMA TickRInv ==
    ASSUME RInv, RTypeOK', Tick, UNCHANGED retirable
    PROVE  RInv'
<1>1. /\ Quiescent /\ UNCHANGED <<issued, call>> /\ time' = time + 1 /\ time \in Nat
      /\ MaxTTL \in Nat /\ retirable \in [Keys -> Nat] /\ TypeOK
    BY CodecAssumption DEF Tick, Quiescent, RInv, RTypeOK, TypeOK
<1>2. \A t \in issued : t.exp \in Nat
    BY <1>1, TokenTyped DEF TypeOK
<1>3. DraftsOK'
    BY <1>1, DraftCarries, RInvParts DEF DraftsOK
<1>4. OldCursorsExpire' /\ WithinTTL' /\ DroppedLate'
    BY <1>1, <1>2, RInvParts DEF OldCursorsExpire, WithinTTL, DroppedLate, Quiescent
<1>5. NoFalseRejection'
    BY <1>1, <1>2, RInvParts DEF NoFalseRejection, Stale
<1> QED
    BY <1>3, <1>4, <1>5, RInvPartsNext

\* The rotation proper.  What is in flight under the key it deactivates was
\* clocked no later than now, so it expires within MaxTTL of now.
LEMMA RotateRInv ==
    ASSUME RInv, RTypeOK', NEW ks \in SUBSET Keys, NEW a \in Keys, OperatorRotate(a, ks)
    PROVE  RInv'
<1>1. /\ UNCHANGED <<time, issued, call>> /\ active' = a /\ keys' = ks
      /\ time \in Nat /\ MaxTTL \in Nat /\ retirable \in [Keys -> Nat]
      /\ active \in keys /\ keys \subseteq Keys /\ call \in [Procs -> Calls]
      /\ issued \subseteq Tokens
    BY CodecAssumption DEF OperatorRotate, Rotate, RInv, RTypeOK, TypeOK, RingOf
<1>2. ASSUME NEW k \in Keys
      PROVE  retirable'[k] = IF k = active /\ a # active THEN time + MaxTTL ELSE retirable[k]
    BY <1>1 DEF OperatorRotate
<1>3. OldCursorsExpire'
    BY <1>1, <1>2, TokenTyped, RInvParts DEF OldCursorsExpire, WithinTTL
<1>4. DroppedLate'
    <2> SUFFICES ASSUME NEW k \in Keys \ ks PROVE retirable'[k] <= time
        BY <1>1 DEF DroppedLate
    <2>1. k # active /\ retirable[k] <= time
        BY <1>1, RInvParts DEF OperatorRotate, MayDrop, DroppedLate
    <2> QED
        BY <1>2, <2>1
<1>5. DraftsOK'
    <2> SUFFICES ASSUME NEW p \in Procs PROVE DraftOK(p)'
        BY DEF DraftsOK
    <2>1. DraftOK(p) /\ RegistersOK(p) /\ call[p] \in Calls
        BY <1>1, RInvParts DEF DraftsOK, RTypeOK, TypeOK
    <2>2. ASSUME call[p].pc = "enc_seal", call[p].tok.key # a
          PROVE  call[p].tok.exp <= retirable'[call[p].tok.key]
        <3>1. /\ call[p].tok.key \in Keys /\ call[p].now \in Nat
              /\ call[p].tok.exp \in Nat
            BY <2>1, <2>2, CodecAssumption DEF RegistersOK, EncodePC, Drafts, Calls
        <3>2. CASE call[p].tok.key = active
            BY <1>1, <1>2, <2>1, <2>2, <3>1, <3>2 DEF DraftOK
        <3>3. CASE call[p].tok.key # active
            BY <1>1, <1>2, <2>1, <2>2, <3>1, <3>3 DEF DraftOK
        <3> QED
            BY <3>2, <3>3
    <2> QED
        BY <1>1, <2>1, <2>2 DEF DraftOK
<1>6. WithinTTL' /\ NoFalseRejection'
    BY <1>1, RInvParts DEF WithinTTL, NoFalseRejection, Stale
<1> QED
    BY <1>3, <1>4, <1>5, <1>6, RInvPartsNext

-----------------------------------------------------------------------------
LEMMA RTypeStep == RTypeOK /\ [RNext]_rvars => RTypeOK'
<1> SUFFICES ASSUME RTypeOK, [RNext]_rvars PROVE RTypeOK'
    OBVIOUS
<1>1. [Next]_vars
    BY DEF RNext, OperatorRotate, Next, rvars, vars
<1>2. TypeOK'
    BY <1>1, TypeStep DEF RTypeOK
<1>3. clock' = clock
  <2>1. ASSUME NEW p \in Procs, Call(p) PROVE clock' = clock
      BY <2>1 DEF Call, EncodeCall, DecodeCall, Quiet
  <2>2. ASSUME NEW p \in Procs, Encode(p) PROVE clock' = clock
      BY <2>2 DEF Encode, EncodeValidate, EncodeKey, EncodeSeal, Quiet
  <2>3. ASSUME NEW p \in Procs, Decode(p) PROVE clock' = clock
      BY <2>3 DEF Decode, DecodeOpen, DecodeClock, DecodeValidate, DecodeCtx, DecodeReturn,
                  Quiet
  <2>4. ASSUME NEW p \in Procs, Cancel(p) PROVE clock' = clock
      BY <2>4 DEF Cancel, Quiet
  <2>5. Store \/ Tick => clock' = clock
    <3>1. ASSUME NEW p \in Procs, StoreAccept(p) \/ StoreReject(p) PROVE clock' = clock
        BY <3>1 DEF StoreAccept, StoreReject, Quiet
    <3>2. ASSUME NEW t, StoreEvict(t) PROVE clock' = clock
        BY <3>2 DEF StoreEvict
    <3> QED
        BY <3>1, <3>2 DEF Store, Tick
  <2>6. ASSUME NEW a, NEW ks, OperatorRotate(a, ks) PROVE clock' = clock
      BY <2>6 DEF OperatorRotate, Rotate
  <2>7. UNCHANGED rvars => clock' = clock
      BY DEF rvars
  <2> QED
      BY <2>1, <2>2, <2>3, <2>4, <2>5, <2>6, <2>7 DEF RNext
<1>4. retirable' \in [Keys -> Nat]
    BY CodecAssumption DEF RTypeOK, TypeOK, RNext, OperatorRotate, rvars
<1> QED
    BY <1>2, <1>3, <1>4 DEF RTypeOK

LEMMA RInvStep == RInv /\ [RNext]_rvars => RInv'
<1> SUFFICES ASSUME RInv, [RNext]_rvars PROVE RInv'
    OBVIOUS
<1>1. RTypeOK'
    BY RTypeStep, RInvParts
<1>2. CASE RNext
    BY <1>1, <1>2, CallRInv, EncodeRInv, DecodeRInv, StoreRInv, TickRInv, RotateRInv DEF RNext
<1>3. CASE UNCHANGED rvars
    BY <1>1, <1>3, RInvParts, RInvPartsNext
    DEF rvars, OldCursorsExpire, NoFalseRejection, WithinTTL, DroppedLate, DraftsOK, DraftOK,
        Stale
<1> QED
    BY <1>2, <1>3

\* The inductive invariant of the rotation procedure.
THEOREM RotationInvariant == RSpec => []RInv
<1>1. RInit => RInv
    BY RInvInit
<1>2. RInv /\ [RNext]_rvars => RInv'
    BY RInvStep
<1> QED
    BY <1>1, <1>2, PTL DEF RSpec

\* While a cursor has not expired its key is still in the ring.
THEOREM NoCursorStranded == RSpec => []RetainedWhileValid
<1>1. RInv => RetainedWhileValid
    <2> SUFFICES ASSUME RInv, NEW t \in issued, t.exp > time, t.key \notin keys PROVE FALSE
        BY DEF RetainedWhileValid
    <2>1. /\ t \in Tokens /\ t.exp \in Nat /\ t.key \in Keys /\ t.key # active
          /\ time \in Nat /\ retirable[t.key] \in Nat
        BY TokenTyped, CodecAssumption DEF RInv, RTypeOK, TypeOK, RingOf
    <2> QED
        BY <2>1 DEF RInv, OldCursorsExpire
<1> QED
    BY <1>1, RotationInvariant, PTL

\* Waiting MaxTTL after a rotation covers the encodes it caught in flight.
THEOREM WaitingMaxTTLSuffices == RSpec => []OldCursorsExpire
<1>1. RInv => OldCursorsExpire
    BY DEF RInv
<1> QED
    BY <1>1, RotationInvariant, PTL

\* A genuine cursor is called invalid only after it has expired.
THEOREM GenuineCursorsHonoured == RSpec => []NoFalseRejection
<1>1. RInv => NoFalseRejection
    BY DEF RInv
<1> QED
    BY <1>1, RotationInvariant, PTL

-----------------------------------------------------------------------------
\* Compiles that share a codec.

Asked(p) == TokenOf(Request(p))

\* Where the decode of a compile stands, and what that means for its cursor.
Decoded(p)  == query[p].phase = "decoding" /\ call[p].pc = "idle" /\ call[p].out = "ok"
Verified(p) == query[p].phase = "decoding" /\ call[p].pc \in {"dec_ctx", "store", "stored", "rejected"}

Joined(p) ==
    LET r == Request(p) IN
    /\ call[p].pc # "idle" => query[p].phase = "decoding"
    /\ query[p].phase = "decoding" =>
          /\ OneToken(r) /\ call[p].tok = Asked(p) /\ call[p].pc \in DecodePC \cup {"idle"}
          /\ call[p].pc \in DecodePC => call[p].want = r.want /\ Asked(p) \in Foreign
    /\ Decoded(p) \/ Verified(p) => Asked(p) \in Foreign /\ Matches(Asked(p), r.want)

\* What a compile that returned has in its hands.
Settled(p) ==
    LET r == Request(p) IN
    /\ query[p].plan => /\ query[p].phase = "done" /\ r.sound /\ r.cheap
                        /\ query[p].cursor = NoToken => r.after = NoToken /\ r.before = NoToken
    /\ query[p].cursor # NoToken =>
          /\ query[p].phase = "done" /\ OneToken(r) /\ query[p].cursor = Asked(p)
          /\ Asked(p) \in Foreign /\ Matches(Asked(p), r.want) /\ Fits(r, Asked(p))
          /\ r.sound /\ r.cheap => query[p].plan

QTyped == query \in [Procs -> Compiles] /\ issued = {}

\* Whose decode consumed the cursor it was made for.
Consumed(p) == \/ query[p].phase = "decoding" /\ call[p].pc = "stored"
               \/ Decoded(p)
               \/ query[p].cursor # NoToken

OneConsumer == ReplayEnabled /\ StorePolicy # "expire" =>
    /\ \A p \in Procs : Consumed(p) => Asked(p) \in accepted
    /\ \A p, q \in Procs : Consumed(p) /\ Consumed(q) /\ Asked(p) = Asked(q) => p = q

Lost(p) == LET r == Request(p) IN
           query[p].phase = "done" /\ (~r.sound \/ ~r.cheap \/ ~Fits(r, Asked(p)))

AllAccounted == \A t \in accepted : \E p \in Procs :
    OneToken(Request(p)) /\ Asked(p) = t /\ (Consumed(p) \/ Lost(p))

QInv == /\ StoreInv /\ QTyped
        /\ \A p \in Procs : Joined(p) /\ Settled(p)
        /\ OneConsumer /\ AllAccounted

-----------------------------------------------------------------------------
LEMMA QInvInit == QInit => QInv
  <1> SUFFICES ASSUME QInit PROVE QInv
    OBVIOUS
  <1>1. StoreInv
    BY StoreInvInit DEF QInit
  <1>2. QTyped
    <2>1. ASSUME NEW r \in Requests
          PROVE  [phase |-> "new", request |-> r, plan |-> FALSE, cursor |-> NoToken] \in Compiles
      BY DEF Compiles
    <2>2. QED  BY <2>1 DEF QInit, QTyped, Init
  <1>3. \A p \in Procs : /\ call[p].pc = "idle" /\ query[p].phase = "new"
                         /\ ~query[p].plan /\ query[p].cursor = NoToken
    BY DEF QInit, Init, IdleCall
  <1>4. ASSUME NEW p \in Procs PROVE Joined(p) /\ Settled(p) /\ ~Consumed(p)
    <2>1. Joined(p) /\ ~Consumed(p)
      BY <1>3 DEF Joined, Consumed, Decoded, Verified
    <2>2. Settled(p)
      BY <1>3, Zenon DEF Settled
    <2>3. QED  BY <2>1, <2>2
  <1>5. accepted = {}
    BY DEF QInit, Init
  <1>6. QED  BY <1>1, <1>2, <1>4, <1>5 DEF QInv, OneConsumer, AllAccounted

\* Requests name cursors that exist.
LEMMA AskedExists ==
    ASSUME QTyped, NEW p \in Procs
    PROVE  /\ Request(p) \in Requests
           /\ Asked(p) \in Foreign \cup {Malformed, NoToken}
           /\ OneToken(Request(p)) => Asked(p) # NoToken
           /\ NoToken \notin Foreign /\ Malformed \notin Foreign
  BY RequestsAssumption, CodecAssumption DEF QTyped, Compiles, Request, Asked, TokenOf, OneToken

\* For the codec, a step of a compile is one of its own steps or none.
LEMMA CompileIsCodecStep == QTyped /\ [QNext]_qvars => [Next]_vars
  <1> SUFFICES ASSUME QTyped, [QNext]_qvars PROVE [Next]_vars
    OBVIOUS
  <1>1. ASSUME NEW p \in Procs, NEW cancelled \in BOOLEAN, CompileToCursor(p, cancelled)
        PROVE  Next
    <2>1. Asked(p) \in Foreign \cup {Malformed} /\ Request(p).want \in Contracts
      BY <1>1, AskedExists, RequestsAssumption DEF CompileToCursor
    <2>2. DecodeCall(p, Asked(p), Request(p).want, cancelled, FALSE)
      BY <1>1 DEF CompileToCursor, Asked
    <2>3. Call(p)
      BY <2>1, <2>2 DEF Call
    <2>4. QED  BY <2>3 DEF Next
  <1>2. CASE UNCHANGED vars
    BY <1>2
  <1>3. CASE UNCHANGED qvars
    BY <1>3 DEF qvars, vars
  <1>4. QED
    BY <1>1, <1>2, <1>3 DEF QNext, CompileUndecoded, CompileReturn, Next

-----------------------------------------------------------------------------
\* A step of one compile and its decode.

Only(p) == \A q \in Procs \ {p} : call'[q] = call[q] /\ query'[q] = query[q]

\* What the step does to the claims on consumed cursors: none is gained, and
\* none goes but to a compile at fault ...
NoGain(p) == /\ accepted' = accepted
             /\ ReplayEnabled /\ Consumed(p)' => Consumed(p)
             /\ Consumed(p) \/ Lost(p) => Consumed(p)' \/ Lost(p)'

\* ... or the compile has consumed its cursor.
Gain(p) == /\ accepted' = accepted \cup {Asked(p)} /\ Consumed(p)' /\ OneToken(Request(p))
           /\ StorePolicy # "expire" => Asked(p) \notin accepted
           /\ Lost(p) => Lost(p)'

LEMMA StepKeeps ==
    ASSUME QInv, NEW p \in Procs, Only(p), QTyped', Request(p)' = Request(p),
           Joined(p)', Settled(p)', StoreInv', NoGain(p) \/ Gain(p)
    PROVE  QInv'
  <1>1. ASSUME NEW q \in Procs
        PROVE  /\ Request(q)' = Request(q) /\ Asked(q)' = Asked(q)
               /\ q # p => (Consumed(q)' <=> Consumed(q)) /\ (Lost(q)' <=> Lost(q))
    BY DEF Only, Request, Asked, Consumed, Decoded, Lost
  <1>2. ASSUME NEW q \in Procs PROVE Joined(q)' /\ Settled(q)'
    <2>1. CASE q # p
      BY <2>1 DEF QInv, Only, Joined, Settled, Decoded, Verified, Request, Asked
    <2>2. QED  BY <2>1
  <1>3. OneConsumer'
    <2> SUFFICES ASSUME ReplayEnabled, StorePolicy # "expire"
                 PROVE  /\ \A q \in Procs : Consumed(q)' => Asked(q)' \in accepted'
                        /\ \A q, s \in Procs :
                              Consumed(q)' /\ Consumed(s)' /\ Asked(q)' = Asked(s)' => q = s
      BY DEF OneConsumer
    <2>1. CASE NoGain(p)
      BY <1>1, <2>1 DEF QInv, OneConsumer, NoGain
    <2>2. CASE Gain(p)
      BY <1>1, <2>2 DEF QInv, OneConsumer, Gain
    <2>3. QED  BY <2>1, <2>2
  <1>4. AllAccounted'
    <2> SUFFICES ASSUME NEW t \in accepted'
                 PROVE  \E q \in Procs : /\ OneToken(Request(q)) /\ Asked(q) = t
                                         /\ Consumed(q)' \/ Lost(q)'
      BY <1>1 DEF AllAccounted, OneToken
    <2>1. CASE t \in accepted
      BY <1>1, <2>1 DEF QInv, AllAccounted, NoGain, Gain
    <2>2. CASE t \notin accepted
      BY <2>2 DEF NoGain, Gain
    <2>3. QED  BY <2>1, <2>2
  <1>5. QED  BY <1>2, <1>3, <1>4 DEF QInv

LEMMA FinishStep ==
    ASSUME QTyped, NEW p \in Procs, NEW cursor \in Foreign \cup {NoToken}, NEW fault \in BOOLEAN,
           Finish(p, cursor, fault), UNCHANGED vars
    PROVE  /\ QTyped' /\ Only(p) /\ Request(p)' = Request(p)
           /\ query'[p].phase = "done" /\ query'[p].cursor = cursor
           /\ query'[p].plan <=> ~fault /\ Request(p).sound /\ Request(p).cheap
  <1>1. query[p] \in Compiles /\ Request(p).sound \in BOOLEAN /\ Request(p).cheap \in BOOLEAN
    BY RequestsAssumption DEF QTyped, Compiles, Request
  <1> DEFINE good == ~fault /\ Request(p).sound /\ Request(p).cheap
  <1>2. good \in BOOLEAN
    OBVIOUS
  <1>3. query' = [query EXCEPT ![p].phase = "done", ![p].plan = good, ![p].cursor = cursor]
    BY DEF Finish
  <1> HIDE DEF good
  <1>4. /\ query'[p] \in Compiles /\ query'[p].phase = "done" /\ query'[p].cursor = cursor
        /\ query'[p].plan = good /\ query'[p].request = query[p].request
        /\ query' = [query EXCEPT ![p] = query'[p]]
    BY <1>1, <1>2, <1>3 DEF QTyped, Compiles
  <1>5. QTyped' /\ Only(p) /\ Request(p)' = Request(p)
    BY <1>4 DEF QTyped, Only, Request, vars
  <1>6. QED  BY <1>4, <1>5 DEF good

LEMMA UndecodedKeeps ==
    ASSUME QInv, StoreInv', NEW p \in Procs, CompileUndecoded(p)
    PROVE  QInv'
  <1> DEFINE r == Request(p)
  <1>1. /\ QTyped /\ query[p].phase = "new" /\ ~OneToken(r)
        /\ Finish(p, NoToken, r.after # NoToken) /\ UNCHANGED vars
        /\ Joined(p) /\ Settled(p)
    BY DEF QInv, CompileUndecoded
  <1>2. /\ QTyped' /\ Only(p) /\ Request(p)' = Request(p)
        /\ query'[p].phase = "done" /\ query'[p].cursor = NoToken
        /\ query'[p].plan => r.after = NoToken /\ r.sound /\ r.cheap
    BY <1>1, FinishStep
  <1>3. call' = call /\ accepted' = accepted
    BY <1>1 DEF vars
  <1>4. Joined(p)'
    BY <1>1, <1>2, <1>3 DEF Joined, Decoded, Verified
  <1>5. Settled(p)'
    BY <1>1, <1>2 DEF Settled, OneToken
  <1>6. NoGain(p)
    BY <1>1, <1>2, <1>3 DEF NoGain, Consumed, Decoded, Lost, Settled
  <1>7. QED  BY <1>2, <1>4, <1>5, <1>6, StepKeeps

LEMMA ReturnKeeps ==
    ASSUME QInv, StoreInv', NEW p \in Procs, CompileReturn(p)
    PROVE  QInv'
  <1> DEFINE r == Request(p)
             ok == call[p].out = "ok" /\ Fits(r, Asked(p))
  <1>1. /\ QTyped /\ query[p].phase = "decoding" /\ call[p].pc = "idle"
        /\ Finish(p, IF ok THEN Asked(p) ELSE NoToken, ~ok) /\ UNCHANGED vars
        /\ Joined(p) /\ Settled(p)
    BY DEF QInv, CompileReturn, Asked
  <1>2. /\ OneToken(r) /\ Asked(p) # NoToken
        /\ ok => Asked(p) \in Foreign /\ Matches(Asked(p), r.want) /\ Decoded(p)
    BY <1>1, AskedExists DEF Joined, Decoded
  <1>3. /\ QTyped' /\ Only(p) /\ Request(p)' = Request(p) /\ query'[p].phase = "done"
        /\ query'[p].cursor = IF ok THEN Asked(p) ELSE NoToken
        /\ query'[p].plan <=> ok /\ r.sound /\ r.cheap
    <2>1. ok \in BOOLEAN /\ (IF ok THEN Asked(p) ELSE NoToken) \in Foreign \cup {NoToken}
      BY <1>2
    <2> HIDE DEF ok, r
    <2>2. QED  BY <1>1, <2>1, FinishStep DEF r
  <1>4. /\ call' = call /\ accepted' = accepted /\ Asked(p)' = Asked(p)
        /\ Fits(r, Asked(p))' <=> Fits(r, Asked(p))
    BY <1>1, <1>3 DEF vars, Asked, Fits, Towards
  <1>5. Joined(p)'
    BY <1>1, <1>3, <1>4 DEF Joined, Decoded, Verified
  <1>6. Settled(p)'
    BY <1>2, <1>3, <1>4 DEF Settled, OneToken
  <1>7. NoGain(p)
    <2>1. Consumed(p) <=> Decoded(p)
      BY <1>1 DEF Consumed, Settled
    <2>2. Consumed(p)' <=> ok
      BY <1>2, <1>3 DEF Consumed, Decoded
    <2>3. ~Lost(p) /\ (Decoded(p) /\ ~ok => Lost(p)')
      BY <1>1, <1>3, <1>4 DEF Lost, Decoded
    <2>4. QED  BY <1>2, <1>4, <2>1, <2>2, <2>3 DEF NoGain
  <1>8. QED  BY <1>3, <1>5, <1>6, <1>7, StepKeeps

LEMMA ToCursorKeeps ==
    ASSUME QInv, StoreInv', NEW p \in Procs, NEW cancelled \in BOOLEAN,
           CompileToCursor(p, cancelled)
    PROVE  QInv'
  <1> DEFINE r == Request(p)
  <1>1. /\ QTyped /\ Joined(p) /\ Settled(p) /\ TypeOK
        /\ query[p].phase = "new" /\ OneToken(r)
        /\ DecodeCall(p, Asked(p), r.want, cancelled, FALSE)
        /\ query' = [query EXCEPT ![p].phase = "decoding"]
    BY DEF QInv, StoreInv, CompileToCursor, Asked
  <1>2. Asked(p) \in Foreign \cup {Malformed} /\ r.want \in Contracts
    BY <1>1, AskedExists, RequestsAssumption
  <1>3. /\ Quiet /\ call'[p].tok = Asked(p)
        /\ \A q \in Procs \ {p} : call'[q] = call[q]
        /\ \/ call'[p].pc = "idle" /\ call'[p].out \in Refusals
           \/ /\ call'[p].pc = "dec_key" /\ call'[p].want = r.want
              /\ Asked(p) # Malformed
    <2>1. ASSUME NEW t \in Foreign \cup Tokens \cup {Malformed}, NEW w \in Contracts,
                 DecodeCall(p, t, w, cancelled, FALSE)
          PROVE  /\ Quiet /\ call'[p].tok = t
                 /\ \A q \in Procs \ {p} : call'[q] = call[q]
                 /\ \/ call'[p].pc = "idle" /\ call'[p].out \in Refusals
                    \/ call'[p].pc = "dec_key" /\ call'[p].want = w /\ t # Malformed
      <3>1. PICK f \in BOOLEAN : DecodeCall(p, t, w, cancelled, f)
        BY <2>1, Zenon
      <3>2. QED  BY <1>1, <3>1, DecodeCallFlow
    <2>2. QED  BY <1>1, <1>2, <2>1
  <1>4. /\ query'[p].phase = "decoding" /\ query'[p].plan = query[p].plan
        /\ query'[p].cursor = query[p].cursor /\ query'[p].request = query[p].request
        /\ \A q \in Procs \ {p} : query'[q] = query[q]
        /\ query' \in [Procs -> Compiles]
    BY <1>1 DEF QTyped, Compiles
  <1>5. /\ QTyped' /\ Only(p) /\ Request(p)' = r /\ Asked(p)' = Asked(p)
        /\ accepted' = accepted
    BY <1>1, <1>3, <1>4 DEF QTyped, Only, Request, Asked, Quiet
  <1>6. ~query[p].plan /\ query[p].cursor = NoToken
    BY <1>1 DEF Settled
  <1>7. Joined(p)'
    BY <1>1, <1>2, <1>3, <1>4, <1>5 DEF Joined, Decoded, Verified, DecodePC, Refusals, OneToken
  <1>8. Settled(p)'
    BY <1>4, <1>5, <1>6 DEF Settled
  <1>9. NoGain(p)
    BY <1>1, <1>3, <1>4, <1>5, <1>6 DEF NoGain, Consumed, Decoded, Lost, Refusals
  <1>10. QED  BY <1>5, <1>7, <1>8, <1>9, StepKeeps

\* Nothing but the decode moves.
LEMMA DecodingOnly ==
    ASSUME QInv, NEW p \in Procs, \A q \in Procs \ {p} : call'[q] = call[q],
           UNCHANGED query, issued' = issued, call[p].pc # "idle"
    PROVE  /\ QTyped' /\ Only(p) /\ Request(p)' = Request(p) /\ Asked(p)' = Asked(p)
           /\ Settled(p)' /\ query[p].phase = "decoding" /\ query'[p] = query[p]
           /\ query[p].cursor = NoToken /\ ~Decoded(p) /\ ~Lost(p) /\ Joined(p)
           /\ call[p].tok = Asked(p) /\ OneToken(Request(p))
  <1>1. QTyped' /\ Only(p) /\ Request(p)' = Request(p) /\ Asked(p)' = Asked(p) /\ query' = query
    BY DEF QInv, QTyped, Only, Request, Asked
  <1>2. Settled(p)'
    BY <1>1 DEF QInv, Settled, Request, Asked
  <1>3. QED  BY <1>1, <1>2 DEF QInv, Joined, Settled, Decoded, Lost

\* A decode that moves on, or that returns, with what it has established.
LEMMA DecodeKeeps ==
    ASSUME QInv, StoreInv', NEW p \in Procs, Decode(p), UNCHANGED query
    PROVE  QInv'
  <1>1. TypeOK /\ \A q \in Procs : Joined(q)
    BY DEF QInv, StoreInv
  <1>2. /\ Quiet /\ \A q \in Procs \ {p} : call'[q] = call[q]
        /\ call[p].pc \in DecodePC /\ call[p].pc # "idle"
        /\ call'[p].pc \in DecodePC \cup {"idle"} /\ call'[p].tok = call[p].tok
    BY <1>1, DecodeFlow, DecodeMoves DEF DecodePC
  <1>3. /\ QTyped' /\ Only(p) /\ Request(p)' = Request(p) /\ Asked(p)' = Asked(p)
        /\ Settled(p)' /\ query[p].phase = "decoding" /\ query'[p] = query[p]
        /\ query[p].cursor = NoToken /\ ~Decoded(p) /\ ~Lost(p) /\ Joined(p)
        /\ call[p].tok = Asked(p) /\ OneToken(Request(p))
    BY <1>2, DecodingOnly DEF Quiet
  <1>4. Asked(p) \in Foreign /\ call[p].want = Request(p).want
    BY <1>2, <1>3 DEF Joined
  <1>5. /\ Verified(p) => Matches(Asked(p), Request(p).want)
        /\ Consumed(p) <=> call[p].pc = "stored"
    BY <1>3 DEF Joined, Consumed
  <1>6. \/ /\ call'[p].pc \in {"dec_clock", "dec_now"} /\ call'[p].want = call[p].want
           /\ call[p].pc # "stored"
        \/ /\ call'[p].pc \in {"dec_ctx", "store"} /\ call'[p].want = call[p].want
           /\ call[p].pc # "stored" /\ Matches(Asked(p), Request(p).want)
        \/ call[p].pc = "stored" /\ Over(p, "ok") /\ Matches(Asked(p), Request(p).want)
        \/ /\ call[p].pc # "stored" /\ ~ReplayEnabled /\ Over(p, "ok")
           /\ Matches(Asked(p), Request(p).want)
        \/ call[p].pc # "stored" /\ \E o \in Refusals : Over(p, o)
    BY <1>1, <1>3, <1>4, <1>5, DecodeFlow DEF Onward, Verified
  <1>7. Joined(p)'
    <2>1. /\ Request(p)'.want = Request(p).want /\ OneToken(Request(p)') = OneToken(Request(p))
          /\ query'[p].phase = "decoding" /\ call'[p].tok = Asked(p)
      BY <1>2, <1>3
    <2>2. Matches(Asked(p), Request(p).want)' <=> Matches(Asked(p), Request(p).want)
      BY <1>3 DEF Matches
    <2>3. Decoded(p)' \/ Verified(p)' => Matches(Asked(p), Request(p).want)
      BY <1>6 DEF Decoded, Verified, Over, Refusals
    <2>4. call'[p].pc \in DecodePC => call'[p].want = Request(p).want
      BY <1>4, <1>6 DEF Over, DecodePC
    <2>5. QED  BY <1>2, <1>3, <1>4, <2>1, <2>2, <2>3, <2>4 DEF Joined
  <1>8. NoGain(p)
    <2>1. Consumed(p)' <=> \/ call'[p].pc = "stored"
                           \/ call'[p].pc = "idle" /\ call'[p].out = "ok"
      BY <1>3 DEF Consumed, Decoded
    <2>2. accepted' = accepted
      BY <1>2 DEF Quiet
    <2>3. QED  BY <1>3, <1>5, <1>6, <2>1, <2>2 DEF NoGain, Over, Refusals
  <1>9. QED  BY <1>3, <1>7, <1>8, StepKeeps

LEMMA CancelKeeps ==
    ASSUME QInv, StoreInv', NEW p \in Procs, Cancel(p), UNCHANGED query
    PROVE  QInv'
  <1>1. /\ call'[p].pc = call[p].pc /\ call'[p].tok = call[p].tok
        /\ call'[p].want = call[p].want /\ call'[p].out = call[p].out
        /\ \A q \in Procs \ {p} : call'[q] = call[q]
        /\ UNCHANGED <<issued, accepted>> /\ call[p].pc # "idle"
    BY DEF QInv, StoreInv, Cancel, TypeOK, Calls, DecodePC
  <1>2. /\ QTyped' /\ Only(p) /\ Request(p)' = Request(p) /\ Asked(p)' = Asked(p)
        /\ Settled(p)' /\ query'[p] = query[p] /\ Joined(p)
    BY <1>1, DecodingOnly
  <1>3. Joined(p)' /\ NoGain(p)
    BY <1>1, <1>2 DEF Joined, NoGain, Consumed, Decoded, Verified, Lost
  <1>4. QED  BY <1>2, <1>3, StepKeeps

LEMMA StoreKeeps ==
    ASSUME QInv, StoreInv', NEW p \in Procs, StoreAccept(p) \/ StoreReject(p), UNCHANGED query
    PROVE  QInv'
  <1>1. /\ TypeOK /\ Remembered /\ call[p].pc = "store" /\ call'[p].tok = call[p].tok
        /\ call'[p].want = call[p].want
        /\ \A q \in Procs \ {p} : call'[q] = call[q]
        /\ issued' = issued
        /\ StoreAccept(p) => call'[p].pc = "stored"
        /\ StoreReject(p) => call'[p].pc = "rejected" /\ accepted' = accepted
    BY StoreFlow DEF QInv, StoreInv, Onward, StoreReject, Quiet
  <1>2. /\ QTyped' /\ Only(p) /\ Request(p)' = Request(p) /\ Asked(p)' = Asked(p)
        /\ Settled(p)' /\ query[p].phase = "decoding" /\ query'[p] = query[p]
        /\ query[p].cursor = NoToken /\ ~Decoded(p) /\ ~Lost(p) /\ Joined(p)
        /\ call[p].tok = Asked(p) /\ OneToken(Request(p))
    BY <1>1, DecodingOnly
  <1>3. Joined(p)'
    BY <1>1, <1>2 DEF Joined, Decoded, Verified, DecodePC
  <1>4. StoreReject(p) => NoGain(p)
    BY <1>1, <1>2 DEF NoGain, Consumed, Decoded
  <1>5. StoreAccept(p) => Gain(p)
    <2> SUFFICES ASSUME StoreAccept(p) PROVE Gain(p)
      OBVIOUS
    <2>1. accepted' = accepted \cup {Asked(p)} /\ Asked(p) \notin retained
      BY <1>2 DEF StoreAccept
    <2>2. StorePolicy # "expire" => Asked(p) \notin accepted
      BY <1>1, <1>2, <2>1 DEF StoreAccept, Remembered
    <2>3. QED  BY <1>1, <1>2, <2>1, <2>2 DEF Gain, Consumed
  <1>6. QED  BY <1>2, <1>3, <1>4, <1>5, StepKeeps

LEMMA QInvStep == QInv /\ [QNext]_qvars => QInv'
  <1> SUFFICES ASSUME QInv, [QNext]_qvars PROVE QInv'
    OBVIOUS
  <1>1. StoreInv'
    BY CompileIsCodecStep, StoreInvStep DEF QInv
  <1>2. CASE UNCHANGED <<call, query, issued, accepted>>
    <2>1. \A p \in Procs : Joined(p)' /\ Settled(p)'
      BY <1>2 DEF QInv, Joined, Settled, Decoded, Verified, Request, Asked
    <2>2. QTyped' /\ OneConsumer' /\ AllAccounted'
      BY <1>2 DEF QInv, QTyped, OneConsumer, AllAccounted, Consumed, Decoded, Lost, Request, Asked
    <2>3. QED  BY <1>1, <2>1, <2>2 DEF QInv
  <1>3. CASE QNext
    BY <1>1, <1>2, <1>3, UndecodedKeeps, ReturnKeeps, ToCursorKeeps, DecodeKeeps, CancelKeeps,
       StoreKeeps DEF QNext, Store, StoreEvict, Tick, Rotate
  <1>4. QED  BY <1>2, <1>3 DEF qvars

LEMMA QueryInvariant == QSpec => []QInv
  BY QInvInit, QInvStep, PTL DEF QSpec

-----------------------------------------------------------------------------
\* A plan's cursor is the one its request names, in the request's sorts, schema
\* revision and direction, and a plan without one answers a request without one:
\* for every number of compiles, whatever rotation, the clock, the store and
\* cancellation do while their decodes are under way (src/compile.go:482-516,
\* src/cursor/cursor.go:338-343).
THEOREM PlansSeekAsAsked == QSpec => []PlanSeeksAsAsked
  <1>1. QInv => PlanSeeksAsAsked
    <2> SUFFICES ASSUME QInv, NEW p \in Procs, query[p].plan
                 PROVE  LET r == Request(p)
                            t == query[p].cursor IN
                        /\ r.sound /\ r.cheap /\ (r.after # NoToken => r.before = NoToken)
                        /\ t = NoToken <=> r.after = NoToken /\ r.before = NoToken
                        /\ t # NoToken =>
                              /\ t = TokenOf(r)
                              /\ t.contract = [schema |-> r.want.schema, sorts |-> r.want.sorts,
                                               direction |-> Towards(r)]
      BY DEF PlanSeeksAsAsked
    <2>1. Settled(p)
      BY DEF QInv
    <2>2. CASE query[p].cursor = NoToken
      BY <2>1, <2>2 DEF Settled
    <2>3. CASE query[p].cursor # NoToken
      <3>1. /\ OneToken(Request(p)) /\ query[p].cursor = Asked(p) /\ Asked(p) \in Foreign
            /\ Matches(Asked(p), Request(p).want) /\ Fits(Request(p), Asked(p))
            /\ Request(p).sound /\ Request(p).cheap
        BY <2>1, <2>3 DEF Settled
      <3>2. Asked(p).contract = [schema |-> Request(p).want.schema,
                                 sorts |-> Request(p).want.sorts,
                                 direction |-> Towards(Request(p))]
        BY <3>1, RequestsAssumption DEF Matches, Fits
      <3>3. QED  BY <2>3, <3>1, <3>2 DEF Asked, OneToken
    <2>4. QED  BY <2>2, <2>3
  <1>2. QED  BY <1>1, QueryInvariant, PTL

\* At most one compile ever returns a plan for a one-time cursor, and it is one
\* whose decode consumed it, however many compiles present it and however they
\* interleave.  The hypothesis excludes the store that forgets a fingerprint and
\* would accept it again (src/compile.go:478-516, src/cursor/cursor.go:345-361).
THEOREM OnePlanForACursor ==
    ASSUME StorePolicy # "expire"
    PROVE  QSpec => []OnePlanPerCursor
  <1>1. QInv => OnePlanPerCursor
    <2> SUFFICES ASSUME QInv, ReplayEnabled, NEW p \in Procs, NEW q \in Procs,
                        NEW t \in Foreign \cup issued
                 PROVE  /\ HasPage(p, t) => t \in accepted
                        /\ HasPage(p, t) /\ HasPage(q, t) => p = q
      BY DEF OnePlanPerCursor
    <2>1. t # NoToken
      BY CodecAssumption DEF QInv, QTyped
    <2>2. ASSUME NEW s \in Procs, HasPage(s, t)
          PROVE  Consumed(s) /\ Asked(s) = t
      BY <2>1, <2>2 DEF HasPage, QInv, Settled, Consumed
    <2>3. QED  BY <2>2 DEF QInv, OneConsumer
  <1>2. QED  BY <1>1, QueryInvariant, PTL

\* Whoever consumes a cursor gets its plan, unless its own request is at fault or
\* asks the wrong way: for every store, with and without its expiry, and whatever
\* else goes on (src/compile.go:74-76, 478-516, src/cursor/cursor.go:345-359).
THEOREM NothingElseLosesACursor == QSpec => []LostOnlyToFaults
  <1>1. QInv => LostOnlyToFaults
    <2> SUFFICES ASSUME QInv, NEW t \in accepted
                 PROVE  \E p \in Procs :
                            LET r == Request(p) IN
                            /\ OneToken(r) /\ TokenOf(r) = t
                            /\ \/ query[p].phase = "decoding"
                               \/ HasPage(p, t)
                               \/ ~r.sound \/ ~r.cheap \/ ~Fits(r, t)
      BY DEF LostOnlyToFaults
    <2>1. PICK p \in Procs : OneToken(Request(p)) /\ Asked(p) = t /\ (Consumed(p) \/ Lost(p))
      BY DEF QInv, AllAccounted
    <2>2. Consumed(p) => \/ query[p].phase = "decoding"
                         \/ HasPage(p, t)
                         \/ ~Request(p).sound \/ ~Request(p).cheap
      BY <2>1 DEF QInv, Consumed, Decoded, Settled, HasPage
    <2>3. QED  BY <2>1, <2>2 DEF Lost, Asked
  <1>2. QED  BY <1>1, QueryInvariant, PTL
=============================================================================
