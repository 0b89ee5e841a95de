--------------------------- MODULE CursorPromise ---------------------------
(***************************************************************************)
(* What package cursor promises the callers of one codec, whatever its     *)
(* keys, clocks, replay store and interleavings do:                        *)
(*   - a claim (DecodeContext) is granted only for a cursor the codec's    *)
(*     own Encode issued, and only under the schema revision and the exact *)
(*     sorts it was issued for (src/cursor/cursor.go:272-278);             *)
(*   - with a replay store, no cursor is ever granted twice;               *)
(*   - the grant is the commit point: a granted claim is never refused     *)
(*     afterwards, even when cancellation races with the return            *)
(*     (src/docs/cursor.md:33-34).                                         *)
(***************************************************************************)
CONSTANTS
    Callers,        \* concurrent callers of the codec
    Cursors,        \* every cursor that may circulate; an issued one has a .contract
    Wants,          \* schema revision and sorts a caller may expect
    OneTime         \* TRUE when a replay store is configured

VARIABLES
    live,           \* cursors issued so far
    redeemed,       \* cursors granted once, when OneTime
    claim           \* per caller: the state of its latest claim

Free          == [state |-> "free"]
Refused       == [state |-> "refused"]
Pending(c, w) == [state |-> "pending", cursor |-> c, want |-> w]
Granted(c)    == [state |-> "granted", cursor |-> c]
Delivered(c)  == [state |-> "delivered", cursor |-> c]

Init ==
    /\ live = {}
    /\ redeemed = {}
    /\ claim = [p \in Callers |-> Free]

Issue(c) ==
    /\ c \notin live
    /\ live' = live \cup {c}
    /\ UNCHANGED <<redeemed, claim>>

Settle(p, verdict) ==
    /\ claim' = [claim EXCEPT ![p] = verdict]
    /\ UNCHANGED live

\* A claim that is over gives way to the caller's next one, to one refused on
\* sight, or to other business.
Begin(p) ==
    /\ claim[p].state \in {"free", "refused", "delivered"}
    /\ \E v \in {Free, Refused} \cup {Pending(c, w) : c \in Cursors, w \in Wants} :
          Settle(p, v)
    /\ UNCHANGED redeemed

Grant(p) ==
    LET c == claim[p].cursor IN
    /\ claim[p].state = "pending"
    /\ c \in live \ redeemed
    /\ c.contract = claim[p].want
    /\ redeemed' = IF OneTime THEN redeemed \cup {c} ELSE redeemed
    /\ Settle(p, IF OneTime THEN Granted(c) ELSE Delivered(c))

\* What was consumed reaches the caller: there is no other way on.
Deliver(p) ==
    /\ claim[p].state = "granted"
    /\ Settle(p, Delivered(claim[p].cursor))
    /\ UNCHANGED redeemed

Refuse(p) ==
    /\ claim[p].state = "pending"
    /\ Settle(p, Refused)
    /\ UNCHANGED redeemed

Next ==
    \/ \E c \in Cursors : Issue(c)
    \/ \E p \in Callers : Begin(p) \/ Grant(p) \/ Deliver(p) \/ Refuse(p)

Spec == Init /\ [][Next]_<<live, redeemed, claim>>
============================================================================
