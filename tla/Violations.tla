----------------------------- MODULE Violations -----------------------------
(***************************************************************************)
(* The bounded list in which Compile and NewSchema collect what is wrong   *)
(* (src/errors.go:66-83).  A violation is its code alone: paths and        *)
(* messages are left out.                                                  *)
(***************************************************************************)
EXTENDS Naturals, Sequences, SequencesExt

VARIABLE violations     \* violationCollector.items

Codes == {"limit_exceeded", "conflict", "invalid_element", "unsupported_operation", "authorization_rejected",
          "cost_limit", "cursor_failure", "version_mismatch"}

\* violationCollector.add, several times over: the first ones up to limit stay.
Collected(limit, codes) ==
    LET all == violations \o codes IN
    SubSeq(all, 1, IF Len(all) < limit THEN Len(all) ELSE limit)

Fault(broken, code) == IF broken THEN <<code>> ELSE <<>>
=============================================================================
