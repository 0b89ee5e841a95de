--------------------------- MODULE MCKeyRotation ---------------------------
(***************************************************************************)
(* Two goroutines and two keys under their own IDs: enough for one         *)
(* goroutine to be caught in the middle of Encode by a rotation, and for   *)
(* the other to decode what it issues after the old key may be dropped.    *)
(***************************************************************************)
EXTENDS KeyRotation, TLC

CONSTANTS p1, p2, k1, k2

MCKeyId     == k1 :> "a" @@ k2 :> "b"
MCContracts == {[schema |-> "r1", sorts |-> "name"]}

Sym == Permutations({p1, p2})
============================================================================
