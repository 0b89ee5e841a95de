--------------------------- MODULE MCCursorCodec ---------------------------
(***************************************************************************)
(* A small codec for TLC: two goroutines, a key that keeps its ID when its *)
(* secret is replaced, one cursor of another protocol version and one      *)
(* sealed under a secret this codec never had.                             *)
(***************************************************************************)
EXTENDS CursorCodec, TLC

CONSTANTS p1, p2, k1, k2, kx, ks, n1, n2, nx, ny

MCKeyId     == k1 :> "a" @@ k2 :> "b" @@ kx :> "a" @@ ks :> "a"
ByName      == [schema |-> "r1", sorts |-> "name"]
ByNameNext  == [schema |-> "r2", sorts |-> "name"]
ByAge       == [schema |-> "r1", sorts |-> "age"]

NameOrNext  == {ByName, ByNameNext}
NameOrAge   == {ByName, ByAge}
OneContract == {ByName}

MCForeign   == {Token(nx, ks, "v1", ByName, 2), Token(ny, k1, "v0", ByName, 2)}
NoForeign   == {}

SymProcs == Permutations({p1, p2})
============================================================================
