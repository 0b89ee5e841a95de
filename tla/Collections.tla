---------------------------- MODULE Collections ----------------------------
(***************************************************************************)
(* Sums and selections that the modules of the compiler share.             *)
(***************************************************************************)
EXTENDS Naturals, Sequences, SequencesExt

\* The sum of f over a finite set.
SumOf(f, S) == MapThenSumSet(LAMBDA x : f[x], S)

\* The elements of a list that are in S, in their order.
Picked(list, S) ==
    FoldLeft(LAMBDA l, x : IF x \in S THEN Append(l, x) ELSE l, << >>, list)

\* The elements of a list that pass a test, in their order.
Only(list, test(_)) ==
    Picked(list, {list[i] : i \in {j \in DOMAIN list : test(list[j])}})
=============================================================================
