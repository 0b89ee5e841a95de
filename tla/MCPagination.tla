---------------------------- MODULE MCPagination ----------------------------
(***************************************************************************)
(* Six rows under three keys: a page boundary falls between rows of one    *)
(* key, where only the tie-breaker tells them apart.                       *)
(***************************************************************************)
EXTENDS Pagination

Row(key, id) == [key |-> key, id |-> id]
MCRows  == {Row(1, 2), Row(1, 4), Row(2, 1), Row(2, 3), Row(2, 6), Row(3, 5)}
=============================================================================
