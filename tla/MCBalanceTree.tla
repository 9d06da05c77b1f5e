---------------------------- MODULE MCBalanceTree ----------------------------
(* A world of NodeSizeMax, the configuration's default, away from the origin. *)
EXTENDS BalanceTree

MCWorld == [x |-> 2, y |-> -1, size |-> NodeSizeMax]
=============================================================================
