----------------------------- MODULE MCFastIndex -----------------------------
(* Checks FastIndex over all orders of giving and returning 5 indices that  *)
(* lie in three pages of two elements.                                      *)
EXTENDS FastIndex
=============================================================================
