---------------------------- MODULE MCUnitChain ----------------------------
(* Three tokens on two pages and four units, so that an element gets a      *)
(* second and a third unit while the logic thread stands on it.             *)
EXTENDS UnitChain
=============================================================================
