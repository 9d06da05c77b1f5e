--------------------------- MODULE MCBalancerMonitor ---------------------------
(* A world of NodeSizeMax: the root, its four zones and one level below.  A *)
(* cell on the west of it is asked for by each leaf that touches it, two as *)
(* long as nothing is merged.                                               *)
EXTENDS BalancerMonitor

MCWorld == [x |-> 2, y |-> -1, size |-> NodeSizeMax]
MCAskedCells == {<<1, 1>>}
=============================================================================
