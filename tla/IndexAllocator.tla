--------------------------- MODULE IndexAllocator ---------------------------
(***************************************************************************)
(* What an index registry promises to its users (the proxy's user tokens,  *)
(* the transport's packet slots, the balancer's tree node tokens): an      *)
(* index is given to one holder at a time, an index that was given back is *)
(* reused before a fresh one is opened, and fresh indices are opened in    *)
(* increasing order from 0.  Which of the returned indices is given next   *)
(* is left open.  FastIndex.tla is the implementation.                     *)
(***************************************************************************)
EXTENDS Naturals

VARIABLES
    live,      \* the indices held by a user of the registry
    frontier   \* 0 .. frontier - 1 were all given at least once

allocVars == <<live, frontier>>

Returned == (0 .. frontier - 1) \ live

AllocInit == live = {} /\ frontier = 0

\* Give index i: one that was returned, or a fresh one if there is none.
Give(i) ==
    /\ \/ i \in Returned /\ frontier' = frontier
       \/ Returned = {} /\ i = frontier /\ frontier' = frontier + 1
    /\ live' = live \union {i}

\* The holder of index i gives it back.
TakeBack(i) ==
    /\ i \in live
    /\ live' = live \ {i}
    /\ UNCHANGED frontier

AllocNext == \E i \in 0 .. frontier : Give(i) \/ TakeBack(i)

AllocSpec == AllocInit /\ [][AllocNext]_allocVars
=============================================================================
