---------------------------- MODULE MCGameSession ----------------------------
(* Constants for small instances of GameSession.  Position "west" belongs   *)
(* to node server n1 and "east" to n2; the balancer takes "edge" to be in   *)
(* the zone of n1, which does not agree; "out" is outside the world.        *)
EXTENDS GameSession

CONSTANTS c1, c2, n1, n2, west, east, edge, out, p1, p2

MCWorld == Positions \ {out}

MCRoute ==
    [p \in Positions |-> CASE p \in {west, edge} -> n1
                           [] p = east -> n2
                           [] p = out -> Nowhere]

MCZone == [n \in Nodes |-> IF n = n1 THEN {west} ELSE {east}]

\* One client whose two users take turns; it mistypes a password.
MCOneClient == {<<c1, 1, p1>>, <<c1, 2, p2>>, <<c1, 2, p1>>}

\* Clients of one user: all Windows clients log in as "game_tester".
MCOneUser == {<<c, 1, p1>> : c \in Clients}

\* Two clients of one user, one of which also mistypes the password.
MCTwoClients == MCOneUser \cup {<<c2, 1, p2>>}
=============================================================================
