----------------------------- MODULE MCGameClient -----------------------------
(* Two clients of one node server, whose zone is all of the world.            *)
EXTENDS GameClient

CONSTANTS c1, c2, n1, p1, west

MCZone == [n \in Nodes |-> {west}]
MCRoute == [p \in Positions |-> n1]
MCCalls == c1 :> {"doLogout", "g_logout_request"} @@ c2 :> {"doEvent"}
MCCredentials == Clients \X {1} \X {p1}
=============================================================================
