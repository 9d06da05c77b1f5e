------------------------------- MODULE Network -------------------------------
(***************************************************************************)
(* The end points of a Gkm-World network and the UDP datagrams between     *)
(* them.  A datagram that was sent may be delivered at any later time, any *)
(* number of times, in any order, or never: datagrams only grows, and a    *)
(* handler that may run leaves its datagram where it is.                   *)
(*                                                                         *)
(* The packets of protocol.h are reduced to what the handlers decide on:   *)
(* packet numbers are left out (the servers only echo them), a unit's      *)
(* location is the name of a position.                                     *)
(*                                                                         *)
(* An end point is an address and a port.  Servers bind their sockets to   *)
(* every address of their machine, so that the address a server has for    *)
(* itself, and tells others, is 0.0.0.0: AnyAddress(e) is that with the    *)
(* port of e.  Where a datagram for it goes is up to the system: on Linux  *)
(* to that port of the sender's own machine, elsewhere nowhere.            *)
(***************************************************************************)
EXTENDS Naturals

CONSTANTS
    Clients,     \* end points of client processes
    Nodes,       \* end points of node servers
    Proxy,       \* end point of the proxy server
    Balancer,    \* end point of the balancer server
    Nowhere,     \* 0.0.0.0:0, the value of an end point nobody has set
    OneHost,     \* all servers run on one machine, and what is sent to 0.0.0.0
                 \* reaches it
    Positions,   \* where a unit may ask to be spawned
    Watched      \* packet types kept for the properties alone

ASSUME EndPointsAssumption ==
    /\ Clients \intersect Nodes = {}
    /\ Proxy \notin Clients \union Nodes
    /\ Balancer \notin Clients \union Nodes \union {Proxy}
    /\ Nowhere \notin Clients \union Nodes \union {Proxy, Balancer}

ASSUME HostAssumption == OneHost \in BOOLEAN

AnyAddress(e) == [address |-> "0.0.0.0", port_of |-> e]
Loopback(e)   == [address |-> "127.0.0.1", port_of |-> e]

NamesOf(e) == {AnyAddress(e), Loopback(e)}

ASSUME AddressAssumption ==
    \A e \in Nodes \union {Proxy} :
        NamesOf(e) \intersect
            (Clients \union Nodes \union {Proxy, Balancer, Nowhere}) = {}

EndPoint ==
    Clients \union Nodes \union {Proxy, Balancer, Nowhere}
    \union UNION {NamesOf(e) : e \in Nodes \union {Proxy}}

\* What is sent to end point `to` arrives at e.
reaches(to, e) ==
    \/ to = e
    \/ OneHost /\ e \in Nodes \union {Proxy} /\ to \in NamesOf(e)

\* FastIndex gives tokens from 0, so that 0 is a user's token like any other.
Token == Nat

VARIABLE datagrams

Datagram ==
    [type : {"LoginAnswer"}, to : Clients, success : BOOLEAN, token : Token]
    \union
    [type : {"InitializePositionInternal"}, to : EndPoint, token : Token,
     position : Positions, proxy_server : EndPoint]
    \union
    [type : {"InitializePositionInternalAnswer"}, to : EndPoint,
     token : Token, node_server : EndPoint, success : BOOLEAN]
    \union
    [type : {"InitializePositionAnswer"}, to : Clients, success : BOOLEAN,
     token : Token]
    \union
    [type : {"LogoutInternal", "LogoutInternalAnswer", "UnitActionInternal",
             "UnitActionInternalAnswer"},
     to : EndPoint, token : Token]
    \union
    [type : {"LogoutAnswer", "UnitActionAnswer"}, to : Clients]

\* Only datagrams that some handler here will read, or a property looks at,
\* need be kept: what the proxy answers to clients is not, but for the token.
kept(m) ==
    \/ m.type \in Watched
    \/ m.to \notin Clients \union {Nowhere}
    \/ m.type = "LoginAnswer" /\ m.success

\* standardSendTo(m).
SendTo(m) == datagrams' = IF kept(m) THEN datagrams \union {m} ELSE datagrams

SendNothing == UNCHANGED datagrams

\* The datagrams of the given type that may reach end point e now.
Arriving(e, type) == {m \in datagrams : reaches(m.to, e) /\ m.type = type}
=============================================================================
