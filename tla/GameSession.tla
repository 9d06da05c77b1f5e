----------------------------- MODULE GameSession -----------------------------
(***************************************************************************)
(* Clients, the proxy server, the balancer's relay of spawn requests and   *)
(* the node servers, over UDP: the login, spawning, game action and logout *)
(* protocols of the README as the handlers run them.                       *)
(*                                                                         *)
(* A client may send any packet whose token it was told, at any time and   *)
(* as often as it likes (it repeats a packet that is not answered), so the *)
(* packets of clients are not kept among the datagrams: one in flight and  *)
(* one sent later are the same.                                            *)
(***************************************************************************)
EXTENDS ProxyServer, NodeServer

CONSTANTS
    Credentials,     \* {<<c, l, p>>}: what the users at each client type in
    World,           \* the positions inside the global bounding box
    Route,           \* position -> node server of the leaf that has it,
                     \* Nowhere if that leaf's server was not started
    RelaysProxy,     \* FALSE as built: registerNewUser drops the proxy's
                     \* address; TRUE: it passes the address on
    Restarts         \* whether the proxy is restarted

ASSUME CredentialsAssumption ==
    /\ Credentials \subseteq Clients \X Logins \X Passwords
    /\ NoPassword \notin Passwords

ASSUME RouteAssumption ==
    /\ World \subseteq Positions
    /\ Route \in [Positions -> Nodes \union {Nowhere}]

ASSUME FlagsAssumption == RelaysProxy \in BOOLEAN /\ Restarts \in BOOLEAN

\* The tokens that client c was told.
toldTo(c) == {m.token : m \in {d \in Arriving(c, "LoginAnswer") : d.success}}

-----------------------------------------------------------------------------

\* The balancer passes a spawn request on to the node server of the leaf
\* that has the position, or refuses it.  (The leaf's unit_count, which only
\* the monitor reads, is left to the model of the tree.)
relaySpawn(m) ==
    /\ m \in Arriving(Balancer, "InitializePositionInternal")
    /\ IF m.position \in World
       THEN SendTo([m EXCEPT !.to = Route[m.position],
                             !.proxy_server = IF RelaysProxy
                                              THEN @ ELSE Nowhere])
       ELSE SendTo([type |-> "InitializePositionInternalAnswer",
                    to |-> Proxy, token |-> m.token,
                    node_server |-> Nowhere, success |-> FALSE])

-----------------------------------------------------------------------------

vars == <<datagrams, proxyVars, nodeVars>>

Init == datagrams = {} /\ ProxyInit /\ NodeInit

ClientPacket ==
    \/ \E c \in Clients, l \in Logins, p \in Passwords :
          <<c, l, p>> \in Credentials /\ onLogin(c, l, p)
    \/ \E c \in Clients : \E t \in toldTo(c) :
          \/ onLogout(c, t)
          \/ \E position \in Positions : onInitializePosition(c, t, position)
          \/ onUnitAction(c, t)

InternalAnswer ==
    \E m \in datagrams :
        \/ onLogoutInternalAnswer(m)
        \/ onInitializePositionInternalAnswer(m)
        \/ onUnitActionInternalAnswer(m)

ProxyRestart ==
    Restarts /\ (onQuit \/ Crash \/ \E n \in Logins : CrashWhileSaving(n))

BalancerStep == \E m \in datagrams : relaySpawn(m)

ProxyNext == ClientPacket \/ InternalAnswer \/ ProxyRestart

Next ==
    \/ ProxyNext /\ UNCHANGED nodeVars
    \/ NodeNext /\ UNCHANGED proxyVars
    \/ BalancerStep /\ UNCHANGED <<proxyVars, nodeVars>>

Spec == Init /\ [][Next]_vars

-----------------------------------------------------------------------------

TypeOK == ProxyTypeOK /\ NodeTypeOK /\ datagrams \subseteq Datagram

\* A user is online exactly while one session is theirs, under the token
\* that onLogin told: two users never share a token and no session outlives
\* the user's online flag.
SessionsMatchUsers ==
    /\ \A l \in Logins : online[l] =>
          /\ l \in registered
          /\ find(unit_token[l])
          /\ token_to_unit_info[unit_token[l]].user_info = l
    /\ \A t \in DOMAIN token_to_unit_info :
          /\ online[token_to_unit_info[t].user_info]
          /\ unit_token[token_to_unit_info[t].user_info] = t

\* online_user_count, kept by hand in two handlers, counts the sessions.
CountMatchesSessions ==
    online_user_count = Cardinality({l \in Logins : online[l]})

\* While a session lasts its user, its client and, once the game is entered,
\* its node server stay the same, whatever answers arrive late or twice.
SessionNeverMoves ==
    [][\A t \in DOMAIN token_to_unit_info \intersect DOMAIN token_to_unit_info' :
          LET before == token_to_unit_info[t]
              after  == token_to_unit_info'[t]
          IN  /\ after.user_info = before.user_info
              /\ after.user_end_point = before.user_end_point
              /\ before.in_game => after = before]_proxyVars

\* A client is told a token only after the password the user registered
\* with was given there, and the token is the user's at that moment.
TokenOnlyForPassword ==
    [][\A m \in datagrams' \ datagrams :
          m.type = "LoginAnswer" /\ m.success =>
            \E l \in Logins :
                /\ <<m.to, l, password'[l]>> \in Credentials
                /\ online'[l]
                /\ unit_token'[l] = m.token]_vars

\* A node server never runs two units for one token, however often a spawn
\* request arrives, and its unit_count is their number.
OneUnitPerToken ==
    \A n \in Nodes : /\ IsInjective(unit_list[n])
                     /\ unit_count[n] = Len(unit_list[n])

\* Unless a line break has shifted the lines of the file: whoever is registered
\* after a restart was so before it, with that password, wherever the process
\* died and whenever it saved last; and a quit signal keeps every user who comes
\* before the first incomplete one in the file.
RestartKeepsUsers ==
    [][ProxyRestart /\ ~ shifted' =>
        /\ \A l \in Logins : password'[l] \in {password[l], NoPassword}
        /\ onQuit =>
             \A l \in registered :
                (\A k \in registered : k <= l => k \notin Incomplete)
                  => password'[l] = password[l]]_vars
=============================================================================
