------------------------------ MODULE GameClient ------------------------------
(***************************************************************************)
(* The clients of GameSession as UDPConnection runs them: one process per   *)
(* end point, which logs in as "game_tester", spawns where it is told,     *)
(* plays and logs out.  Its thread handles answers and timers one by one;  *)
(* the program that has it calls start(), doEvent() and doLogout() and     *)
(* sets g_logout_request from another thread.                              *)
(*                                                                         *)
(* A request that was sent may reach the proxy at any later time, again and *)
(* again or never: its repetitions are in that.  Time is left out, so that *)
(* the ten attempts of a request may be over at any moment.                *)
(*                                                                         *)
(* main_state has LoginOk and InitializePositionOk only inside a handler.  *)
(***************************************************************************)
EXTENDS GameSession

CONSTANTS
    GameTester, TesterPassword,   \* what every client logs in with
    StartPosition,                \* unit_location of a new request
    Calls          \* bound: what the program of each client does of doLogout(),
                   \* doEvent() and setting g_logout_request

ASSUME ClientAssumption ==
    /\ GameTester \in Logins
    /\ TesterPassword \in Passwords
    /\ StartPosition \in Positions
    /\ Calls \in [Clients -> SUBSET {"doLogout", "doEvent", "g_logout_request"}]
    /\ Credentials = {<<c, GameTester, TesterPassword>> : c \in Clients}

VARIABLES
    main_state,
    exiting,
    g_user_token,
    g_logout_request,
    sent,         \* the requests ever sent
    pending,      \* the types of those whose delivery is still awaited
    handlers,     \* the types of packets with a handler
    receiving,    \* doReceive was called again after the last packet
    posted,       \* the handlers that doLogout and doEvent have posted
    timer         \* an onTimer is under way

clientVars == <<main_state, exiting, g_user_token, g_logout_request, sent,
                pending, handlers, receiving, posted, timer>>

Guaranteed == {"Login", "InitializePosition", "Logout"}

ClientInit ==
    /\ main_state = [c \in Clients |-> "Started"]
    /\ exiting = [c \in Clients |-> FALSE]
    /\ g_user_token = [c \in Clients |-> 0]
    /\ g_logout_request = [c \in Clients |-> FALSE]
    /\ sent = [c \in Clients |-> {}]
    /\ pending = [c \in Clients |-> {}]
    /\ handlers = [c \in Clients |-> {}]
    /\ receiving = [c \in Clients |-> FALSE]
    /\ posted = [c \in Clients |-> {}]
    /\ timer = [c \in Clients |-> FALSE]

-----------------------------------------------------------------------------
Enter(c, state) == main_state' = [main_state EXCEPT ![c] = state]

Send(c, type, token) ==
    sent' = [sent EXCEPT ![c] = @ \cup {[type |-> type, token |-> token]}]

\* guaranteedSend; a client has one request of each type, and an answer carries
\* its number
Ask(c, type, token) ==
    /\ Send(c, type, token)
    /\ pending' = [pending EXCEPT ![c] = @ \cup {type}]

\* onGuaranteedAnswer, which comes before the handler
Delivered(c, type) == pending' = [pending EXCEPT ![c] = @ \ {type}]

setReceiveHandler(c, type) == handlers' = [handlers EXCEPT ![c] = @ \cup {type}]

\* a packet that has a handler arrives
Receives(c, type) == receiving[c] /\ type \in handlers[c]

\* a handler that returns false: nobody calls doReceive again
EndsReceiving(c) ==
    /\ receiving' = [receiving EXCEPT ![c] = FALSE]
    /\ UNCHANGED <<main_state, g_user_token, sent, handlers, timer>>

start(c) ==
    /\ main_state[c] = "Started"
    /\ Enter(c, "LoggingIn")
    /\ Ask(c, "Login", 0)
    /\ setReceiveHandler(c, "LoginAnswer")
    /\ receiving' = [receiving EXCEPT ![c] = TRUE]
    /\ UNCHANGED <<exiting, g_user_token, g_logout_request, posted, timer>>

onLoginAnswer(c) ==
    /\ Receives(c, "LoginAnswer")
    /\ \E m \in Arriving(c, "LoginAnswer") :
        \/ /\ exiting[c]
           /\ Delivered(c, "Login")
           /\ EndsReceiving(c)
        \/ /\ ~ exiting[c]
           /\ main_state[c] = "LoggingIn"
           /\ m.success
           /\ g_user_token' = [g_user_token EXCEPT ![c] = m.token]
           /\ Enter(c, "InitializingPosition")
           /\ Send(c, "InitializePosition", m.token)
           /\ pending' = [pending EXCEPT ![c] =
                             (@ \ {"Login"}) \cup {"InitializePosition"}]
           /\ setReceiveHandler(c, "InitializePositionAnswer")
           /\ UNCHANGED <<receiving, timer>>
        \/ /\ ~ exiting[c]
           /\ ~ (main_state[c] = "LoggingIn" /\ m.success)
           /\ Delivered(c, "Login")
           /\ UNCHANGED <<main_state, g_user_token, sent, handlers, receiving,
                          timer>>
    /\ UNCHANGED <<exiting, g_logout_request, posted>>

\* doTimer has onTimer called at once: the timer it waits for is a local one,
\* whose end cancels the wait, and onTimer does not look at its error
onInitializePositionAnswer(c) ==
    /\ Receives(c, "InitializePositionAnswer")
    /\ \E m \in Arriving(c, "InitializePositionAnswer") :
        /\ Delivered(c, "InitializePosition")
        /\ \/ exiting[c] /\ EndsReceiving(c)
           \/ /\ ~ exiting[c]
              /\ main_state[c] = "InitializingPosition"
              /\ m.success
              /\ Enter(c, "Gaming")
              /\ timer' = [timer EXCEPT ![c] = TRUE]
              /\ setReceiveHandler(c, "UnitActionAnswer")
              /\ UNCHANGED <<g_user_token, sent, receiving>>
           \/ /\ ~ exiting[c]
              /\ ~ (main_state[c] = "InitializingPosition" /\ m.success)
              /\ UNCHANGED <<main_state, g_user_token, sent, handlers, receiving,
                             timer>>
    /\ UNCHANGED <<exiting, g_logout_request, posted>>

\* packet_number_to_location is always empty: the number is never found
onUserActionAnswer(c) ==
    /\ Receives(c, "UnitActionAnswer")
    /\ Arriving(c, "UnitActionAnswer") # {}
    /\ exiting[c]
    /\ EndsReceiving(c)
    /\ UNCHANGED <<exiting, g_logout_request, pending, posted>>

onLogoutAnswer(c) ==
    /\ Receives(c, "LogoutAnswer")
    /\ Arriving(c, "LogoutAnswer") # {}
    /\ Delivered(c, "Logout")
    /\ main_state' = [main_state EXCEPT ![c] =
                         IF @ = "LoggingOut" THEN "LogoutOk" ELSE @]
    /\ receiving' = [receiving EXCEPT ![c] = FALSE]
    /\ UNCHANGED <<exiting, g_user_token, g_logout_request, sent, handlers,
                   posted, timer>>

-----------------------------------------------------------------------------
\* onLoginFailure, onInitializePositionFailure, onLogoutFailure
FailureOf(type) == CASE type = "Login" -> "LoginFailure"
                     [] type = "InitializePosition" -> "InitializePositionFailure"
                     [] type = "Logout" -> "LogoutFailure"

GivesUp(c) ==
    /\ \E type \in pending[c] : Enter(c, FailureOf(type)) /\ Delivered(c, type)
    /\ UNCHANGED <<exiting, g_user_token, g_logout_request, sent, handlers,
                   receiving, posted, timer>>

doLogout(c) ==
    /\ "doLogout" \in Calls[c]
    /\ main_state[c] \notin {"Started", "LoggingOut"}
    /\ ~ exiting[c]
    /\ posted' = [posted EXCEPT ![c] = @ \cup {"onLogout"}]
    /\ UNCHANGED <<main_state, exiting, g_user_token, g_logout_request, sent,
                   pending, handlers, receiving, timer>>

doEvent(c) ==
    /\ "doEvent" \in Calls[c]
    /\ main_state[c] # "Started"
    /\ ~ exiting[c]
    /\ posted' = [posted EXCEPT ![c] = @ \cup {"onEvent"}]
    /\ UNCHANGED <<main_state, exiting, g_user_token, g_logout_request, sent,
                   pending, handlers, receiving, timer>>

UserAsksToLeave(c) ==
    /\ "g_logout_request" \in Calls[c]
    /\ ~ g_logout_request[c]
    /\ g_logout_request' = [g_logout_request EXCEPT ![c] = TRUE]
    /\ UNCHANGED <<main_state, exiting, g_user_token, sent, pending,
                   handlers, receiving, posted, timer>>

\* the rest of onLogout, for who is not exiting
LogsOut(c) ==
    /\ Enter(c, "LoggingOut")
    /\ exiting' = [exiting EXCEPT ![c] = TRUE]
    /\ Ask(c, "Logout", g_user_token[c])
    /\ setReceiveHandler(c, "LogoutAnswer")

\* onEventImpl
Acts(c) ==
    /\ Send(c, "UnitAction", g_user_token[c])
    /\ UNCHANGED <<main_state, exiting, pending, handlers>>

\* onLogout and onEvent, as they were posted
Posted(c) ==
    /\ \E handler \in posted[c] :
        /\ posted' = [posted EXCEPT ![c] = @ \ {handler}]
        /\ \/ exiting[c] /\ UNCHANGED <<main_state, exiting, sent, pending, handlers>>
           \/ ~ exiting[c] /\ handler = "onLogout" /\ LogsOut(c)
           \/ ~ exiting[c] /\ handler = "onEvent" /\ Acts(c)
    /\ UNCHANGED <<g_user_token, g_logout_request, receiving, timer>>

\* MUTANT of onTimer: it does not wait again.
MutantOneTimer(c) ==
    /\ timer[c]
    /\ timer' = [timer EXCEPT ![c] = FALSE]
    /\ \/ exiting[c] /\ UNCHANGED <<main_state, exiting, sent, pending, handlers>>
       \/ ~ exiting[c] /\ g_logout_request[c] /\ LogsOut(c)
       \/ ~ exiting[c] /\ ~ g_logout_request[c] /\ Acts(c)
    /\ UNCHANGED <<g_user_token, g_logout_request, receiving, posted>>

onTimer(c) ==
    /\ timer[c]
    /\ timer' = [timer EXCEPT ![c] = ~ exiting[c]]
    /\ \/ exiting[c] /\ UNCHANGED <<main_state, exiting, sent, pending, handlers>>
       \/ ~ exiting[c] /\ g_logout_request[c] /\ LogsOut(c)
       \/ ~ exiting[c] /\ ~ g_logout_request[c] /\ Acts(c)
    /\ UNCHANGED <<g_user_token, g_logout_request, receiving, posted>>

ClientStep(c) ==
    \/ start(c)
    \/ onLoginAnswer(c)
    \/ onInitializePositionAnswer(c)
    \/ onUserActionAnswer(c)
    \/ onLogoutAnswer(c)
    \/ GivesUp(c)
    \/ doLogout(c)
    \/ doEvent(c)
    \/ UserAsksToLeave(c)
    \/ Posted(c)
    \/ onTimer(c)

-----------------------------------------------------------------------------
\* The proxy's handler of a request that a client has sent.
ProxyHandles(c, request) ==
    \/ request.type = "Login" /\ onLogin(c, GameTester, TesterPassword)
    \/ request.type = "Logout" /\ onLogout(c, request.token)
    \/ /\ request.type = "InitializePosition"
       /\ onInitializePosition(c, request.token, StartPosition)
    \/ request.type = "UnitAction" /\ onUnitAction(c, request.token)

RequestArrives == \E c \in Clients : \E r \in sent[c] : ProxyHandles(c, r)

PlayInit == Init /\ ClientInit

PlayNext ==
    \/ (\E c \in Clients : ClientStep(c)) /\ UNCHANGED vars
    \/ RequestArrives /\ UNCHANGED <<nodeVars, clientVars>>
    \/ InternalAnswer /\ UNCHANGED <<nodeVars, clientVars>>
    \/ NodeNext /\ UNCHANGED <<proxyVars, clientVars>>
    \/ BalancerStep /\ UNCHANGED <<proxyVars, nodeVars, clientVars>>

\* The thread of a connection never stops running its handlers and its timers;
\* nothing is assumed of the network, the servers and the user.
PlayFairness ==
    \A c \in Clients :
        /\ WF_clientVars(GivesUp(c) /\ UNCHANGED vars)
        /\ WF_clientVars(Posted(c) /\ UNCHANGED vars)
        /\ WF_clientVars(onTimer(c) /\ UNCHANGED vars)

PlaySpec ==
    PlayInit /\ [][PlayNext]_<<vars, clientVars>> /\ PlayFairness

-----------------------------------------------------------------------------
\* Whoever plays has a session open under its token, and a unit on a node server
\* that is reached at the end point this session has.  All are the one user, and
\* the proxy tells each the token of the session that one of them has: only that
\* one comes to play, until another one of them logs out, which may reach the
\* session of any (the end point checks of the proxy, and the client that gives up).
PlayersReallyPlay ==
    \A c \in Clients : main_state[c] = "Gaming" =>
        \/ LET token == g_user_token[c]
           IN  /\ find(token)
               /\ token_to_unit_info[token].user_end_point = c
               /\ \E n \in Nodes :
                    /\ reaches(token_to_unit_info[token].node_server_end_point, n)
                    /\ token \in unitsOf(n)
        \/ \E d \in Clients \ {c} : exiting[d]

\* A user who asks to leave while playing is logged out or told that it failed,
\* though nothing the client sends may arrive (onTimer, the ends of a request).
LeavesWhenAsked ==
    \A c \in Clients :
        main_state[c] = "Gaming" /\ g_logout_request[c]
            ~> exiting[c] /\ pending[c] = {}
=============================================================================
