-------------------------- MODULE GameSessionProofs --------------------------
(***************************************************************************)
(* For any clients, node servers, logins and positions, and for any        *)
(* interleaving, loss, repetition and reordering of the datagrams: the     *)
(* proxy server's sessions and its users agree, online_user_count is       *)
(* right, a session never changes hands, and a node server has one unit    *)
(* for a token.                                                            *)
(*                                                                         *)
(* The last part is about the clients of GameClient (PlaySpec): who plays  *)
(* has a session and a unit.  ClientAssumption is cited there only.        *)
(***************************************************************************)
EXTENDS GameClient, FiniteSetTheorems, SequenceTheorems, TLAPS

\* The part of TypeOK that the arguments below need.
Typed == ProxyTypeOK /\ datagrams \subseteq Datagram

\* online_user_count - 1 is a number only because the count is right, and the
\* count is right only because sessions and users agree.
IInv == Typed /\ SessionsMatchUsers /\ CountMatchesSessions

theOnline == {l \in Logins : online[l]}

-----------------------------------------------------------------------------

\* The end points of the servers, under any name.
LEMMA EndPointsTyped ==
    /\ Nodes \subseteq EndPoint
    /\ Proxy \in EndPoint /\ Balancer \in EndPoint /\ Nowhere \in EndPoint
    /\ AnyAddress(Proxy) \in EndPoint
    /\ \A n \in Nodes : AnyAddress(n) \in EndPoint
BY DEF EndPoint, NamesOf

\* Replacing a loopback address leaves an end point, and 0.0.0.0 as it is.
LEMMA SeenTyped ==
    ASSUME NEW e \in EndPoint
    PROVE  seenFrom(e) \in EndPoint
BY EndPointsTyped DEF seenFrom

LEMMA SeenFromAny ==
    ASSUME NEW n
    PROVE  seenFrom(AnyAddress(n)) = AnyAddress(n)
BY DEF seenFrom, AnyAddress, Loopback

\* A client is reached at its own end point alone, and the proxy and a node
\* server never at another server's.
LEMMA ReachesClient ==
    ASSUME NEW c \in Clients, NEW to, reaches(to, c)
    PROVE  to = c
BY EndPointsAssumption DEF reaches

LEMMA ReachesServer ==
    ASSUME NEW n \in Nodes, NEW to \in Nodes \union {Balancer}, reaches(to, n)
    PROVE  to = n
BY AddressAssumption DEF reaches

LEMMA ReachesProxy ==
    ASSUME NEW to \in {AnyAddress(Proxy), Nowhere}, reaches(to, Proxy)
    PROVE  OneHost
BY EndPointsAssumption, AddressAssumption DEF reaches, NamesOf

\* What is sent is a datagram.
LEMMA SendTyped ==
    ASSUME datagrams \subseteq Datagram, NEW m \in Datagram, SendTo(m)
    PROVE  datagrams' \subseteq Datagram
BY DEF SendTo

LEMMA LoginAnswerTyped ==
    ASSUME NEW c \in Clients, NEW ok \in BOOLEAN, NEW t \in Token
    PROVE  [type |-> "LoginAnswer", to |-> c, success |-> ok, token |-> t]
             \in Datagram
BY DEF Datagram

LEMMA TokenTyped ==
    ASSUME NEW type \in {"LogoutInternal", "LogoutInternalAnswer",
                         "UnitActionInternal", "UnitActionInternalAnswer"},
           NEW to \in EndPoint, NEW t \in Token
    PROVE  /\ [type |-> type, to |-> to, token |-> t] \in Datagram
           /\ [type |-> type, token |-> t, to |-> to] \in Datagram
BY DEF Datagram

LEMMA PlainAnswerTyped ==
    ASSUME NEW type \in {"LogoutAnswer", "UnitActionAnswer"}, NEW c \in Clients
    PROVE  [type |-> type, to |-> c] \in Datagram
BY DEF Datagram

LEMMA SpawnTyped ==
    ASSUME NEW to \in EndPoint, NEW t \in Token, NEW position \in Positions,
           NEW proxy \in EndPoint
    PROVE  [type |-> "InitializePositionInternal", to |-> to, token |-> t,
            position |-> position, proxy_server |-> proxy] \in Datagram
BY DEF Datagram

LEMMA SpawnInternalAnswerTyped ==
    ASSUME NEW to \in EndPoint, NEW t \in Token, NEW n \in EndPoint,
           NEW ok \in BOOLEAN
    PROVE  [type |-> "InitializePositionInternalAnswer", to |-> to,
            token |-> t, node_server |-> n, success |-> ok] \in Datagram
BY DEF Datagram

LEMMA SpawnAnswerTyped ==
    ASSUME NEW c \in Clients, NEW t \in Token, NEW ok \in BOOLEAN
    PROVE  [type |-> "InitializePositionAnswer", to |-> c, success |-> ok,
            token |-> t] \in Datagram
BY DEF Datagram

\* The fields of what arrives.
LEMMA TokenOf ==
    ASSUME NEW m \in Datagram,
           m.type \in {"LogoutInternal", "LogoutInternalAnswer",
                       "UnitActionInternal", "UnitActionInternalAnswer",
                       "LoginAnswer"}
    PROVE  m.token \in Token
BY DEF Datagram

LEMMA SpawnFields ==
    ASSUME NEW m \in Datagram, m.type = "InitializePositionInternal"
    PROVE  /\ m \in [type : {"InitializePositionInternal"}, to : EndPoint,
                     token : Token, position : Positions,
                     proxy_server : EndPoint]
           /\ m.token \in Token
           /\ m.position \in Positions
           /\ m.proxy_server \in EndPoint
BY DEF Datagram

LEMMA SpawnAnswerFields ==
    ASSUME NEW m \in Datagram, m.type = "InitializePositionInternalAnswer"
    PROVE  /\ m.token \in Token
           /\ m.node_server \in EndPoint
           /\ m.success \in BOOLEAN
BY DEF Datagram

-----------------------------------------------------------------------------

\* A handler that leaves the proxy's variables alone keeps what is said of
\* them.
LEMMA ProxyUnchanged ==
    ASSUME IInv, UNCHANGED proxyVars, datagrams' \subseteq Datagram
    PROVE  IInv'
BY DEF IInv, Typed, ProxyTypeOK, SessionsMatchUsers, CountMatchesSessions,
       proxyVars, registered, find

\* A token that is given is new and below the new frontier.
LEMMA GiveFresh ==
    ASSUME ProxyTypeOK, NEW t, Tokens!Give(t)
    PROVE  /\ t \in Token
           /\ t \notin DOMAIN token_to_unit_info
           /\ frontier' \in Nat
           /\ DOMAIN token_to_unit_info \union {t} \subseteq 0 .. frontier' - 1
<1>1. /\ frontier \in Nat
      /\ DOMAIN token_to_unit_info \subseteq 0 .. frontier - 1
  BY DEF ProxyTypeOK
<1>2. CASE t \in Tokens!Returned /\ frontier' = frontier
  BY <1>1, <1>2 DEF Tokens!Returned, Token
<1>3. CASE Tokens!Returned = {} /\ t = frontier /\ frontier' = frontier + 1
  <2>1. \A u \in 0 .. frontier - 1 : u \in 0 .. frontier' - 1
    BY <1>1, <1>3
  <2>2. t \in 0 .. frontier' - 1 /\ t \notin 0 .. frontier - 1
    BY <1>1, <1>3
  <2> QED
    BY <1>1, <1>3, <2>1, <2>2 DEF Token
<1> QED
  BY <1>2, <1>3 DEF Tokens!Give

\* A login that opens a session.
LEMMA OpenSessionKeeps ==
    ASSUME IInv, NEW c \in Clients, NEW l \in Logins, NEW p \in Passwords,
           password' = IF l \in registered THEN password
                       ELSE [password EXCEPT ![l] = p],
           UNCHANGED fileVars, ~online[l], openSession(l, c)
    PROVE  IInv'
<1> DEFINE S(t) == [user_info |-> l, in_game |-> FALSE,
                    node_server_end_point |-> Nowhere, user_end_point |-> c]
<1>1. PICK t \in 0 .. frontier :
        /\ token_to_unit_info' =
             [u \in DOMAIN token_to_unit_info \union {t} |->
                IF u = t THEN S(t) ELSE token_to_unit_info[u]]
        /\ Tokens!Give(t)
        /\ online' = [online EXCEPT ![l] = TRUE]
        /\ unit_token' = [unit_token EXCEPT ![l] = t]
        /\ online_user_count' = online_user_count + 1
        /\ answerLogin(c, TRUE, t)
  BY DEF openSession
<1>2. /\ t \in Token
      /\ t \notin DOMAIN token_to_unit_info
      /\ frontier' \in Nat
      /\ DOMAIN token_to_unit_info \union {t} \subseteq 0 .. frontier' - 1
  BY <1>1, GiveFresh DEF IInv, Typed
<1>3. S(t) \in UserOnlineInfo
  BY EndPointsTyped DEF UserOnlineInfo
<1>4. datagrams' \subseteq Datagram
  BY <1>1, <1>2, SendTyped, LoginAnswerTyped DEF answerLogin, IInv, Typed
<1> HIDE DEF S
<1>5. ProxyTypeOK'
  <2>1. password' \in [Logins -> Passwords \union {NoPassword}]
    BY DEF IInv, Typed, ProxyTypeOK
  <2>2. /\ DOMAIN token_to_unit_info' = DOMAIN token_to_unit_info \union {t}
        /\ \A u \in DOMAIN token_to_unit_info' :
              token_to_unit_info'[u] \in UserOnlineInfo
    BY <1>1, <1>3 DEF IInv, Typed, ProxyTypeOK
  <2>3. /\ online' \in [Logins -> BOOLEAN]
        /\ unit_token' \in [Logins -> Token]
        /\ online_user_count' \in Nat
    BY <1>1, <1>2 DEF IInv, Typed, ProxyTypeOK
  <2>4. /\ users_file' \in [Logins -> Passwords \union {NoPassword}]
        /\ shifted' \in BOOLEAN
    BY DEF IInv, Typed, ProxyTypeOK, fileVars
  <2> QED
    BY <1>2, <2>1, <2>2, <2>3, <2>4 DEF ProxyTypeOK
<1>6. SessionsMatchUsers'
  <2>1. S(t).user_info = l
    BY DEF S
  <2>2. l \in registered'
    BY LoginsAssumption, CredentialsAssumption
    DEF registered, IInv, Typed, ProxyTypeOK
  <2>3. registered \subseteq registered'
    BY CredentialsAssumption DEF registered, IInv, Typed, ProxyTypeOK
  <2>4. ASSUME NEW k \in Logins, online'[k]
        PROVE  /\ k \in registered'
               /\ unit_token'[k] \in DOMAIN token_to_unit_info'
               /\ token_to_unit_info'[unit_token'[k]].user_info = k
    <3>1. CASE k = l
      BY <1>1, <1>2, <2>1, <2>2, <3>1 DEF IInv, Typed, ProxyTypeOK
    <3>2. CASE k # l
      BY <1>1, <1>2, <2>3, <2>4, <3>2
      DEF IInv, Typed, ProxyTypeOK, SessionsMatchUsers, find
    <3> QED
      BY <3>1, <3>2
  <2>5. ASSUME NEW u \in DOMAIN token_to_unit_info'
        PROVE  /\ online'[token_to_unit_info'[u].user_info]
               /\ unit_token'[token_to_unit_info'[u].user_info] = u
    <3>1. CASE u = t
      BY <1>1, <2>1, <3>1 DEF IInv, Typed, ProxyTypeOK
    <3>2. CASE u # t
      <4>1. /\ u \in DOMAIN token_to_unit_info
            /\ token_to_unit_info'[u] = token_to_unit_info[u]
        BY <1>1, <2>5, <3>2
      <4>2. /\ token_to_unit_info[u].user_info \in Logins
            /\ token_to_unit_info[u].user_info # l
        BY <4>1 DEF IInv, Typed, ProxyTypeOK, UserOnlineInfo,
                    SessionsMatchUsers
      <4> QED
        BY <1>1, <4>1, <4>2
        DEF IInv, Typed, ProxyTypeOK, SessionsMatchUsers
    <3> QED
      BY <3>1, <3>2
  <2> QED
    BY <2>4, <2>5 DEF SessionsMatchUsers, find
<1>7. CountMatchesSessions'
  <2>1. theOnline' = theOnline \union {l} /\ l \notin theOnline
    BY <1>1 DEF theOnline, IInv, Typed, ProxyTypeOK
  <2>2. IsFiniteSet(theOnline)
    BY LoginsAssumption, FS_Subset DEF theOnline
  <2>3. Cardinality(theOnline') = Cardinality(theOnline) + 1
    BY <2>1, <2>2, FS_AddElement
  <2> QED
    BY <1>1, <2>3 DEF CountMatchesSessions, theOnline, IInv
<1> QED
  BY <1>4, <1>5, <1>6, <1>7 DEF IInv, Typed

\* Any other login: only a new user may appear.
LEMMA LoginKeeps ==
    ASSUME IInv, NEW c \in Clients, NEW l \in Logins, NEW p \in Passwords,
           onLogin(c, l, p)
    PROVE  IInv'
<1>1. CASE openSession(l, c) /\ ~online[l]
  BY <1>1, OpenSessionKeeps DEF onLogin
<1>2. ASSUME UNCHANGED <<online, unit_token, token_to_unit_info, frontier,
                         online_user_count>>,
             NEW ok \in BOOLEAN, NEW t \in Token, answerLogin(c, ok, t)
      PROVE  IInv'
  <2>1. datagrams' \subseteq Datagram
    BY <1>2, SendTyped, LoginAnswerTyped DEF answerLogin, IInv, Typed
  <2>2. password' \in [Logins -> Passwords \union {NoPassword}]
    BY DEF onLogin, IInv, Typed, ProxyTypeOK
  <2>3. registered \subseteq registered'
    BY CredentialsAssumption DEF onLogin, registered, IInv, Typed, ProxyTypeOK
  <2>4. ProxyTypeOK'
    BY <1>2, <2>2 DEF onLogin, IInv, Typed, ProxyTypeOK, fileVars
  <2>5. SessionsMatchUsers' /\ CountMatchesSessions'
    BY <1>2, <2>3 DEF IInv, SessionsMatchUsers, CountMatchesSessions, find
  <2> QED
    BY <2>1, <2>4, <2>5 DEF IInv, Typed
<1>3. unit_token[l] \in Token /\ 0 \in Token
  BY DEF IInv, Typed, ProxyTypeOK, Token
<1> QED
  BY <1>1, <1>2, <1>3 DEF onLogin

\* The end of a session takes its user offline and nobody else.
LEMMA LogoutKeeps ==
    ASSUME IInv, NEW m \in datagrams, onLogoutInternalAnswer(m)
    PROVE  IInv'
<1> DEFINE t == m.token
           l == token_to_unit_info[t].user_info
<1>1. /\ t \in DOMAIN token_to_unit_info
      /\ online' = [online EXCEPT ![l] = FALSE]
      /\ unit_token' = [unit_token EXCEPT ![l] = 0]
      /\ token_to_unit_info' =
           [u \in DOMAIN token_to_unit_info \ {t} |-> token_to_unit_info[u]]
      /\ UNCHANGED <<frontier, password, users_file, shifted>>
      /\ online_user_count' = online_user_count - 1
      /\ SendTo([type |-> "LogoutAnswer",
                 to |-> token_to_unit_info[t].user_end_point])
  BY DEF onLogoutInternalAnswer, find, Tokens!TakeBack, fileVars
<1>2. /\ l \in Logins
      /\ token_to_unit_info[t].user_end_point \in Clients
      /\ online[l]
      /\ unit_token[l] = t
  BY <1>1 DEF IInv, Typed, ProxyTypeOK, UserOnlineInfo, SessionsMatchUsers
<1> HIDE DEF t, l
<1>3. datagrams' \subseteq Datagram
  BY <1>1, <1>2, SendTyped, PlainAnswerTyped DEF IInv, Typed
<1>4. SessionsMatchUsers'
  <2>1. ASSUME NEW k \in Logins, online'[k]
        PROVE  /\ k \in registered'
               /\ unit_token'[k] \in DOMAIN token_to_unit_info'
               /\ token_to_unit_info'[unit_token'[k]].user_info = k
    <3>1. k # l /\ online[k] /\ unit_token'[k] = unit_token[k]
      BY <1>1, <1>2, <2>1 DEF IInv, Typed, ProxyTypeOK
    <3>2. /\ k \in registered
          /\ unit_token[k] \in DOMAIN token_to_unit_info
          /\ token_to_unit_info[unit_token[k]].user_info = k
      BY <3>1 DEF IInv, SessionsMatchUsers, find
    <3>3. unit_token[k] # t
      BY <3>1, <3>2 DEF l
    <3> QED
      BY <1>1, <3>1, <3>2, <3>3 DEF registered
  <2>2. ASSUME NEW u \in DOMAIN token_to_unit_info'
        PROVE  /\ online'[token_to_unit_info'[u].user_info]
               /\ unit_token'[token_to_unit_info'[u].user_info] = u
    <3>1. /\ u \in DOMAIN token_to_unit_info
          /\ u # t
          /\ token_to_unit_info'[u] = token_to_unit_info[u]
      BY <1>1, <2>2
    <3>2. /\ token_to_unit_info[u].user_info \in Logins
          /\ online[token_to_unit_info[u].user_info]
          /\ unit_token[token_to_unit_info[u].user_info] = u
      BY <3>1 DEF IInv, Typed, ProxyTypeOK, UserOnlineInfo, SessionsMatchUsers
    <3> QED
      BY <1>1, <1>2, <3>1, <3>2 DEF IInv, Typed, ProxyTypeOK
  <2> QED
    BY <2>1, <2>2 DEF SessionsMatchUsers, find
<1>5. /\ Cardinality(theOnline') = Cardinality(theOnline) - 1
      /\ Cardinality(theOnline) \in Nat
      /\ Cardinality(theOnline') \in Nat
  <2>1. theOnline' = theOnline \ {l} /\ l \in theOnline
    BY <1>1, <1>2 DEF theOnline, IInv, Typed, ProxyTypeOK
  <2>2. IsFiniteSet(theOnline) /\ IsFiniteSet(theOnline')
    BY LoginsAssumption, FS_Subset DEF theOnline
  <2> QED
    BY <2>1, <2>2, FS_RemoveElement, FS_CardinalityType
<1>6. CountMatchesSessions' /\ online_user_count' \in Nat
  BY <1>1, <1>5 DEF CountMatchesSessions, theOnline, IInv
<1>7. ProxyTypeOK'
  <2>1. /\ DOMAIN token_to_unit_info' \subseteq DOMAIN token_to_unit_info
        /\ \A u \in DOMAIN token_to_unit_info' :
              token_to_unit_info'[u] \in UserOnlineInfo
    BY <1>1 DEF IInv, Typed, ProxyTypeOK
  <2>2. /\ online' \in [Logins -> BOOLEAN]
        /\ unit_token' \in [Logins -> Token]
    BY <1>1 DEF IInv, Typed, ProxyTypeOK, Token
  <2> QED
    BY <1>1, <1>6, <2>1, <2>2 DEF IInv, Typed, ProxyTypeOK
<1> QED
  BY <1>3, <1>4, <1>6, <1>7 DEF IInv, Typed

\* An answer to a spawn request changes only where a session plays.
LEMMA SpawnAnswerKeeps ==
    ASSUME IInv, NEW m \in datagrams, onInitializePositionInternalAnswer(m)
    PROVE  IInv'
<1>1. /\ m.token \in Token
      /\ m.node_server \in EndPoint
      /\ m.success \in BOOLEAN
  BY SpawnAnswerFields
  DEF IInv, Typed, onInitializePositionInternalAnswer, Arriving
<1> DEFINE t == m.token
<1>2. /\ t \in DOMAIN token_to_unit_info
      /\ token_to_unit_info' =
            [token_to_unit_info EXCEPT
               ![t].in_game = TRUE,
               ![t].node_server_end_point = seenFrom(m.node_server)]
      /\ UNCHANGED <<userVars, frontier, online_user_count, users_file, shifted>>
  BY DEF onInitializePositionInternalAnswer, find, fileVars
<1>3. /\ DOMAIN token_to_unit_info' = DOMAIN token_to_unit_info
      /\ \A u \in DOMAIN token_to_unit_info :
            /\ token_to_unit_info'[u] \in UserOnlineInfo
            /\ token_to_unit_info'[u].user_info =
                  token_to_unit_info[u].user_info
  BY <1>1, <1>2, SeenTyped DEF IInv, Typed, ProxyTypeOK, UserOnlineInfo
<1>4. datagrams' \subseteq Datagram
  <2>1. token_to_unit_info[t].user_end_point \in Clients
    BY <1>2 DEF IInv, Typed, ProxyTypeOK, UserOnlineInfo
  <2> QED
    BY <1>1, <2>1, SendTyped, SpawnAnswerTyped
    DEF IInv, Typed, onInitializePositionInternalAnswer
<1>5. ProxyTypeOK'
  BY <1>2, <1>3 DEF IInv, Typed, ProxyTypeOK, userVars
<1>6. SessionsMatchUsers' /\ CountMatchesSessions'
  BY <1>2, <1>3 DEF IInv, SessionsMatchUsers, CountMatchesSessions, find,
                    registered, userVars
<1> QED
  BY <1>4, <1>5, <1>6 DEF IInv, Typed

\* A restart begins without users online.
LEMMA RestartKeeps ==
    ASSUME IInv, NEW file \in [Logins -> Passwords \union {NoPassword}],
           Restart(file)
    PROVE  IInv'
<1>1. /\ users_file' = file
      /\ password' \in [Logins -> Passwords \union {NoPassword}]
      /\ online' = [l \in Logins |-> FALSE]
      /\ unit_token' = [l \in Logins |-> 0]
      /\ DOMAIN token_to_unit_info' = {}
      /\ frontier' = 0
      /\ online_user_count' = 0
      /\ shifted' \in BOOLEAN
      /\ datagrams' = datagrams
  BY DEF Restart, loadRegisteredUsers, readShifted, SendNothing, IInv, Typed,
         ProxyTypeOK
<1>2. theOnline' = {}
  BY <1>1 DEF theOnline
<1>3. CountMatchesSessions'
  BY <1>1, <1>2, FS_EmptySet DEF CountMatchesSessions, theOnline
<1>4. ProxyTypeOK'
  BY <1>1 DEF ProxyTypeOK, Token
<1>5. SessionsMatchUsers'
  BY <1>1 DEF SessionsMatchUsers
<1> QED
  BY <1>1, <1>3, <1>4, <1>5 DEF IInv, Typed

-----------------------------------------------------------------------------

\* The requests of clients that only pass something on.
LEMMA ClientRequestTyped ==
    ASSUME IInv, NEW c \in Clients, NEW t,
           \/ onLogout(c, t)
           \/ \E position \in Positions : onInitializePosition(c, t, position)
           \/ onUnitAction(c, t)
    PROVE  UNCHANGED proxyVars /\ datagrams' \subseteq Datagram
<1> DEFINE info == token_to_unit_info[t]
<1>1. /\ t \in Token
      /\ info.user_info \in Logins
      /\ info.node_server_end_point \in EndPoint
      /\ unit_token[info.user_info] \in Token
  <2>1. ownedBy(t, c)
    BY DEF onLogout, onInitializePosition, onUnitAction
  <2> QED
    BY <2>1 DEF ownedBy, find, IInv, Typed, ProxyTypeOK, UserOnlineInfo, Token
<1>2. AnyAddress(Proxy) \in EndPoint /\ Balancer \in EndPoint
  BY EndPointsTyped
<1>3. CASE onLogout(c, t)
  BY <1>1, <1>3, SendTyped, TokenTyped DEF onLogout, IInv, Typed
<1>4. CASE \E position \in Positions : onInitializePosition(c, t, position)
  BY <1>1, <1>2, <1>4, SendTyped, SpawnTyped, SpawnAnswerTyped
  DEF onInitializePosition, IInv, Typed
<1>5. CASE onUnitAction(c, t)
  BY <1>1, <1>5, SendTyped, TokenTyped DEF onUnitAction, IInv, Typed
<1> QED
  BY <1>3, <1>4, <1>5

LEMMA UnitActionAnswerTyped ==
    ASSUME IInv, NEW m \in datagrams, onUnitActionInternalAnswer(m)
    PROVE  UNCHANGED proxyVars /\ datagrams' \subseteq Datagram
<1>1. token_to_unit_info[m.token].user_end_point \in Clients
  BY DEF onUnitActionInternalAnswer, find, IInv, Typed, ProxyTypeOK,
         UserOnlineInfo
<1> QED
  BY <1>1, SendTyped, PlainAnswerTyped
  DEF onUnitActionInternalAnswer, IInv, Typed

\* What the node servers send is well formed, whatever their units are.
LEMMA NodeTyped ==
    ASSUME IInv, NodeNext
    PROVE  datagrams' \subseteq Datagram
<1>1. PICK n \in Nodes, m \in datagrams :
         \/ onLogoutInternal(n, m)
         \/ onInitializePositionInternal(n, m)
         \/ onUnitActionInternal(n, m)
  BY DEF NodeNext
<1>2. m \in Datagram /\ AnyAddress(n) \in EndPoint /\ Proxy \in EndPoint
  BY EndPointsTyped DEF IInv, Typed
<1>3. CASE onLogoutInternal(n, m)
  <2>1. m.token \in Token
    BY <1>2, <1>3, TokenOf DEF onLogoutInternal, Arriving
  <2> QED
    BY <1>2, <1>3, <2>1, SendTyped, TokenTyped DEF onLogoutInternal, IInv, Typed
<1>4. CASE onInitializePositionInternal(n, m)
  <2>1. m.token \in Token /\ m.proxy_server \in EndPoint
    BY <1>2, <1>4, SpawnFields DEF onInitializePositionInternal, Arriving
  <2>2. (m.token \in unitsOf(n) \/ m.position \in Zone[n]) \in BOOLEAN
    OBVIOUS
  <2> QED
    BY <1>2, <1>4, <2>1, <2>2, SendTyped, SpawnInternalAnswerTyped
    DEF onInitializePositionInternal, IInv, Typed
<1>5. CASE onUnitActionInternal(n, m)
  <2>1. m.token \in Token
    BY <1>2, <1>5, TokenOf DEF onUnitActionInternal, Arriving
  <2> QED
    BY <1>2, <1>5, <2>1, SendTyped, TokenTyped
    DEF onUnitActionInternal, IInv, Typed
<1> QED
  BY <1>1, <1>3, <1>4, <1>5

\* So is what the balancer sends.
LEMMA BalancerTyped ==
    ASSUME IInv, BalancerStep
    PROVE  datagrams' \subseteq Datagram
<1>1. PICK m \in datagrams : relaySpawn(m)
  BY DEF BalancerStep
<1>2. /\ m \in [type : {"InitializePositionInternal"}, to : EndPoint,
                token : Token, position : Positions, proxy_server : EndPoint]
      /\ m.token \in Token
      /\ m.position \in Positions
      /\ m.proxy_server \in EndPoint
  BY <1>1, SpawnFields DEF relaySpawn, Arriving, IInv, Typed
<1>3. /\ Proxy \in EndPoint /\ Nowhere \in EndPoint
      /\ Route[m.position] \in EndPoint
  BY <1>2, RouteAssumption, EndPointsTyped
<1>4. CASE m.position \in World
  <2> DEFINE proxy == IF RelaysProxy THEN m.proxy_server ELSE Nowhere
             relayed == [m EXCEPT !.to = Route[m.position], !.proxy_server = proxy]
  <2>1. proxy \in EndPoint
    BY <1>2, <1>3
  <2>2. SendTo(relayed)
    BY <1>1, <1>4 DEF relaySpawn
  <2> HIDE DEF proxy
  <2>3. relayed \in Datagram
    BY <1>2, <1>3, <2>1 DEF Datagram
  <2> QED
    BY <2>2, <2>3, SendTyped DEF IInv, Typed
<1>5. CASE m.position \notin World
  BY <1>1, <1>2, <1>3, <1>5, SendTyped, SpawnInternalAnswerTyped
  DEF relaySpawn, IInv, Typed
<1> QED
  BY <1>4, <1>5

-----------------------------------------------------------------------------

LEMMA InitIInv == Init => IInv
<1> SUFFICES ASSUME Init PROVE IInv
  OBVIOUS
<1>1. /\ users_file = [l \in Logins |-> NoPassword]
      /\ password \in [Logins -> Passwords \union {NoPassword}]
      /\ online = [l \in Logins |-> FALSE]
      /\ unit_token = [l \in Logins |-> 0]
      /\ DOMAIN token_to_unit_info = {}
      /\ frontier = 0
      /\ online_user_count = 0
      /\ shifted \in BOOLEAN
      /\ datagrams = {}
  BY DEF Init, ProxyInit, loadRegisteredUsers
<1>2. theOnline = {}
  BY <1>1 DEF theOnline
<1>3. CountMatchesSessions
  BY <1>1, <1>2, FS_EmptySet DEF CountMatchesSessions, theOnline
<1>4. ProxyTypeOK
  BY <1>1 DEF ProxyTypeOK, Token
<1>5. SessionsMatchUsers
  BY <1>1 DEF SessionsMatchUsers
<1> QED
  BY <1>1, <1>3, <1>4, <1>5 DEF IInv, Typed

LEMMA NextIInv == IInv /\ [Next]_vars => IInv'
<1> SUFFICES ASSUME IInv, [Next]_vars PROVE IInv'
  OBVIOUS
<1>1. CASE ClientPacket
  <2>1. ASSUME NEW c \in Clients, NEW l \in Logins, NEW p \in Passwords,
               onLogin(c, l, p)
        PROVE  IInv'
    BY <2>1, LoginKeeps
  <2>2. ASSUME NEW c \in Clients, NEW t \in toldTo(c),
               \/ onLogout(c, t)
               \/ \E position \in Positions :
                     onInitializePosition(c, t, position)
               \/ onUnitAction(c, t)
        PROVE  IInv'
    BY <2>2, ClientRequestTyped, ProxyUnchanged
  <2> QED
    BY <1>1, <2>1, <2>2 DEF ClientPacket
<1>2. CASE InternalAnswer
  BY <1>2, LogoutKeeps, SpawnAnswerKeeps, UnitActionAnswerTyped,
     ProxyUnchanged DEF InternalAnswer
<1>3. CASE ProxyRestart
  BY <1>3, RestartKeeps
  DEF ProxyRestart, onQuit, Crash, CrashWhileSaving, IInv, Typed, ProxyTypeOK
<1>4. CASE NodeNext /\ UNCHANGED proxyVars
  BY <1>4, NodeTyped, ProxyUnchanged
<1>5. CASE BalancerStep /\ UNCHANGED <<proxyVars, nodeVars>>
  BY <1>5, BalancerTyped, ProxyUnchanged
<1>6. CASE UNCHANGED vars
  BY <1>6, ProxyUnchanged DEF vars, IInv, Typed
<1> QED
  BY <1>1, <1>2, <1>3, <1>4, <1>5, <1>6 DEF Next, ProxyNext

LEMMA Inductive == Spec => []IInv
BY InitIInv, NextIInv, PTL DEF Spec

\* Sessions and users agree and are counted in every reachable state
\* (onLogin and onLogoutInternalAnswer, proxy_server.cpp), and what the
\* proxy holds and everybody sends is well formed.
THEOREM SessionsCorrect ==
    Spec => [](Typed /\ SessionsMatchUsers /\ CountMatchesSessions)
BY Inductive, PTL DEF IInv

-----------------------------------------------------------------------------

\* No handler changes whose a session is, and the one answer that lets a
\* session enter the game (onInitializePositionInternalAnswer) finds it
\* outside, however many answers arrive.
THEOREM SessionsStay == Spec => SessionNeverMoves
<1> DEFINE Stays ==
      \A t \in DOMAIN token_to_unit_info \intersect DOMAIN token_to_unit_info' :
          LET before == token_to_unit_info[t]
              after  == token_to_unit_info'[t]
          IN  /\ after.user_info = before.user_info
              /\ after.user_end_point = before.user_end_point
              /\ before.in_game => after = before
<1>1. IInv /\ [Next]_vars => [Stays]_proxyVars
  <2> SUFFICES ASSUME IInv, [Next]_vars PROVE [Stays]_proxyVars
    OBVIOUS
  <2>1. ASSUME \A t \in DOMAIN token_to_unit_info
                         \intersect DOMAIN token_to_unit_info' :
                   token_to_unit_info'[t] = token_to_unit_info[t]
        PROVE  Stays
    BY <2>1
  <2>2. ASSUME NEW c \in Clients, NEW l \in Logins, NEW p \in Passwords,
               onLogin(c, l, p)
        PROVE  Stays
    <3>1. CASE openSession(l, c)
      <4>1. PICK t \in 0 .. frontier :
              /\ Tokens!Give(t)
              /\ \A u \in DOMAIN token_to_unit_info :
                    u # t => token_to_unit_info'[u] = token_to_unit_info[u]
        BY <3>1 DEF openSession
      <4>2. t \notin DOMAIN token_to_unit_info
        BY <4>1, GiveFresh DEF IInv, Typed
      <4> QED
        BY <2>1, <4>1, <4>2
    <3>2. CASE UNCHANGED token_to_unit_info
      BY <2>1, <3>2
    <3> QED
      BY <2>2, <3>1, <3>2 DEF onLogin
  <2>3. ASSUME NEW m \in datagrams, onLogoutInternalAnswer(m)
        PROVE  Stays
    BY <2>1, <2>3 DEF onLogoutInternalAnswer
  <2>4. ASSUME NEW m \in datagrams, onInitializePositionInternalAnswer(m)
        PROVE  Stays
    <3>1. \A t \in DOMAIN token_to_unit_info :
             token_to_unit_info[t] \in UserOnlineInfo
      BY DEF IInv, Typed, ProxyTypeOK
    <3>2. /\ ~token_to_unit_info[m.token].in_game
          /\ token_to_unit_info' =
               [token_to_unit_info EXCEPT
                  ![m.token].in_game = TRUE,
                  ![m.token].node_server_end_point = seenFrom(m.node_server)]
      BY <2>4 DEF onInitializePositionInternalAnswer
    <3> QED
      BY <3>1, <3>2 DEF UserOnlineInfo
  <2>5. CASE ClientPacket
    BY <2>1, <2>2, <2>5, ClientRequestTyped DEF ClientPacket, proxyVars
  <2>6. CASE InternalAnswer
    BY <2>1, <2>3, <2>4, <2>6 DEF InternalAnswer, onUnitActionInternalAnswer,
                                  proxyVars
  <2>7. CASE ProxyRestart
    BY <2>1, <2>7 DEF ProxyRestart, onQuit, Crash, CrashWhileSaving, Restart
  <2> HIDE DEF Stays
  <2>8. CASE UNCHANGED proxyVars
    BY <2>8
  <2> QED
    BY <2>5, <2>6, <2>7, <2>8 DEF Next, ProxyNext, vars
<1> QED
  BY <1>1, Inductive, PTL DEF Spec, SessionNeverMoves

-----------------------------------------------------------------------------

\* online_user_count, which two handlers keep by hand, is the number of users
\* who are online, although answers to logouts come late and twice.
THEOREM UsersCounted == Spec => []CountMatchesSessions
BY Inductive, PTL DEF IInv

LEMMA OnlySent ==
    ASSUME NEW m, SendTo(m), NEW d \in datagrams' \ datagrams
    PROVE  d = m
BY DEF SendTo

\* A login answers with success only whom the password was typed in for.
LEMMA LoginNeedsPassword ==
    ASSUME IInv,
           NEW c \in Clients, NEW l \in Logins, NEW p \in Passwords,
           <<c, l, p>> \in Credentials, onLogin(c, l, p),
           NEW d \in datagrams' \ datagrams, d.success
    PROVE  /\ <<d.to, l, password'[l]>> \in Credentials
           /\ online'[l]
           /\ unit_token'[l] = d.token
<1>1. CASE answerLogin(c, FALSE, 0)
  <2>1. d = [type |-> "LoginAnswer", to |-> c, success |-> FALSE, token |-> 0]
    BY <1>1, OnlySent DEF answerLogin
  <2> QED
    BY <2>1
<1>2. CASE password'[l] = p /\ openSession(l, c)
  <2>1. PICK t \in 0 .. frontier :
          /\ online' = [online EXCEPT ![l] = TRUE]
          /\ unit_token' = [unit_token EXCEPT ![l] = t]
          /\ answerLogin(c, TRUE, t)
    BY <1>2 DEF openSession
  <2>2. d = [type |-> "LoginAnswer", to |-> c, success |-> TRUE, token |-> t]
    BY <2>1, OnlySent DEF answerLogin
  <2>3. online \in [Logins -> BOOLEAN] /\ unit_token \in [Logins -> Token]
    BY DEF IInv, Typed, ProxyTypeOK
  <2> QED
    BY <1>2, <2>1, <2>2, <2>3
<1>3. CASE /\ password'[l] = p
           /\ online[l]
           /\ answerLogin(c, TRUE, unit_token[l])
           /\ UNCHANGED <<online, unit_token>>
  <2>1. d = [type |-> "LoginAnswer", to |-> c, success |-> TRUE,
             token |-> unit_token[l]]
    BY <1>3, OnlySent DEF answerLogin
  <2> QED
    BY <1>3, <2>1
<1> QED
  BY <1>1, <1>2, <1>3 DEF onLogin

\* No other packet of a client has a login answered, and no other handler.
LEMMA NoOtherLoginAnswer ==
    ASSUME datagrams \subseteq Datagram,
           NEW d \in datagrams' \ datagrams,
           \/ \E c \in Clients, t \in Token :
                \/ onLogout(c, t)
                \/ \E position \in Positions : onInitializePosition(c, t, position)
                \/ onUnitAction(c, t)
           \/ InternalAnswer
           \/ ProxyRestart
           \/ NodeNext
           \/ BalancerStep
    PROVE  d.type # "LoginAnswer"
<1>1. ASSUME NEW c \in Clients, NEW t \in Token, onLogout(c, t)
      PROVE  d.type = "LogoutInternal"
  BY <1>1, OnlySent DEF onLogout
<1>2. ASSUME NEW c \in Clients, NEW t \in Token, NEW position \in Positions,
             onInitializePosition(c, t, position)
      PROVE  d.type \in {"InitializePositionInternal", "InitializePositionAnswer"}
  BY <1>2, OnlySent DEF onInitializePosition
<1>3. ASSUME NEW c \in Clients, NEW t \in Token, onUnitAction(c, t)
      PROVE  d.type = "UnitActionInternal"
  BY <1>3, OnlySent DEF onUnitAction
<1>4. ASSUME InternalAnswer
      PROVE  d.type \in {"LogoutAnswer", "InitializePositionAnswer",
                         "UnitActionAnswer"}
  BY <1>4, OnlySent DEF InternalAnswer, onLogoutInternalAnswer,
         onInitializePositionInternalAnswer, onUnitActionInternalAnswer
<1>5. ~ ProxyRestart
  BY DEF ProxyRestart, onQuit, Crash, CrashWhileSaving, Restart, SendNothing
<1>6. ASSUME NodeNext
      PROVE  d.type \in {"LogoutInternalAnswer", "UnitActionInternalAnswer",
                         "InitializePositionInternalAnswer"}
  BY <1>6, OnlySent DEF NodeNext, onLogoutInternal,
         onInitializePositionInternal, onUnitActionInternal
<1>7. ASSUME NEW m \in datagrams, relaySpawn(m)
      PROVE  d.type # "LoginAnswer"
  <2>1. m \in [type : {"InitializePositionInternal"}, to : EndPoint,
               token : Token, position : Positions, proxy_server : EndPoint]
    BY <1>7, SpawnFields DEF relaySpawn, Arriving
  <2>2. CASE m.position \in World
    <3> DEFINE relayed == [m EXCEPT !.to = Route[m.position],
                                    !.proxy_server = IF RelaysProxy
                                                     THEN @ ELSE Nowhere]
    <3>1. SendTo(relayed)
      BY <1>7, <2>2 DEF relaySpawn
    <3>2. relayed.type = "InitializePositionInternal"
      BY <2>1
    <3> HIDE DEF relayed
    <3>3. d = relayed
      BY <3>1, OnlySent
    <3> QED
      BY <3>2, <3>3
  <2>3. CASE m.position \notin World
    BY <1>7, <2>3, OnlySent DEF relaySpawn
  <2> QED
    BY <2>2, <2>3
<1> QED
  BY <1>1, <1>2, <1>3, <1>4, <1>5, <1>6, <1>7 DEF BalancerStep

\* Nobody is told a token who did not give the password of its user, whoever
\* else logs in, out or is answered at the same time (onLogin).
THEOREM TokensForPasswords == Spec => TokenOnlyForPassword
<1> DEFINE Earned ==
      \A m \in datagrams' \ datagrams :
          m.type = "LoginAnswer" /\ m.success =>
            \E l \in Logins :
                /\ <<m.to, l, password'[l]>> \in Credentials
                /\ online'[l]
                /\ unit_token'[l] = m.token
<1>1. IInv /\ [Next]_vars => [Earned]_vars
  <2> SUFFICES ASSUME IInv, [Next]_vars, NEW d \in datagrams' \ datagrams,
                      d.type = "LoginAnswer", d.success
               PROVE  \E l \in Logins :
                        /\ <<d.to, l, password'[l]>> \in Credentials
                        /\ online'[l]
                        /\ unit_token'[l] = d.token
    OBVIOUS
  <2>1. datagrams \subseteq Datagram
    BY DEF IInv, Typed
  <2>2. \A c \in Clients : toldTo(c) \subseteq Token
    BY <2>1, TokenOf DEF toldTo, Arriving
  <2>3. CASE \E c \in Clients, l \in Logins, p \in Passwords :
                <<c, l, p>> \in Credentials /\ onLogin(c, l, p)
    BY <2>3, LoginNeedsPassword
  <2>4. CASE ClientPacket
    BY <2>1, <2>2, <2>3, <2>4, NoOtherLoginAnswer DEF ClientPacket
  <2>5. CASE InternalAnswer \/ ProxyRestart \/ NodeNext \/ BalancerStep
    BY <2>1, <2>5, NoOtherLoginAnswer
  <2>6. CASE UNCHANGED vars
    BY <2>6 DEF vars
  <2> QED
    BY <2>4, <2>5, <2>6 DEF Next, ProxyNext
<1> QED
  BY <1>1, Inductive, PTL DEF Spec, TokenOnlyForPassword

-----------------------------------------------------------------------------

\* Who is in the file, and is read from it, has that password: a password is
\* set once, and a user behind an incomplete one is not read.
FileAgrees ==
    ~ shifted =>
        \A l \in Logins :
            /\ users_file[l] # NoPassword
            /\ \A k \in Incomplete : k <= l => users_file[k] = NoPassword
            => password[l] = users_file[l]

\* What is read of a file whose lines are in their places.
LEMMA ReadFile ==
    ASSUME NEW file, Restart(file), ~ shifted'
    PROVE  \A l \in Logins :
              password'[l] = IF \E k \in Incomplete : k <= l /\ file[k] # NoPassword
                             THEN NoPassword ELSE file[l]
BY DEF Restart, loadRegisteredUsers

LEMMA RestartAgrees ==
    ASSUME NEW file, Restart(file)
    PROVE  FileAgrees'
<1> SUFFICES ASSUME ~ shifted', NEW l \in Logins, users_file'[l] # NoPassword,
                    \A k \in Incomplete : k <= l => users_file'[k] = NoPassword
             PROVE  password'[l] = users_file'[l]
  BY DEF FileAgrees
<1>1. users_file' = file
  BY DEF Restart
<1> QED
  BY <1>1, ReadFile

LEMMA LoginAgrees ==
    ASSUME IInv, FileAgrees,
           NEW c \in Clients, NEW l \in Logins, NEW p \in Passwords, onLogin(c, l, p)
    PROVE  FileAgrees'
<1>1. \A k \in Logins : password[k] # NoPassword => password'[k] = password[k]
  BY DEF onLogin, registered, IInv, Typed, ProxyTypeOK
<1>2. UNCHANGED <<users_file, shifted>>
  BY DEF onLogin, fileVars
<1> QED
  BY <1>1, <1>2 DEF FileAgrees

\* Wherever the process dies, in the middle of saving or long after it, a start
\* finds no user who was not registered and no password but theirs, and a quit
\* loses nobody before the first who left a field empty; a file with a line
\* break in a field is what this does not hold of (saveRegisteredUsers,
\* loadRegisteredUsers, onQuit).
THEOREM RestartsKeepUsers == Spec => RestartKeepsUsers
<1> DEFINE Keeps ==
      ProxyRestart /\ ~ shifted' =>
        /\ \A l \in Logins : password'[l] \in {password[l], NoPassword}
        /\ onQuit =>
             \A l \in registered :
                (\A k \in registered : k <= l => k \notin Incomplete)
                  => password'[l] = password[l]
<1>1. Init => FileAgrees
  BY DEF Init, ProxyInit, FileAgrees
<1>2. IInv /\ FileAgrees /\ [Next]_vars => FileAgrees'
  <2> SUFFICES ASSUME IInv, FileAgrees, [Next]_vars PROVE FileAgrees'
    OBVIOUS
  <2>1. CASE UNCHANGED <<password, users_file, shifted>>
    BY <2>1 DEF FileAgrees
  <2>2. CASE ProxyRestart
    BY <2>2, RestartAgrees DEF ProxyRestart, onQuit, Crash, CrashWhileSaving
  <2>3. CASE ClientPacket
    BY <2>1, <2>3, LoginAgrees, ClientRequestTyped DEF ClientPacket, proxyVars
  <2>4. CASE InternalAnswer
    BY <2>1, <2>4 DEF InternalAnswer, onLogoutInternalAnswer, userVars, fileVars,
       onInitializePositionInternalAnswer, onUnitActionInternalAnswer, proxyVars
  <2> QED
    BY <2>1, <2>2, <2>3, <2>4 DEF Next, ProxyNext, vars, proxyVars
<1>3. IInv /\ FileAgrees /\ [Next]_vars => [Keeps]_vars
  <2> SUFFICES ASSUME FileAgrees, ProxyRestart, ~ shifted' PROVE Keeps
    OBVIOUS
  <2>1. ~ shifted
    BY DEF ProxyRestart, onQuit, Crash, CrashWhileSaving, Restart, readShifted
  <2>2. CASE onQuit
    <3>1. \A l \in Logins :
             password'[l] = IF \E k \in Incomplete : k <= l /\ password[k] # NoPassword
                            THEN NoPassword ELSE password[l]
      BY <2>2, ReadFile DEF onQuit
    <3> QED
      BY <3>1, LoginsAssumption DEF registered
  <2>3. ASSUME ~ onQuit, NEW l \in Logins
        PROVE  password'[l] \in {password[l], NoPassword}
    <3>1. CASE Crash
      <4>1. password'[l] = IF \E k \in Incomplete : k <= l /\ users_file[k] # NoPassword
                           THEN NoPassword ELSE users_file[l]
        BY <3>1, ReadFile DEF Crash
      <4> QED
        BY <2>1, <4>1 DEF FileAgrees
    <3>2. ASSUME NEW n \in Logins, CrashWhileSaving(n)
          PROVE  password'[l] \in {password[l], NoPassword}
      <4> DEFINE file == [k \in Logins |-> IF k < n \/ (k = n /\ n \in Broken)
                                           THEN password[k] ELSE NoPassword]
      <4>1. Restart(file)
        BY <3>2 DEF CrashWhileSaving
      <4>2. file[l] \in {password[l], NoPassword}
        OBVIOUS
      <4> HIDE DEF file
      <4> QED
        BY <4>1, <4>2, ReadFile
    <3> QED
      BY <2>3, <3>1, <3>2 DEF ProxyRestart
  <2> QED
    BY <2>2, <2>3
<1> QED
  BY <1>1, <1>2, <1>3, Inductive, PTL DEF Spec, RestartKeepsUsers
-----------------------------------------------------------------------------
\* A sequence with one more place, and with one less.
LEMMA OneMore ==
    ASSUME NEW S, NEW s \in Seq(S), NEW e \in S
    PROVE  LET t == Append(s, e)
           IN
           /\ Len(s) \in Nat /\ DOMAIN s = 1 .. Len(s)
           /\ t \in Seq(S) /\ Len(t) = Len(s) + 1 /\ DOMAIN t = 1 .. Len(s) + 1
           /\ \A k \in 1 .. Len(s) : t[k] = s[k]
           /\ t[Len(s) + 1] = e
<1> DEFINE t == Append(s, e)
<1>1. /\ t \in Seq(S) /\ Len(t) = Len(s) + 1
      /\ \A k \in 1 .. Len(s) : t[k] = s[k]
      /\ t[Len(s) + 1] = e
  BY AppendProperties
<1>2. /\ Len(s) \in Nat /\ DOMAIN s = 1 .. Len(s) /\ DOMAIN t = 1 .. Len(t)
  BY <1>1, LenProperties
<1> QED
  BY <1>1, <1>2

LEMMA OneLess ==
    ASSUME NEW S, NEW s \in Seq(S), NEW n \in 1 .. Len(s)
    PROVE  LET t == RemoveAt(s, n)
           IN
           /\ Len(s) \in Nat /\ DOMAIN s = 1 .. Len(s)
           /\ t \in Seq(S) /\ Len(t) = Len(s) - 1 /\ DOMAIN t = 1 .. Len(s) - 1
           /\ \A k \in 1 .. Len(s) - 1 : t[k] = IF k < n THEN s[k] ELSE s[k + 1]
<1> DEFINE t == RemoveAt(s, n)
           a == SubSeq(s, 1, n - 1)
           b == SubSeq(s, n + 1, Len(s))
<1>1. Len(s) \in Nat /\ n \in Nat /\ n \in 1 .. Len(s) /\ DOMAIN s = 1 .. Len(s)
      /\ \A k \in 1 .. Len(s) : s[k] \in S
  BY LenProperties, ElementOfSeq
<1>2. /\ a \in Seq(S)
      /\ Len(a) = n - 1
      /\ \A k \in 1 .. n - 1 : a[k] = s[k]
  BY <1>1, SubSeqProperties
<1>3. /\ b \in Seq(S)
      /\ Len(b) = Len(s) - n
      /\ \A k \in 1 .. Len(s) - n : b[k] = s[n + k]
  <2> DEFINE lb == Len(b)
             ls == Len(s)
  <2>1. n + 1 \in Int /\ Len(s) \in Int /\ \A k \in n + 1 .. Len(s) : s[k] \in S
    BY <1>1
  <2>2. /\ b \in Seq(S)
        /\ Len(b) = IF n + 1 <= Len(s) THEN Len(s) - (n + 1) + 1 ELSE 0
        /\ \A k \in 1 .. Len(s) - (n + 1) + 1 : b[k] = s[n + 1 + k - 1]
    BY <2>1, SubSeqProperties
  <2>3. /\ lb = IF n + 1 <= ls THEN ls - (n + 1) + 1 ELSE 0
        /\ ls \in Nat /\ n \in 1 .. ls
    BY <1>1, <2>2, Zenon
  <2> HIDE DEF lb, ls
  <2>4. lb = ls - n
    BY <2>3
  <2>5. ASSUME NEW k \in 1 .. Len(s) - n PROVE b[k] = s[n + k]
    <3>1. k \in 1 .. Len(s) - (n + 1) + 1 /\ n + 1 + k - 1 = n + k
      BY <1>1
    <3>2. b[k] = s[n + 1 + k - 1]
      BY <2>2, <3>1, Zenon
    <3> QED
      BY <3>1, <3>2
  <2> QED
    BY <2>2, <2>4, <2>5, Zenon DEF lb, ls
<1>4. t = a \o b
  BY DEF RemoveAt
<1> HIDE DEF a, b, t
<1>5. /\ t \in Seq(S) /\ Len(t) = Len(a) + Len(b)
      /\ \A k \in 1 .. Len(a) + Len(b) :
            t[k] = IF k <= Len(a) THEN a[k] ELSE b[k - Len(a)]
  <2>1. a \in Seq(S) /\ b \in Seq(S)
    BY <1>2, <1>3
  <2>2. /\ a \o b \in Seq(S)
        /\ Len(a \o b) = Len(a) + Len(b)
        /\ \A k \in 1 .. Len(a) + Len(b) :
              (a \o b)[k] = IF k <= Len(a) THEN a[k] ELSE b[k - Len(a)]
    BY <2>1, ConcatProperties, Zenon
  <2> QED
    BY <1>4, <2>2, Zenon
<1>6. Len(t) = Len(s) - 1
  BY <1>1, <1>2, <1>3, <1>5
<1>7. DOMAIN t = 1 .. Len(s) - 1
  BY <1>5, <1>6, LenProperties, Zenon
<1>8. ASSUME NEW k \in 1 .. Len(s) - 1
      PROVE  t[k] = IF k < n THEN s[k] ELSE s[k + 1]
  <2>1. k \in Nat /\ k \in 1 .. Len(a) + Len(b)
    BY <1>1, <1>2, <1>3
  <2>2. CASE k < n
    BY <1>1, <1>2, <1>5, <2>1, <2>2
  <2>3. CASE ~(k < n)
    <3>1. t[k] = b[k - (n - 1)] /\ k - (n - 1) \in 1 .. Len(s) - n
      BY <1>1, <1>2, <1>3, <1>5, <2>1, <2>3
    <3>2. t[k] = s[n + (k - (n - 1))] /\ n + (k - (n - 1)) = k + 1
      BY <1>1, <1>3, <2>1, <3>1
    <3> QED
      BY <2>3, <3>2
  <2> QED
    BY <2>2, <2>3
<1> QED
  BY <1>1, <1>5, <1>6, <1>7, <1>8 DEF t

UnitsInv == NodeTypeOK /\ OneUnitPerToken

\* A unit that is spawned was not there before.
LEMMA SpawnKeepsUnits ==
    ASSUME UnitsInv, NEW n \in Nodes, NEW m \in datagrams, m.token \in Token,
           onInitializePositionInternal(n, m)
    PROVE  UnitsInv'
<1> DEFINE l == unit_list[n]
<1>1. l \in Seq(Token) /\ unit_count[n] = Len(l) /\ IsInjective(l)
      /\ unit_list \in [Nodes -> Seq(Token)] /\ unit_count \in [Nodes -> Nat]
  BY DEF UnitsInv, NodeTypeOK, OneUnitPerToken
<1>2. CASE UNCHANGED nodeVars
  BY <1>2 DEF UnitsInv, NodeTypeOK, OneUnitPerToken, nodeVars
<1>3. CASE ~ UNCHANGED nodeVars
  <2> DEFINE t == Append(l, m.token)
  <2>1. /\ unit_list' = [unit_list EXCEPT ![n] = t]
        /\ unit_count' = [unit_count EXCEPT ![n] = @ + 1]
        /\ m.token \notin ToSet(l)
    BY <1>3 DEF onInitializePositionInternal, unitsOf
  <2>2. /\ Len(l) \in Nat /\ DOMAIN l = 1 .. Len(l)
        /\ t \in Seq(Token) /\ Len(t) = Len(l) + 1 /\ DOMAIN t = 1 .. Len(l) + 1
        /\ \A k \in 1 .. Len(l) : t[k] = l[k]
        /\ t[Len(l) + 1] = m.token
    BY <1>1, OneMore
  <2> HIDE DEF t, l
  <2>3. \A k \in DOMAIN t : k \in DOMAIN l \/ k = Len(l) + 1
    BY <2>2
  <2>4. \A j, k \in DOMAIN l : l[j] = l[k] => j = k
    BY <1>1 DEF IsInjective
  <2>5. \A k \in DOMAIN l : l[k] # m.token
    BY <2>1 DEF ToSet
  <2>6. IsInjective(t)
    BY <2>2, <2>3, <2>4, <2>5 DEF IsInjective
  <2>7. /\ unit_list' \in [Nodes -> Seq(Token)] /\ unit_count' \in [Nodes -> Nat]
        /\ unit_list'[n] = t /\ unit_count'[n] = Len(t)
        /\ \A k \in Nodes \ {n} : /\ unit_list'[k] = unit_list[k]
                                  /\ unit_count'[k] = unit_count[k]
    BY <1>1, <2>1, <2>2
  <2> QED
    BY <2>6, <2>7 DEF UnitsInv, NodeTypeOK, OneUnitPerToken
<1> QED
  BY <1>2, <1>3

\* The unit of a token that logs out leaves no other behind.
LEMMA LogoutKeepsUnits ==
    ASSUME UnitsInv, NEW n \in Nodes, NEW m \in datagrams, onLogoutInternal(n, m)
    PROVE  UnitsInv'
<1> DEFINE l == unit_list[n]
<1>1. l \in Seq(Token) /\ unit_count[n] = Len(l) /\ IsInjective(l)
      /\ unit_list \in [Nodes -> Seq(Token)] /\ unit_count \in [Nodes -> Nat]
  BY DEF UnitsInv, NodeTypeOK, OneUnitPerToken
<1>2. CASE m.token \notin ToSet(l)
  BY <1>2 DEF onLogoutInternal, UnitsInv, NodeTypeOK, OneUnitPerToken, nodeVars, unitsOf
<1>3. CASE m.token \in ToSet(l)
  <2> DEFINE p == placeOf(n, m.token)
             t == RemoveAt(l, p)
  <2>1. /\ unit_list' = [unit_list EXCEPT ![n] = t]
        /\ unit_count' = [unit_count EXCEPT ![n] = @ - 1]
    BY <1>3 DEF onLogoutInternal, unitsOf
  <2>2. p \in 1 .. Len(l)
    <3>1. p \in DOMAIN l
      BY <1>3 DEF placeOf, ToSet
    <3> QED
      BY <1>1, <3>1, LenProperties
  <2> HIDE DEF p
  <2>3. /\ Len(l) \in Nat /\ DOMAIN l = 1 .. Len(l)
        /\ t \in Seq(Token) /\ Len(t) = Len(l) - 1 /\ DOMAIN t = 1 .. Len(l) - 1
        /\ \A k \in 1 .. Len(l) - 1 : t[k] = IF k < p THEN l[k] ELSE l[k + 1]
    BY <1>1, <2>2, OneLess
  <2> HIDE DEF t, l
  <2>4. \A j, k \in DOMAIN l : l[j] = l[k] => j = k
    BY <1>1 DEF IsInjective
  <2>5. \A k \in DOMAIN t : k \in DOMAIN l /\ k + 1 \in DOMAIN l /\ k \in Int
    BY <2>3
  <2>6. IsInjective(t)
    <3> SUFFICES ASSUME NEW j \in DOMAIN t, NEW k \in DOMAIN t, t[j] = t[k]
                 PROVE  j = k
      BY DEF IsInjective
    <3> DEFINE was(i) == IF i < p THEN i ELSE i + 1
    <3>1. \A i \in DOMAIN t : t[i] = l[was(i)] /\ was(i) \in DOMAIN l
      BY <2>3, <2>5
    <3>2. was(j) = was(k)
      BY <2>4, <3>1
    <3> QED
      BY <2>2, <2>3, <2>5, <3>2
  <2>7. /\ unit_list' \in [Nodes -> Seq(Token)] /\ unit_count' \in [Nodes -> Nat]
        /\ unit_list'[n] = t /\ unit_count'[n] = Len(t)
        /\ \A k \in Nodes \ {n} : /\ unit_list'[k] = unit_list[k]
                                  /\ unit_count'[k] = unit_count[k]
    <3>1. Len(l) - 1 \in Nat
      BY <2>2, <2>3
    <3> QED
      BY <1>1, <2>1, <2>3, <3>1
  <2> QED
    BY <2>6, <2>7 DEF UnitsInv, NodeTypeOK, OneUnitPerToken
<1> QED
  BY <1>2, <1>3

LEMMA NodeKeepsUnits ==
    ASSUME Typed, UnitsInv, NodeNext
    PROVE  UnitsInv'
<1>1. PICK n \in Nodes, m \in datagrams :
         \/ onLogoutInternal(n, m)
         \/ onInitializePositionInternal(n, m)
         \/ onUnitActionInternal(n, m)
  BY DEF NodeNext
<1>2. CASE onUnitActionInternal(n, m)
  BY <1>2 DEF onUnitActionInternal, UnitsInv, NodeTypeOK, OneUnitPerToken, nodeVars
<1>3. CASE onInitializePositionInternal(n, m)
  <2>1. m.token \in Token
    BY <1>3, SpawnFields DEF Typed, onInitializePositionInternal, Arriving
  <2> QED
    BY <1>3, <2>1, SpawnKeepsUnits
<1> QED
  BY <1>1, <1>2, <1>3, LogoutKeepsUnits

LEMMA UnitsStart == Init => UnitsInv
<1> SUFFICES ASSUME Init PROVE UnitsInv
  OBVIOUS
<1>1. << >> \in Seq(Token) /\ Len(<< >>) = 0 /\ IsInjective(<< >>)
  BY EmptySeq DEF IsInjective
<1> QED
  BY <1>1 DEF Init, NodeInit, UnitsInv, NodeTypeOK, OneUnitPerToken

\* A spawn request that comes twice, or late, never gives a token a second
\* unit on a node server, and unit_count, which two handlers keep by hand, is
\* their number (onInitializePositionInternal, onLogoutInternal).
THEOREM UnitsUnique == Spec => []OneUnitPerToken
<1>2. IInv /\ UnitsInv /\ [Next]_vars => UnitsInv'
  <2> SUFFICES ASSUME IInv, UnitsInv, [Next]_vars PROVE UnitsInv'
    OBVIOUS
  <2>1. CASE UNCHANGED nodeVars
    BY <2>1 DEF UnitsInv, NodeTypeOK, OneUnitPerToken, nodeVars
  <2>2. CASE NodeNext
    BY <2>2, NodeKeepsUnits DEF IInv
  <2> QED
    BY <2>1, <2>2 DEF Next, vars
<1>3. UnitsInv => OneUnitPerToken
  BY DEF UnitsInv
<1> QED
  BY UnitsStart, <1>2, <1>3, Inductive, PTL DEF Spec

-----------------------------------------------------------------------------
\* The clients of GameClient.  The proxy has a session enter the game whatever
\* the node server answered, so that players only play if a unit can be where
\* the clients ask for it: the position is in the world, and the node server
\* to which the balancer routes it takes it.
start_node == Route[StartPosition]

StartServed ==
    /\ StartPosition \in World
    /\ start_node \in Nodes
    /\ StartPosition \in Zone[start_node]

NobodyLeaves == \A c \in Clients : ~ exiting[c]

\* The session of token t is in the game, and client c plays it.
PlaysFor(c, t) ==
    /\ find(t)
    /\ token_to_unit_info[t].user_end_point = c
    /\ token_to_unit_info[t].in_game

PlayTypeOK ==
    /\ sent \in [Clients -> SUBSET [type : {"Login", "InitializePosition",
                                            "UnitAction", "Logout"}, token : Token]]
    /\ g_user_token \in [Clients -> Token]
    /\ main_state \in [Clients -> {"Started", "LoggingIn", "InitializingPosition",
                                   "Gaming", "LoggingOut", "LogoutOk",
                                   "LoginFailure", "InitializePositionFailure",
                                   "LogoutFailure"}]
    /\ exiting \in [Clients -> BOOLEAN]
    /\ pending \in [Clients -> SUBSET Guaranteed]

\* Who asks to be logged out is exiting; who plays is not.
LeaversExit ==
    /\ \A c \in Clients : \A r \in sent[c] : r.type = "Logout" => exiting[c]
    /\ \A c \in Clients : main_state[c] = "Gaming" => ~ exiting[c]

\* All sessions are of the one user, so that there is one at most.
OneUser ==
    \A t \in DOMAIN token_to_unit_info : token_to_unit_info[t].user_info = GameTester

\* Every spawn request is for the one position, and goes to its node server.
SpawnsThere(m) ==
    m.type = "InitializePositionInternal" =>
        /\ m.position = StartPosition
        /\ m.to \in {Balancer, start_node}
        /\ m.proxy_server \in {AnyAddress(Proxy), Nowhere}

\* A unit on the node server of the start is what every answer is about.
HasUnit(t) == t \in unitsOf(start_node)

\* What a datagram tells is so, as long as nobody leaves.
TellsTruth(m) ==
    /\ m.type \notin {"LogoutInternal", "LogoutInternalAnswer"}
    /\ m.type = "LoginAnswer" /\ m.success => find(m.token)
    /\ m.type = "InitializePositionInternalAnswer" =>
         /\ m.node_server = AnyAddress(start_node) /\ HasUnit(m.token)
         /\ m.to \in {AnyAddress(Proxy), Nowhere}
    /\ m.type = "InitializePositionAnswer" /\ m.success => PlaysFor(m.to, m.token)

\* An answer can only have come to the proxy at 0.0.0.0: so can the datagrams
\* for the node server.
GamesServed ==
    \A t \in DOMAIN token_to_unit_info :
        token_to_unit_info[t].in_game =>
            /\ token_to_unit_info[t].node_server_end_point = AnyAddress(start_node)
            /\ OneHost
            /\ HasUnit(t)

Playing ==
    \A c \in Clients :
        /\ main_state[c] \in {"InitializingPosition", "Gaming"} => find(g_user_token[c])
        /\ main_state[c] = "Gaming" => PlaysFor(c, g_user_token[c])

PlayInv ==
    /\ IInv /\ UnitsInv /\ PlayTypeOK /\ LeaversExit /\ OneUser
    /\ \A m \in datagrams : SpawnsThere(m)
    /\ NobodyLeaves => (\A m \in datagrams : TellsTruth(m)) /\ GamesServed /\ Playing

\* An answer of the connection's own: what it enters is a state, what it sends
\* a request.
LEMMA ClientTyped ==
    ASSUME PlayTypeOK, IInv, NEW c \in Clients, ClientStep(c), UNCHANGED vars
    PROVE  PlayTypeOK'
<1> USE DEF PlayTypeOK
<1>1. CASE start(c)
  BY <1>1 DEF start, Enter, Ask, Send, Guaranteed, Token
<1>2. CASE onLoginAnswer(c)
  <2>1. PICK m \in Arriving(c, "LoginAnswer") :
           \/ UNCHANGED <<main_state, g_user_token, sent>> /\ Delivered(c, "Login")
           \/ /\ g_user_token' = [g_user_token EXCEPT ![c] = m.token]
              /\ Enter(c, "InitializingPosition")
              /\ Send(c, "InitializePosition", m.token)
              /\ pending' = [pending EXCEPT ![c] =
                                (@ \ {"Login"}) \cup {"InitializePosition"}]
    BY <1>2 DEF onLoginAnswer, EndsReceiving
  <2>2. m.token \in Token
    BY TokenOf DEF Arriving, IInv, Typed
  <2>3. exiting' = exiting
    BY <1>2 DEF onLoginAnswer
  <2> QED
    BY <2>1, <2>2, <2>3 DEF Enter, Send, Delivered, Guaranteed
<1>3. CASE onInitializePositionAnswer(c)
  BY <1>3 DEF onInitializePositionAnswer, EndsReceiving, Delivered, Enter
<1>4. CASE onUserActionAnswer(c) \/ onLogoutAnswer(c)
  BY <1>4 DEF onUserActionAnswer, onLogoutAnswer, EndsReceiving, Delivered
<1>5. CASE GivesUp(c)
  BY <1>5 DEF GivesUp, Enter, Delivered, FailureOf, Guaranteed
<1>6. CASE doLogout(c) \/ doEvent(c) \/ UserAsksToLeave(c)
  BY <1>6 DEF doLogout, doEvent, UserAsksToLeave
<1>7. CASE Posted(c) \/ onTimer(c)
  <2>1. /\ g_user_token' = g_user_token
        /\ \/ UNCHANGED <<main_state, exiting, sent, pending>>
           \/ LogsOut(c) \/ Acts(c)
    BY <1>7 DEF Posted, onTimer
  <2>2. \A type \in {"Logout", "UnitAction"} :
           Send(c, type, g_user_token[c]) =>
             sent' \in [Clients -> SUBSET [type : {"Login", "InitializePosition",
                                                  "UnitAction", "Logout"}, token : Token]]
    BY DEF Send
  <2>3. CASE LogsOut(c)
    BY <2>1, <2>2, <2>3 DEF LogsOut, Enter, Ask, Guaranteed
  <2>4. CASE Acts(c)
    BY <2>1, <2>2, <2>4 DEF Acts
  <2> QED
    BY <2>1, <2>3, <2>4
<1> QED
  BY <1>1, <1>2, <1>3, <1>4, <1>5, <1>6, <1>7 DEF ClientStep

\* Who sends a request to be logged out exits, and nobody comes back.
LEMMA ClientExits ==
    ASSUME PlayTypeOK, LeaversExit, NEW c \in Clients, ClientStep(c)
    PROVE  /\ LeaversExit'
           /\ NobodyLeaves' => NobodyLeaves
<1> USE DEF PlayTypeOK, LeaversExit, NobodyLeaves
<1>1. CASE start(c)
  BY <1>1 DEF start, Enter, Ask, Send
<1>2. CASE onLoginAnswer(c)
  BY <1>2 DEF onLoginAnswer, Enter, Send, EndsReceiving
<1>3. CASE onInitializePositionAnswer(c)
  BY <1>3 DEF onInitializePositionAnswer, EndsReceiving, Enter
<1>4. CASE onUserActionAnswer(c) \/ onLogoutAnswer(c)
  BY <1>4 DEF onUserActionAnswer, onLogoutAnswer, EndsReceiving
<1>5. CASE GivesUp(c)
  <2>1. \A type : FailureOf(type) # "Gaming" \/ type \notin Guaranteed
    BY DEF FailureOf, Guaranteed
  <2> QED
    BY <1>5, <2>1 DEF GivesUp, Enter
<1>6. CASE doLogout(c) \/ doEvent(c) \/ UserAsksToLeave(c)
  BY <1>6 DEF doLogout, doEvent, UserAsksToLeave
<1>7. CASE Posted(c) \/ onTimer(c)
  BY <1>7 DEF Posted, onTimer, LogsOut, Acts, Enter, Ask, Send
<1> QED
  BY <1>1, <1>2, <1>3, <1>4, <1>5, <1>6, <1>7 DEF ClientStep

\* The one user has one session: who has a token of a session has its token.
LEMMA OneToken ==
    ASSUME IInv, OneUser, NEW t, NEW u, find(t), find(u)
    PROVE  t = u
BY DEF IInv, SessionsMatchUsers, OneUser, find

\* A client starts to play when it is told that its session does, and asks to
\* play with a token that it was told.
LEMMA ClientPlaying ==
    ASSUME PlayInv, NobodyLeaves, NEW c \in Clients, ClientStep(c), UNCHANGED vars
    PROVE  Playing'
<1>0. PlayTypeOK /\ Playing /\ \A m \in datagrams : TellsTruth(m)
  BY DEF PlayInv
<1>1. \A d \in Clients : \A t : PlaysFor(d, t)' <=> PlaysFor(d, t)
  BY DEF PlaysFor, vars, proxyVars, find
<1>2. \A t : find(t)' <=> find(t)
  BY DEF vars, proxyVars, find
<1> USE DEF PlayTypeOK, Playing
<1>3. CASE start(c)
  BY <1>0, <1>1, <1>2, <1>3 DEF start, Enter
<1>4. CASE onLoginAnswer(c)
  <2>1. PICK m \in Arriving(c, "LoginAnswer") :
           \/ UNCHANGED <<main_state, g_user_token>>
           \/ /\ m.success
              /\ g_user_token' = [g_user_token EXCEPT ![c] = m.token]
              /\ Enter(c, "InitializingPosition")
    BY <1>4 DEF onLoginAnswer, EndsReceiving
  <2>2. m.success => find(m.token)
    BY <1>0 DEF TellsTruth, Arriving
  <2> QED
    BY <1>0, <1>1, <1>2, <2>1, <2>2 DEF Enter
<1>5. CASE onInitializePositionAnswer(c)
  <2>1. PICK m \in Arriving(c, "InitializePositionAnswer") :
           \/ UNCHANGED main_state
           \/ /\ main_state[c] = "InitializingPosition" /\ m.success
              /\ Enter(c, "Gaming")
    BY <1>5 DEF onInitializePositionAnswer, EndsReceiving
  <2>2. g_user_token' = g_user_token
    BY <1>5 DEF onInitializePositionAnswer, EndsReceiving
  <2>3. m.success => PlaysFor(c, m.token)
    BY <1>0, ReachesClient DEF TellsTruth, Arriving
  <2>4. m.success /\ main_state[c] = "InitializingPosition"
          => PlaysFor(c, g_user_token[c])
    BY <1>0, <2>3, OneToken DEF PlayInv, PlaysFor
  <2> QED
    BY <1>0, <1>1, <1>2, <2>1, <2>2, <2>4 DEF Enter, PlaysFor
<1>6. CASE onUserActionAnswer(c) \/ onLogoutAnswer(c)
  BY <1>0, <1>1, <1>2, <1>6 DEF onUserActionAnswer, onLogoutAnswer, EndsReceiving
<1>7. CASE GivesUp(c)
  <2>1. \A type \in Guaranteed : FailureOf(type) \notin {"Gaming", "InitializingPosition"}
    BY DEF FailureOf, Guaranteed
  <2> QED
    BY <1>0, <1>1, <1>2, <1>7, <2>1 DEF GivesUp, Enter
<1>8. CASE doLogout(c) \/ doEvent(c) \/ UserAsksToLeave(c)
  BY <1>0, <1>1, <1>2, <1>8 DEF doLogout, doEvent, UserAsksToLeave
<1>9. CASE Posted(c) \/ onTimer(c)
  BY <1>0, <1>1, <1>2, <1>9 DEF Posted, onTimer, LogsOut, Acts, Enter
<1> QED
  BY <1>3, <1>4, <1>5, <1>6, <1>7, <1>8, <1>9 DEF ClientStep

LEMMA ClientKeeps ==
    ASSUME PlayInv, NEW c \in Clients, ClientStep(c), UNCHANGED vars
    PROVE  PlayInv'
<1>1. IInv'
  BY ProxyUnchanged DEF PlayInv, vars, IInv, Typed
<1>2. UnitsInv'
  BY DEF PlayInv, UnitsInv, NodeTypeOK, OneUnitPerToken, vars, nodeVars
<1>3. PlayTypeOK' /\ LeaversExit'
  BY ClientTyped, ClientExits DEF PlayInv
<1>4. OneUser' /\ \A m \in datagrams' : SpawnsThere(m)'
  BY DEF PlayInv, OneUser, SpawnsThere, vars, proxyVars
<1>5. ASSUME NobodyLeaves'
      PROVE  (\A m \in datagrams' : TellsTruth(m)') /\ GamesServed' /\ Playing'
  <2>1. NobodyLeaves
    BY <1>5, ClientExits DEF PlayInv
  <2>2. Playing'
    BY <2>1, ClientPlaying
  <2>3. (\A m \in datagrams' : TellsTruth(m)') /\ GamesServed'
    BY <2>1 DEF PlayInv, TellsTruth, GamesServed, HasUnit, PlaysFor, find, unitsOf,
       vars, proxyVars, nodeVars
  <2> QED
    BY <2>2, <2>3
<1> QED
  BY <1>1, <1>2, <1>3, <1>4, <1>5 DEF PlayInv

-----------------------------------------------------------------------------
\* What the servers do while nobody leaves: sessions and units stay, sessions
\* keep their client, and who is in the game stays where it is.
Grows ==
    /\ \A t \in DOMAIN token_to_unit_info :
          /\ t \in DOMAIN token_to_unit_info'
          /\ token_to_unit_info'[t].user_end_point = token_to_unit_info[t].user_end_point
          /\ token_to_unit_info[t].in_game => token_to_unit_info'[t] = token_to_unit_info[t]
    /\ \A n \in Nodes : unitsOf(n) \subseteq unitsOf(n)'

\* A session that enters the game does it on the node server of the start.
EntersThere ==
    \A t \in DOMAIN token_to_unit_info' : token_to_unit_info'[t].in_game =>
        \/ t \in DOMAIN token_to_unit_info /\ token_to_unit_info[t].in_game
        \/ /\ token_to_unit_info'[t].node_server_end_point = AnyAddress(start_node)
           /\ OneHost
           /\ HasUnit(t)

LEMMA GrowthKeeps ==
    ASSUME PlayInv, NobodyLeaves, StartServed, UNCHANGED clientVars, Grows, EntersThere,
           \A d \in datagrams' \ datagrams : TellsTruth(d)'
    PROVE  (\A m \in datagrams' : TellsTruth(m)') /\ GamesServed' /\ Playing'
<1>1. (\A m \in datagrams : TellsTruth(m)) /\ GamesServed /\ Playing
  BY DEF PlayInv
<1>2. \A t : find(t) => find(t)'
  BY DEF Grows, find
<1>3. \A c, t : PlaysFor(c, t) => PlaysFor(c, t)'
  BY DEF Grows, PlaysFor, find
<1>4. \A t : HasUnit(t) => HasUnit(t)'
  BY DEF Grows, HasUnit, StartServed
<1>5. \A m \in datagrams : TellsTruth(m)'
  BY <1>1, <1>2, <1>3, <1>4 DEF TellsTruth
<1>6. \A m \in datagrams' : TellsTruth(m)'
  BY <1>5
<1>7. GamesServed'
  BY <1>1, <1>4 DEF GamesServed, EntersThere, Grows
<1>8. Playing'
  BY <1>1, <1>2, <1>3 DEF Playing, clientVars
<1> QED
  BY <1>6, <1>7, <1>8

\* Nothing that the servers hold changes but the datagrams.
LEMMA SameGrows ==
    ASSUME UNCHANGED token_to_unit_info, UNCHANGED nodeVars
    PROVE  Grows /\ EntersThere
BY DEF Grows, EntersThere, unitsOf, nodeVars

\* What is not about sessions, units and what is told stays as it is.
LEMMA OthersKeep ==
    ASSUME PlayInv, UNCHANGED clientVars, IInv', UnitsInv', OneUser',
           \A d \in datagrams' \ datagrams : SpawnsThere(d)',
           NobodyLeaves' => (\A m \in datagrams' : TellsTruth(m)')
                            /\ GamesServed' /\ Playing'
    PROVE  PlayInv'
<1>1. PlayTypeOK' /\ LeaversExit'
  BY DEF PlayInv, PlayTypeOK, LeaversExit, clientVars
<1>2. \A m \in datagrams' : SpawnsThere(m)'
  BY DEF PlayInv, SpawnsThere
<1> QED
  BY <1>1, <1>2 DEF PlayInv

\* The proxy's handler of a request.
LEMMA RequestServed ==
    ASSUME PlayInv, StartServed, NEW c \in Clients, NEW r \in sent[c], ProxyHandles(c, r),
           UNCHANGED <<nodeVars, clientVars>>
    PROVE  PlayInv'
<1>1. GameTester \in Logins /\ TesterPassword \in Passwords /\ StartPosition \in Positions
  BY ClientAssumption
<1>1a. UnitsInv' /\ UNCHANGED clientVars /\ (NobodyLeaves' => NobodyLeaves)
  BY DEF PlayInv, UnitsInv, NodeTypeOK, OneUnitPerToken, nodeVars, clientVars, NobodyLeaves
<1>2. CASE onLogin(c, GameTester, TesterPassword)
  <2>1. IInv'
    BY <1>1, <1>2, LoginKeeps DEF PlayInv
  <2>2. \A d \in datagrams' \ datagrams :
           d.type = "LoginAnswer" /\ (d.success => d.token \in DOMAIN token_to_unit_info')
    <3>1. CASE openSession(GameTester, c)
      <4>1. PICK t \in 0 .. frontier :
              /\ t \in DOMAIN token_to_unit_info'
              /\ answerLogin(c, TRUE, t)
        BY <3>1 DEF openSession
      <4> QED
        BY <4>1, OnlySent DEF answerLogin
    <3>2. CASE answerLogin(c, FALSE, 0)
      BY <3>2, OnlySent DEF answerLogin
    <3>3. CASE /\ online[GameTester] /\ answerLogin(c, TRUE, unit_token[GameTester])
               /\ UNCHANGED token_to_unit_info
      <4>1. find(unit_token[GameTester])
        BY <1>1, <3>3 DEF PlayInv, IInv, SessionsMatchUsers
      <4> QED
        BY <3>3, <4>1, OnlySent DEF answerLogin, find
    <3> QED
      BY <1>2, <3>1, <3>2, <3>3 DEF onLogin
  <2>3. /\ OneUser' /\ Grows /\ EntersThere
    <3>1. CASE openSession(GameTester, c)
      <4>1. PICK t \in 0 .. frontier :
              /\ Tokens!Give(t)
              /\ token_to_unit_info' =
                   [v \in DOMAIN token_to_unit_info \union {t} |->
                      IF v = t
                      THEN [user_info |-> GameTester, in_game |-> FALSE,
                            node_server_end_point |-> Nowhere, user_end_point |-> c]
                      ELSE token_to_unit_info[v]]
        BY <3>1 DEF openSession
      <4>2. t \notin DOMAIN token_to_unit_info
        BY <4>1, GiveFresh DEF PlayInv, IInv, Typed
      <4> QED
        BY <4>1, <4>2
        DEF PlayInv, OneUser, Grows, EntersThere, unitsOf, nodeVars
    <3>2. CASE UNCHANGED token_to_unit_info
      BY <3>2, SameGrows DEF PlayInv, OneUser
    <3> QED
      BY <1>2, <3>1, <3>2 DEF onLogin
  <2>4. \A d \in datagrams' \ datagrams : SpawnsThere(d)' /\ TellsTruth(d)'
    BY <2>2 DEF SpawnsThere, TellsTruth, find
  <2> QED
    BY <1>1a, <2>1, <2>3, <2>4, GrowthKeeps, OthersKeep
<1>3. CASE onLogout(c, r.token) /\ r.type = "Logout"
  <2>1. IInv' /\ UNCHANGED proxyVars
    BY <1>3, ClientRequestTyped, ProxyUnchanged DEF PlayInv
  <2>2. ~ NobodyLeaves
    BY <1>3 DEF PlayInv, LeaversExit, NobodyLeaves
  <2>3. OneUser' /\ ~ NobodyLeaves'
    BY <2>1, <2>2 DEF PlayInv, OneUser, proxyVars, clientVars, NobodyLeaves
  <2>4. \A d \in datagrams' \ datagrams : SpawnsThere(d)'
    BY <1>3, OnlySent DEF onLogout, SpawnsThere
  <2> QED
    BY <1>1a, <2>1, <2>3, <2>4, OthersKeep
<1>4. CASE onInitializePosition(c, r.token, StartPosition) \/ onUnitAction(c, r.token)
  <2>1. IInv' /\ UNCHANGED proxyVars
    BY <1>1, <1>4, ClientRequestTyped, ProxyUnchanged DEF PlayInv
  <2>2. OneUser' /\ Grows /\ EntersThere
    BY <2>1, SameGrows DEF PlayInv, OneUser, proxyVars
  <2>3. ASSUME NEW d \in datagrams' \ datagrams
        PROVE  SpawnsThere(d)' /\ TellsTruth(d)'
    <3>1. CASE onUnitAction(c, r.token)
      BY <3>1, OnlySent DEF onUnitAction, SpawnsThere, TellsTruth
    <3>2. CASE onInitializePosition(c, r.token, StartPosition)
      <4>1. PlaysFor(c, r.token)' \/ ~ token_to_unit_info[r.token].in_game
        BY <2>1, <3>2 DEF onInitializePosition, ownedBy, PlaysFor, find, proxyVars
      <4> QED
        BY <3>2, <4>1, OnlySent DEF onInitializePosition, SpawnsThere, TellsTruth
    <3> QED
      BY <1>4, <3>1, <3>2
  <2> QED
    BY <1>1a, <2>1, <2>2, <2>3, GrowthKeeps, OthersKeep
<1> QED
  BY <1>2, <1>3, <1>4 DEF ProxyHandles

\* The proxy's handler of an answer.
LEMMA AnswerServed ==
    ASSUME PlayInv, StartServed, InternalAnswer, UNCHANGED <<nodeVars, clientVars>>
    PROVE  PlayInv'
<1>1. PICK m \in datagrams :
         \/ onLogoutInternalAnswer(m)
         \/ onInitializePositionInternalAnswer(m)
         \/ onUnitActionInternalAnswer(m)
  BY DEF InternalAnswer
<1>2. IInv'
  BY <1>1, LogoutKeeps, SpawnAnswerKeeps, UnitActionAnswerTyped, ProxyUnchanged
  DEF PlayInv
<1>3. UnitsInv' /\ UNCHANGED clientVars /\ (NobodyLeaves' => NobodyLeaves)
  BY DEF PlayInv, UnitsInv, NodeTypeOK, OneUnitPerToken, nodeVars, clientVars, NobodyLeaves
<1>4. CASE onLogoutInternalAnswer(m)
  <2>1. ~ NobodyLeaves
    BY <1>4 DEF PlayInv, TellsTruth, onLogoutInternalAnswer, Arriving
  <2>2. OneUser'
    BY <1>4 DEF PlayInv, OneUser, onLogoutInternalAnswer
  <2>3. \A d \in datagrams' \ datagrams : SpawnsThere(d)'
    BY <1>4, OnlySent DEF onLogoutInternalAnswer, SpawnsThere
  <2> QED
    BY <1>2, <1>3, <2>1, <2>2, <2>3, OthersKeep
<1>5. CASE onUnitActionInternalAnswer(m)
  <2>1. UNCHANGED proxyVars
    BY <1>5 DEF onUnitActionInternalAnswer
  <2>2. OneUser' /\ Grows /\ EntersThere
    BY <2>1, SameGrows DEF PlayInv, OneUser, proxyVars
  <2>3. \A d \in datagrams' \ datagrams : SpawnsThere(d)' /\ TellsTruth(d)'
    BY <1>5, OnlySent DEF onUnitActionInternalAnswer, SpawnsThere, TellsTruth
  <2> QED
    BY <1>2, <1>3, <2>2, <2>3, GrowthKeeps, OthersKeep
<1>6. CASE onInitializePositionInternalAnswer(m)
  <2> DEFINE t == m.token
             s == token_to_unit_info[t]
  <2>1. /\ t \in DOMAIN token_to_unit_info /\ ~ s.in_game
        /\ token_to_unit_info' =
             [token_to_unit_info EXCEPT ![t].in_game = TRUE,
                                        ![t].node_server_end_point
                                          = seenFrom(m.node_server)]
        /\ SendTo([type |-> "InitializePositionAnswer", to |-> s.user_end_point,
                   success |-> m.success, token |-> t])
    BY <1>6 DEF onInitializePositionInternalAnswer, find
  <2>2. s \in UserOnlineInfo
    BY <2>1 DEF PlayInv, IInv, Typed, ProxyTypeOK
  <2>3. /\ DOMAIN token_to_unit_info' = DOMAIN token_to_unit_info
        /\ \A u \in DOMAIN token_to_unit_info :
              u # t => token_to_unit_info'[u] = token_to_unit_info[u]
        /\ token_to_unit_info'[t].in_game
        /\ token_to_unit_info'[t].node_server_end_point = seenFrom(m.node_server)
        /\ token_to_unit_info'[t].user_info = s.user_info
        /\ token_to_unit_info'[t].user_end_point = s.user_end_point
    BY <2>1, <2>2 DEF UserOnlineInfo
  <2> HIDE DEF t, s
  <2>4. OneUser'
    BY <2>1, <2>3 DEF PlayInv, OneUser, s
  <2>5. Grows
    BY <2>1, <2>3 DEF Grows, s, unitsOf, nodeVars
  <2>6. NobodyLeaves => EntersThere
    <3>1. NobodyLeaves => /\ m.node_server = AnyAddress(start_node)
                          /\ OneHost
                          /\ HasUnit(t)
      BY <1>6, ReachesProxy
      DEF PlayInv, TellsTruth, onInitializePositionInternalAnswer, Arriving, t
    <3> QED
      BY <2>3, <3>1, SeenFromAny DEF EntersThere
  <2>7. \A c, u : c = s.user_end_point /\ u = t => PlaysFor(c, u)'
    BY <2>1, <2>3 DEF PlaysFor, find
  <2>8. \A d \in datagrams' \ datagrams : SpawnsThere(d)' /\ TellsTruth(d)'
    BY <2>1, <2>7, OnlySent DEF SpawnsThere, TellsTruth
  <2> QED
    BY <1>2, <1>3, <2>4, <2>5, <2>6, <2>8, GrowthKeeps, OthersKeep
<1> QED
  BY <1>1, <1>4, <1>5, <1>6

\* A node server's handler: units only leave it for who leaves.
LEMMA NodeServed ==
    ASSUME PlayInv, StartServed, NodeNext, UNCHANGED <<proxyVars, clientVars>>
    PROVE  PlayInv'
<1>1. PICK n \in Nodes, m \in datagrams :
         \/ onLogoutInternal(n, m)
         \/ onInitializePositionInternal(n, m)
         \/ onUnitActionInternal(n, m)
  BY DEF NodeNext
<1>2. IInv' /\ UnitsInv'
  BY NodeTyped, ProxyUnchanged, NodeKeepsUnits DEF PlayInv, IInv
<1>3. /\ UNCHANGED clientVars /\ (NobodyLeaves' => NobodyLeaves) /\ OneUser'
      /\ UNCHANGED token_to_unit_info
  BY DEF PlayInv, OneUser, proxyVars, clientVars, NobodyLeaves
<1>4. CASE onLogoutInternal(n, m)
  <2>1. ~ NobodyLeaves
    BY <1>4 DEF PlayInv, TellsTruth, onLogoutInternal, Arriving
  <2>2. \A d \in datagrams' \ datagrams : SpawnsThere(d)'
    BY <1>4, OnlySent DEF onLogoutInternal, SpawnsThere
  <2> QED
    BY <1>2, <1>3, <2>1, <2>2, OthersKeep
<1>5. CASE onUnitActionInternal(n, m)
  <2>1. Grows /\ EntersThere
    BY <1>3, <1>5, SameGrows DEF onUnitActionInternal
  <2>2. \A d \in datagrams' \ datagrams : SpawnsThere(d)' /\ TellsTruth(d)'
    BY <1>5, OnlySent DEF onUnitActionInternal, SpawnsThere, TellsTruth
  <2> QED
    BY <1>2, <1>3, <2>1, <2>2, GrowthKeeps, OthersKeep
<1>6. CASE onInitializePositionInternal(n, m)
  <2>0. /\ SpawnsThere(m)
        /\ m.type = "InitializePositionInternal" /\ reaches(m.to, n)
    BY <1>6 DEF PlayInv, onInitializePositionInternal, Arriving
  <2>1. /\ m.position \in Zone[n] /\ n = start_node
        /\ m.proxy_server \in {AnyAddress(Proxy), Nowhere}
    <3>1. m.to \in Nodes \union {Balancer} /\ m.to \in {Balancer, start_node}
      BY <2>0 DEF SpawnsThere, StartServed
    <3>2. m.to = n /\ n # Balancer
      BY <2>0, <3>1, ReachesServer, EndPointsAssumption
    <3> QED
      BY <2>0, <3>1, <3>2 DEF SpawnsThere, StartServed
  <2>2. /\ m.token \in Token
        /\ unit_list \in [Nodes -> Seq(Token)]
    BY <1>6, SpawnFields
    DEF PlayInv, IInv, Typed, UnitsInv, NodeTypeOK, onInitializePositionInternal, Arriving
  <2>3. /\ \A k \in Nodes : unitsOf(k) \subseteq unitsOf(k)'
        /\ HasUnit(m.token)'
    <3>1. CASE m.token \in unitsOf(n)
      <4>1. UNCHANGED nodeVars
        BY <1>6, <3>1 DEF onInitializePositionInternal
      <4> QED
        BY <2>1, <3>1, <4>1 DEF nodeVars, unitsOf, HasUnit
    <3>2. CASE m.token \notin unitsOf(n)
      <4> DEFINE l == unit_list[n]
                 t == Append(l, m.token)
      <4>1. unit_list' = [unit_list EXCEPT ![n] = t]
        BY <1>6, <2>1, <3>2 DEF onInitializePositionInternal
      <4>2. l \in Seq(Token)
        BY <2>2
      <4>3. /\ Len(l) \in Nat /\ DOMAIN l = 1 .. Len(l) /\ DOMAIN t = 1 .. Len(l) + 1
            /\ \A k \in 1 .. Len(l) : t[k] = l[k]
            /\ t[Len(l) + 1] = m.token
        BY <2>2, <4>2, OneMore
      <4>4. /\ unit_list'[n] = t
            /\ \A k \in Nodes \ {n} : unit_list'[k] = unit_list[k]
        BY <2>2, <4>1
      <4> HIDE DEF l, t
      <4>5. DOMAIN l \subseteq DOMAIN t /\ Len(l) + 1 \in DOMAIN t
        BY <4>3
      <4>6. ToSet(l) \subseteq ToSet(t) /\ m.token \in ToSet(t)
        BY <4>3, <4>5 DEF ToSet
      <4> QED
        BY <2>1, <4>4, <4>6 DEF unitsOf, HasUnit, l
    <3> QED
      BY <3>1, <3>2
  <2>4. Grows /\ EntersThere
    BY <1>3, <2>3 DEF Grows, EntersThere
  <2>5. ASSUME NEW d \in datagrams' \ datagrams
        PROVE  SpawnsThere(d)' /\ TellsTruth(d)'
    <3>1. d = [type |-> "InitializePositionInternalAnswer", to |-> m.proxy_server,
               token |-> m.token, node_server |-> AnyAddress(n),
               success |-> m.token \in unitsOf(n) \/ m.position \in Zone[n]]
      BY <1>6, OnlySent DEF onInitializePositionInternal
    <3>2. /\ d.type = "InitializePositionInternalAnswer"
          /\ d.to = m.proxy_server
          /\ d.token = m.token
          /\ d.node_server = AnyAddress(n)
      BY <3>1
    <3> QED
      BY <2>1, <2>3, <3>2 DEF SpawnsThere, TellsTruth
  <2> QED
    BY <1>2, <1>3, <2>4, <2>5, GrowthKeeps, OthersKeep
<1> QED
  BY <1>1, <1>4, <1>5, <1>6

\* The balancer passes every request on to the node server of the start.
LEMMA BalancerServed ==
    ASSUME PlayInv, StartServed, BalancerStep, UNCHANGED <<proxyVars, nodeVars, clientVars>>
    PROVE  PlayInv'
<1>1. PICK m \in datagrams : relaySpawn(m)
  BY DEF BalancerStep
<1>2. IInv' /\ UnitsInv'
  BY BalancerTyped, ProxyUnchanged
  DEF PlayInv, UnitsInv, NodeTypeOK, OneUnitPerToken, nodeVars
<1>3. /\ UNCHANGED clientVars /\ (NobodyLeaves' => NobodyLeaves) /\ OneUser'
      /\ UNCHANGED token_to_unit_info /\ UNCHANGED nodeVars
  BY DEF PlayInv, OneUser, proxyVars, clientVars, NobodyLeaves
<1>4. /\ m \in [type : {"InitializePositionInternal"}, to : EndPoint,
                token : Token, position : Positions, proxy_server : EndPoint]
      /\ m.position = StartPosition
      /\ m.proxy_server \in {AnyAddress(Proxy), Nowhere}
  BY <1>1, SpawnFields DEF relaySpawn, Arriving, PlayInv, IInv, Typed, SpawnsThere
<1> DEFINE proxy == IF RelaysProxy THEN m.proxy_server ELSE Nowhere
           relayed == [m EXCEPT !.to = Route[m.position], !.proxy_server = proxy]
<1>5. SendTo(relayed)
  BY <1>1, <1>4 DEF relaySpawn, StartServed
<1>5a. proxy \in {AnyAddress(Proxy), Nowhere}
  BY <1>4
<1> HIDE DEF proxy
<1>6. /\ relayed.type = "InitializePositionInternal"
      /\ relayed.position = StartPosition
      /\ relayed.to = start_node
      /\ relayed.proxy_server = proxy
  BY <1>4 DEF start_node
<1> HIDE DEF relayed
<1>7. \A d \in datagrams' \ datagrams : SpawnsThere(d)' /\ TellsTruth(d)'
  BY <1>5, <1>5a, <1>6, OnlySent DEF SpawnsThere, TellsTruth
<1>8. Grows /\ EntersThere
  BY <1>3, SameGrows
<1> QED
  BY <1>2, <1>3, <1>7, <1>8, GrowthKeeps, OthersKeep

LEMMA PlayStarts == PlayInit => PlayInv
<1> SUFFICES ASSUME PlayInit PROVE PlayInv
  OBVIOUS
<1>1. IInv
  BY InitIInv DEF PlayInit
<1>2. UnitsInv
  BY UnitsStart DEF PlayInit
<1>3. PlayTypeOK /\ LeaversExit
  BY DEF PlayInit, ClientInit, PlayTypeOK, LeaversExit, Token
<1>4. datagrams = {} /\ DOMAIN token_to_unit_info = {}
  BY DEF PlayInit, Init, ProxyInit
<1>5. OneUser /\ GamesServed
  BY <1>4 DEF OneUser, GamesServed
<1>6. Playing
  BY DEF PlayInit, ClientInit, Playing
<1> QED
  BY <1>1, <1>2, <1>3, <1>4, <1>5, <1>6 DEF PlayInv

LEMMA PlayKeeps ==
    StartServed /\ PlayInv /\ [PlayNext]_<<vars, clientVars>> => PlayInv'
<1> SUFFICES ASSUME StartServed, PlayInv, [PlayNext]_<<vars, clientVars>> PROVE PlayInv'
  OBVIOUS
<1>1. CASE UNCHANGED <<vars, clientVars>>
  BY <1>1, ProxyUnchanged
  DEF PlayInv, IInv, Typed, UnitsInv, NodeTypeOK, OneUnitPerToken, PlayTypeOK,
      LeaversExit, OneUser, SpawnsThere, NobodyLeaves, TellsTruth, GamesServed,
      HasUnit, Playing, PlaysFor, find, unitsOf, vars, proxyVars, nodeVars, clientVars
<1> QED
  BY <1>1, ClientKeeps, RequestServed, AnswerServed, NodeServed, BalancerServed
  DEF PlayNext, RequestArrives

\* A client that plays has a session of its own under its token, and a unit on
\* the node server that this session's end point, 0.0.0.0 with that server's port,
\* reaches, unless another client of the one user leaves: for any number of
\* clients, whatever is lost, late or repeated (onInitializePositionAnswer does
\* not look at the token it is told).
THEOREM PlayersHaveUnits ==
    ASSUME StartServed
    PROVE  PlaySpec => []PlayersReallyPlay
<1>1. PlayInv => PlayersReallyPlay
  <2> SUFFICES ASSUME PlayInv, NEW c \in Clients, main_state[c] = "Gaming",
                      \A d \in Clients \ {c} : ~ exiting[d]
               PROVE  LET token == g_user_token[c]
                      IN  /\ find(token)
                          /\ token_to_unit_info[token].user_end_point = c
                          /\ \E n \in Nodes :
                               /\ reaches(token_to_unit_info[token].node_server_end_point, n)
                               /\ token \in unitsOf(n)
    BY DEF PlayersReallyPlay
  <2>1. NobodyLeaves
    BY DEF PlayInv, LeaversExit, NobodyLeaves
  <2>2. PlaysFor(c, g_user_token[c]) /\ GamesServed
    BY <2>1 DEF PlayInv, Playing
  <2> QED
    BY <2>2 DEF PlaysFor, GamesServed, HasUnit, find, StartServed, reaches, NamesOf
<1>2. PlayInv /\ [PlayNext]_<<vars, clientVars>> => PlayInv'
  BY PlayKeeps
<1> QED
  BY <1>1, <1>2, PlayStarts, PTL DEF PlaySpec
=============================================================================
