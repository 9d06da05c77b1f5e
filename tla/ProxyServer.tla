----------------------------- MODULE ProxyServer -----------------------------
(***************************************************************************)
(* The proxy server (proxy_server.cpp): the registered users, the tokens   *)
(* of those who are online, and one action per packet handler.  A session  *)
(* is an entry of token_to_unit_info; its token is the index the entry has *)
(* in a FastIndexRegistry, of which only the promise (IndexAllocator) is   *)
(* used here.                                                              *)
(*                                                                         *)
(* A handler that answers a client takes the client's end point            *)
(* (remote_end_point) and the packet's fields as parameters; one that      *)
(* takes an internal answer takes the datagram.                            *)
(***************************************************************************)
EXTENDS Network, FiniteSets

CONSTANTS
    Logins,        \* the login names, as numbers in the order of std::map
    Passwords,
    NoPassword,
    Incomplete,    \* the logins whose users left a field empty
    Broken         \* the logins whose users have a line break in a field

ASSUME LoginsAssumption ==
    /\ Logins \subseteq Nat /\ IsFiniteSet(Logins)
    /\ Incomplete \subseteq Logins /\ Broken \subseteq Logins

VARIABLES
    password,             \* login -> password, NoPassword if not registered
    online,               \* UserInfo::online
    unit_token,           \* UserInfo::unit_token
    token_to_unit_info,   \* token -> UserOnlineInfo, for the tokens in use
    frontier,             \* the tokens ever given are 0 .. frontier - 1
    online_user_count,
    users_file,           \* login -> password, as of the last save
    shifted               \* some file was read with its lines shifted: who was
                          \* registered from it has other fields than they gave

proxyVars == <<password, online, unit_token, token_to_unit_info, frontier,
               online_user_count, users_file, shifted>>

fileVars == <<users_file, shifted>>

userVars == <<password, online, unit_token>>

Tokens == INSTANCE IndexAllocator
            WITH live <- DOMAIN token_to_unit_info

UserOnlineInfo ==
    [user_info : Logins, in_game : BOOLEAN,
     node_server_end_point : EndPoint, user_end_point : Clients]

registered == {l \in Logins : password[l] # NoPassword}

find(t) == t \in DOMAIN token_to_unit_info

\* MUTANT of ownedBy: the end point of the sender is not compared.
MutantAnyClient(t, c) == find(t)

\* The guard of the handlers a client may call about its token.
ownedBy(t, c) == find(t) /\ token_to_unit_info[t].user_end_point = c

ProxyTypeOK ==
    /\ password \in [Logins -> Passwords \union {NoPassword}]
    /\ users_file \in [Logins -> Passwords \union {NoPassword}]
    /\ online \in [Logins -> BOOLEAN]
    /\ unit_token \in [Logins -> Token]
    /\ DOMAIN token_to_unit_info \subseteq 0 .. frontier - 1
    /\ \A t \in DOMAIN token_to_unit_info :
          token_to_unit_info[t] \in UserOnlineInfo
    /\ frontier \in Nat
    /\ online_user_count \in Nat
    /\ shifted \in BOOLEAN

\* The file has three lines for each user, in the order of std::map, and a
\* reader takes the next three lines for the next user: a line break in a
\* field that is read shifts all that follows.  Reading ends at the first
\* user with an empty field.
readShifted(f) ==
    \/ shifted
    \/ \E k \in Broken :
          /\ f[k] # NoPassword
          /\ \A i \in Incomplete : f[i] # NoPassword => k <= i

\* What may be registered after file f was loaded.  Of shifted lines, which
\* may make up any users and overwrite others, nothing is known.
loadRegisteredUsers(f) ==
    {users \in [Logins -> Passwords \union {NoPassword}] :
        ~ readShifted(f) =>
            users = [l \in Logins |->
                       IF \E k \in Incomplete : k <= l /\ f[k] # NoPassword
                       THEN NoPassword
                       ELSE f[l]]}

ProxyInit ==
    /\ users_file = [l \in Logins |-> NoPassword]
    /\ shifted = FALSE
    /\ password \in loadRegisteredUsers(users_file)
    /\ online = [l \in Logins |-> FALSE]
    /\ unit_token = [l \in Logins |-> 0]
    /\ token_to_unit_info = [t \in {} |-> 0]
    /\ frontier = 0
    /\ online_user_count = 0

\* MUTANT of Restart: the users keep their online flags.
MutantRestartOnline(file) ==
    /\ users_file' = file
    /\ password' \in loadRegisteredUsers(file)
    /\ shifted' = readShifted(file)
    /\ UNCHANGED <<online, unit_token>>
    /\ token_to_unit_info' = [t \in {} |-> 0]
    /\ frontier' = 0
    /\ online_user_count' = 0
    /\ SendNothing

Restart(file) ==
    /\ users_file' = file
    /\ password' \in loadRegisteredUsers(file)
    /\ shifted' = readShifted(file)
    /\ online' = [l \in Logins |-> FALSE]
    /\ unit_token' = [l \in Logins |-> 0]
    /\ token_to_unit_info' = [t \in {} |-> 0]
    /\ frontier' = 0
    /\ online_user_count' = 0
    /\ SendNothing

\* MUTANT of onQuit: the users are not saved.
MutantQuitUnsaved == Restart(users_file)

\* A quit signal saves the users (saveRegisteredUsers), as the destructor does
\* after start() has caught an exception; the process is then started again.
onQuit == Restart(password)

\* The process dies without a signal handler and is started again.
Crash == Restart(users_file)

\* It dies in saveRegisteredUsers, which empties the file first, when it is at
\* user n.  Some lines of that user may be in the file: they are read as a user
\* with an empty field, unless line breaks make up for those that are missing.
CrashWhileSaving(n) ==
    Restart([l \in Logins |-> IF l < n \/ (l = n /\ n \in Broken)
                              THEN password[l] ELSE NoPassword])

-----------------------------------------------------------------------------

answerLogin(c, ok, t) ==
    SendTo([type |-> "LoginAnswer", to |-> c, success |-> ok, token |-> t])

\* MUTANT of openSession: the session is not counted.
MutantUncounted(l, c) ==
    \E t \in 0 .. frontier :
        /\ token_to_unit_info' =
             [u \in DOMAIN token_to_unit_info \union {t} |->
                IF u = t
                THEN [user_info |-> l, in_game |-> FALSE,
                      node_server_end_point |-> Nowhere, user_end_point |-> c]
                ELSE token_to_unit_info[u]]
        /\ Tokens!Give(t)
        /\ online' = [online EXCEPT ![l] = TRUE]
        /\ unit_token' = [unit_token EXCEPT ![l] = t]
        /\ UNCHANGED online_user_count
        /\ answerLogin(c, TRUE, t)

\* Allocate a token for login l and remember where the user is.
openSession(l, c) ==
    \E t \in 0 .. frontier :
        /\ token_to_unit_info' =
             [u \in DOMAIN token_to_unit_info \union {t} |->
                IF u = t
                THEN [user_info |-> l, in_game |-> FALSE,
                      node_server_end_point |-> Nowhere, user_end_point |-> c]
                ELSE token_to_unit_info[u]]
        /\ Tokens!Give(t)
        /\ online' = [online EXCEPT ![l] = TRUE]
        /\ unit_token' = [unit_token EXCEPT ![l] = t]
        /\ online_user_count' = online_user_count + 1
        /\ answerLogin(c, TRUE, t)

\* MUTANT of onLogin: the password is not compared.
MutantNoPassword(c, l, p) ==
    /\ password' = IF l \in registered THEN password
                   ELSE [password EXCEPT ![l] = p]
    /\ UNCHANGED fileVars
    /\ \/ /\ ~online[l]
          /\ openSession(l, c)
       \/ /\ online[l]
          /\ answerLogin(c, TRUE, unit_token[l])
          /\ UNCHANGED <<online, unit_token, token_to_unit_info, frontier,
                         online_user_count>>

onLogin(c, l, p) ==
    /\ password' = IF l \in registered THEN password
                   ELSE [password EXCEPT ![l] = p]
    /\ UNCHANGED fileVars
    /\ \/ /\ password'[l] # p
          /\ answerLogin(c, FALSE, 0)
          /\ UNCHANGED <<online, unit_token, token_to_unit_info, frontier,
                         online_user_count>>
       \/ /\ password'[l] = p
          /\ ~online[l]
          /\ openSession(l, c)
       \/ /\ password'[l] = p
          /\ online[l]
          /\ answerLogin(c, TRUE, unit_token[l])
          /\ UNCHANGED <<online, unit_token, token_to_unit_info, frontier,
                         online_user_count>>

onLogout(c, t) ==
    /\ ownedBy(t, c)
    /\ SendTo([type |-> "LogoutInternal",
               token |-> unit_token[token_to_unit_info[t].user_info],
               to |-> token_to_unit_info[t].node_server_end_point])
    /\ UNCHANGED proxyVars

onLogoutInternalAnswer(m) ==
    /\ m \in Arriving(Proxy, "LogoutInternalAnswer")
    /\ find(m.token)
    /\ LET info == token_to_unit_info[m.token]
       IN  /\ online' = [online EXCEPT ![info.user_info] = FALSE]
           /\ unit_token' = [unit_token EXCEPT ![info.user_info] = 0]
           /\ SendTo([type |-> "LogoutAnswer", to |-> info.user_end_point])
    /\ token_to_unit_info' =
         [t \in DOMAIN token_to_unit_info \ {m.token} |-> token_to_unit_info[t]]
    /\ Tokens!TakeBack(m.token)
    /\ online_user_count' = online_user_count - 1
    /\ UNCHANGED <<password, fileVars>>

onInitializePosition(c, t, position) ==
    /\ ownedBy(t, c)
    /\ \/ /\ ~token_to_unit_info[t].in_game
          /\ SendTo([type |-> "InitializePositionInternal", to |-> Balancer,
                     token |-> t, position |-> position,
                     proxy_server |-> AnyAddress(Proxy)])
       \/ /\ token_to_unit_info[t].in_game
          /\ SendTo([type |-> "InitializePositionAnswer", to |-> c,
                     success |-> TRUE, token |-> t])
    /\ UNCHANGED proxyVars

\* A loopback address that a node server tells is replaced by the one its
\* answer came from.
seenFrom(e) ==
    IF \E n \in Nodes : e = Loopback(n)
    THEN CHOOSE n \in Nodes : e = Loopback(n)
    ELSE e

\* MUTANT of onInitializePositionInternalAnswer: in_game is not looked at.
MutantSpawnedAgain(m) ==
    /\ m \in Arriving(Proxy, "InitializePositionInternalAnswer")
    /\ find(m.token)
    /\ token_to_unit_info' =
         [token_to_unit_info EXCEPT
            ![m.token].in_game = TRUE,
            ![m.token].node_server_end_point = seenFrom(m.node_server)]
    /\ SendTo([type |-> "InitializePositionAnswer",
               to |-> token_to_unit_info[m.token].user_end_point,
               success |-> m.success, token |-> m.token])
    /\ UNCHANGED <<userVars, frontier, online_user_count, fileVars>>

\* The session enters the game whatever the answer's success says.
onInitializePositionInternalAnswer(m) ==
    /\ m \in Arriving(Proxy, "InitializePositionInternalAnswer")
    /\ find(m.token)
    /\ online[token_to_unit_info[m.token].user_info]
    /\ ~token_to_unit_info[m.token].in_game
    /\ token_to_unit_info' =
         [token_to_unit_info EXCEPT
            ![m.token].in_game = TRUE,
            ![m.token].node_server_end_point = seenFrom(m.node_server)]
    /\ SendTo([type |-> "InitializePositionAnswer",
               to |-> token_to_unit_info[m.token].user_end_point,
               success |-> m.success, token |-> m.token])
    /\ UNCHANGED <<userVars, frontier, online_user_count, fileVars>>

onUnitAction(c, t) ==
    /\ ownedBy(t, c)
    /\ token_to_unit_info[t].in_game
    /\ SendTo([type |-> "UnitActionInternal",
               token |-> unit_token[token_to_unit_info[t].user_info],
               to |-> token_to_unit_info[t].node_server_end_point])
    /\ UNCHANGED proxyVars

onUnitActionInternalAnswer(m) ==
    /\ m \in Arriving(Proxy, "UnitActionInternalAnswer")
    /\ find(m.token)
    /\ token_to_unit_info[m.token].in_game
    /\ SendTo([type |-> "UnitActionAnswer",
               to |-> token_to_unit_info[m.token].user_end_point])
    /\ UNCHANGED proxyVars
=============================================================================
