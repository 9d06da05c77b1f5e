---------------------------- MODULE MonitorSession ----------------------------
(***************************************************************************)
(* The balancer monitor opens and closes connections.  The window's thread *)
(* and one thread per connection talk by queued signals: the window has one *)
(* queue, and so has each connection.  A connection that is closed has its *)
(* thread told so by such a signal, while answers and a failed look-up of  *)
(* the host may be on their way to the window.  The window does not look   *)
(* whose signal it handles.                                                *)
(*                                                                         *)
(* What the answers say is left to BalancerMonitor; here they matter by    *)
(* what their handlers do with the two pointers of the window, connection  *)
(* and server_info:                                                        *)
(*    "info"     MonitoringBalancerServerInfoAnswer                        *)
(*    "data"     the answers about trees, neighbors and proxies            *)
(*    "changed"  the answers to a split and to a merge                     *)
(* Datagrams are lost, reordered, and at most MaxRepeats times repeated.   *)
(***************************************************************************)
EXTENDS Naturals, Sequences

CONSTANTS
    MaxConnections,   \* bound: so many times the user connects
    MaxClicks,        \* bound: so many refreshes, splits and merges
    MaxRepeats        \* bound: so many datagrams arrive twice

ASSUME SessionAssumption == {MaxConnections, MaxClicks, MaxRepeats} \subseteq Nat

VARIABLES
    connection,    \* the window's connection; 0: nullptr
    server_info,   \* the connections whose answers made it; {}: nullptr
    signals,       \* queued to the window: whose, and what
    opened,        \* connections 1 .. opened were made
    thread,        \* what the thread of each connection is at
    commands,      \* queued to each connection
    exiting,       \* the connections that called exit(0)
    answers,       \* on their way to the socket of each connection
    ended,         \* how the program ended
    hasty,         \* the user closed a connection that still had work to do
    clicks, repeats

windowVars == <<connection, server_info, signals, opened, ended>>
threadVars == <<thread, commands, exiting, answers>>
userVars == <<hasty, clicks, repeats>>
sessionVars == <<windowVars, threadVars, userVars>>

Connection == 1..MaxConnections
AnswerKind == {"info", "data", "changed"}
Command == {"close", "info", "data", "changed"}
Signal == [from : Connection, what : AnswerKind \union {"fatal"}]

SessionTypeOK ==
    /\ connection \in 0..MaxConnections
    /\ server_info \in SUBSET Connection
    /\ signals \in Seq(Signal)
    /\ opened \in 0..MaxConnections
    /\ thread \in [Connection -> {"none", "starting", "looking up", "deaf", "ready", "stopped"}]
    /\ commands \in [Connection -> Seq(Command)]
    /\ exiting \in SUBSET Connection
    /\ answers \in [Connection -> SUBSET AnswerKind]
    /\ ended \in {"no", "quit", "assert", "null connection", "null server_info"}
    /\ hasty \in BOOLEAN
    /\ clicks \in Nat /\ repeats \in Nat

SessionInit ==
    /\ connection = 0 /\ server_info = {} /\ signals = << >> /\ opened = 0
    /\ thread = [c \in Connection |-> "none"]
    /\ commands = [c \in Connection |-> << >>]
    /\ exiting = {}
    /\ answers = [c \in Connection |-> {}]
    /\ ended = "no" /\ hasty = FALSE /\ clicks = 0 /\ repeats = 0

-----------------------------------------------------------------------------
\* The window

emit(c, command) == commands' = [commands EXCEPT ![c] = Append(@, command)]

\* A slot of the window asks for more: connection->getBalanceTreeInfo(..) and
\* the like.  Nobody looks whether there is a connection.
Asks(command) ==
    IF connection = 0
    THEN ended' = "null connection" /\ UNCHANGED commands
    ELSE emit(connection, command) /\ UNCHANGED ended

\* MUTANT of closeConnection: the connection is not told.
MutantSilentClose ==
    IF connection = 0
    THEN ended' = "assert" /\ UNCHANGED <<connection, server_info, commands>>
    ELSE connection' = 0 /\ server_info' = {} /\ UNCHANGED <<commands, ended>>

\* MUTANT of closeConnection: what was received stays.
MutantInfoStays ==
    IF connection = 0
    THEN ended' = "assert" /\ UNCHANGED <<connection, server_info, commands>>
    ELSE /\ emit(connection, "close") /\ connection' = 0
         /\ UNCHANGED <<ended, server_info>>

\* onClose: assert(connection), then both pointers are reset.
closeConnection ==
    IF connection = 0
    THEN ended' = "assert" /\ UNCHANGED <<connection, server_info, commands>>
    ELSE /\ emit(connection, "close") /\ connection' = 0 /\ server_info' = {}
         /\ UNCHANGED ended

\* The action is enabled from disconnectedState to connectedState.
onConnect ==
    /\ ended = "no" /\ connection = 0 /\ opened < MaxConnections
    /\ opened' = opened + 1
    /\ connection' = opened + 1
    /\ thread' = [thread EXCEPT ![opened + 1] = "starting"]
    /\ UNCHANGED <<server_info, signals, commands, exiting, answers, ended, userVars>>

\* A connection is still at work: nothing it asked for may be on its way.
Busy(c) ==
    \/ thread[c] \in {"starting", "looking up"}
    \/ commands[c] # << >> \/ answers[c] # {}
    \/ \E i \in DOMAIN signals : signals[i].from = c

onClose ==
    /\ ended = "no" /\ connection # 0
    /\ closeConnection
    /\ hasty' = (hasty \/ Busy(connection))
    /\ UNCHANGED <<signals, opened, thread, exiting, answers, clicks, repeats>>

\* The last window closes, and with it the program; threads and all.
onQuit ==
    /\ ended = "no"
    /\ IF connection = 0 THEN UNCHANGED <<connection, server_info, commands>>
       ELSE emit(connection, "close") /\ connection' = 0 /\ server_info' = {}
    /\ ended' = "quit"
    /\ UNCHANGED <<signals, opened, thread, exiting, answers, userVars>>

\* onRefreshServerTree, and onStaticSplit and onStaticMerge.
onClick ==
    /\ ended = "no" /\ server_info # {} /\ clicks < MaxClicks
    /\ clicks' = clicks + 1
    /\ \E command \in {"data", "changed"} : Asks(command)
    /\ UNCHANGED <<connection, server_info, signals, opened, thread, exiting, answers, hasty, repeats>>

Handles(what) ==
    /\ ended = "no" /\ signals # << >> /\ Head(signals).what = what
    /\ signals' = Tail(signals)
    /\ UNCHANGED <<opened, thread, exiting, answers, userVars>>

onConnectionFatal == Handles("fatal") /\ closeConnection

\* server_info is made if need be; with a root there is a tree to ask for.
onMonitoringBalancerServerInfoAnswer ==
    /\ Handles("info")
    /\ server_info' = server_info \union {Head(signals).from}
    /\ UNCHANGED connection
    /\ Asks("data") \/ UNCHANGED <<commands, ended>>

\* Reads and fills server_info; then another request, or none.
onMonitoringDataAnswer ==
    /\ Handles("data")
    /\ UNCHANGED connection
    /\ IF server_info = {}
       THEN ended' = "null server_info" /\ UNCHANGED <<server_info, commands>>
       ELSE /\ server_info' = server_info \union {Head(signals).from}
            /\ Asks("data") \/ UNCHANGED <<commands, ended>>

\* A change that succeeded has everything asked for anew.
onMonitoringChangeAnswer ==
    /\ Handles("changed")
    /\ UNCHANGED <<connection, server_info>>
    /\ Asks("info") \/ UNCHANGED <<commands, ended>>

-----------------------------------------------------------------------------
\* The thread of connection c

Post(c, what) == signals' = Append(signals, [from |-> c, what |-> what])

onThreadStart(c) ==
    /\ ended = "no" /\ thread[c] = "starting"
    /\ thread' = [thread EXCEPT ![c] = "looking up"]
    /\ UNCHANGED <<windowVars, commands, exiting, answers, userVars>>

\* MUTANT of onResolve: after an error it goes on, to the next complaint.
MutantComplainTwice(c) ==
    /\ ended = "no" /\ thread[c] = "looking up"
    /\ \/ thread' = [thread EXCEPT ![c] = "deaf"]
          /\ signals' = signals \o << [from |-> c, what |-> "fatal"], [from |-> c, what |-> "fatal"] >>
          /\ UNCHANGED answers
       \/ thread' = [thread EXCEPT ![c] = "ready"]
          /\ answers' = [answers EXCEPT ![c] = {"info", "data"}]
          /\ UNCHANGED signals
    /\ UNCHANGED <<connection, server_info, opened, ended, commands, exiting, userVars>>

\* The look-up fails, or finds no address: then requests go to no address.
\* Or it is found and asked for the server and for the count of proxies.
onResolve(c) ==
    /\ ended = "no" /\ thread[c] = "looking up"
    /\ \/ thread' = [thread EXCEPT ![c] = "deaf"] /\ Post(c, "fatal") /\ UNCHANGED answers
       \/ thread' = [thread EXCEPT ![c] = "ready"]
          /\ answers' = [answers EXCEPT ![c] = {"info", "data"}]
          /\ UNCHANGED signals
    /\ UNCHANGED <<connection, server_info, opened, ended, commands, exiting, userVars>>

\* The answers the request of a command leads to.
Answers(command) == IF command = "info" THEN {"info", "data"} ELSE {command}

\* The slots of the connection.  Those that are behind onClose in the queue
\* may run still: exit(0) lets the loop end the round it is in.
onCommand(c) ==
    /\ ended = "no" /\ thread[c] \in {"looking up", "deaf", "ready"} /\ commands[c] # << >>
    /\ commands' = [commands EXCEPT ![c] = Tail(@)]
    /\ LET command == Head(commands[c]) IN
          IF command = "close"
          THEN exiting' = exiting \union {c} /\ UNCHANGED answers
          ELSE /\ answers' = [answers EXCEPT ![c] = @ \union
                                  IF thread[c] = "ready" THEN Answers(command) ELSE {}]
               /\ UNCHANGED exiting
    /\ UNCHANGED <<windowVars, thread, userVars>>

onReadyRead(c) ==
    /\ ended = "no" /\ thread[c] = "ready"
    /\ \E what \in answers[c] :
          /\ Post(c, what)
          /\ \/ answers' = [answers EXCEPT ![c] = @ \ {what}] /\ UNCHANGED repeats
             \/ repeats < MaxRepeats /\ repeats' = repeats + 1 /\ UNCHANGED answers
    /\ UNCHANGED <<connection, server_info, opened, ended, thread, commands, exiting, hasty, clicks>>

Lost(c) ==
    /\ ended = "no"
    /\ \E what \in answers[c] : answers' = [answers EXCEPT ![c] = @ \ {what}]
    /\ UNCHANGED <<windowVars, thread, commands, exiting, userVars>>

\* MUTANT of Exits: the loop waits for the answers that are on their way.
MutantWaitsForAnswers(c) ==
    /\ ended = "no" /\ c \in exiting /\ thread[c] # "stopped" /\ answers[c] = {}
    /\ thread' = [thread EXCEPT ![c] = "stopped"]
    /\ UNCHANGED <<windowVars, commands, exiting, answers, userVars>>

\* The loop ends: what is queued to the thread is never handled.
Exits(c) ==
    /\ ended = "no" /\ c \in exiting /\ thread[c] # "stopped"
    /\ thread' = [thread EXCEPT ![c] = "stopped"]
    /\ UNCHANGED <<windowVars, commands, exiting, answers, userVars>>

-----------------------------------------------------------------------------
WindowNext ==
    \/ onConnect \/ onClose \/ onQuit \/ onClick
    \/ onConnectionFatal \/ onMonitoringBalancerServerInfoAnswer
    \/ onMonitoringDataAnswer \/ onMonitoringChangeAnswer

ThreadNext(c) ==
    onThreadStart(c) \/ onResolve(c) \/ onCommand(c) \/ onReadyRead(c) \/ Lost(c) \/ Exits(c)

SessionNext == WindowNext \/ \E c \in Connection : ThreadNext(c)

SessionSafety == SessionInit /\ [][SessionNext]_sessionVars

\* A thread runs what is queued to it, and ends when it was told to.
SessionSpec ==
    /\ SessionSafety
    /\ \A c \in Connection : WF_sessionVars(onThreadStart(c))
                             /\ WF_sessionVars(onCommand(c)) /\ WF_sessionVars(Exits(c))

-----------------------------------------------------------------------------
(***************************************************************************)
(* The window calls through a null connection, or closes none, only after  *)
(* the user closed a connection that was still looking up its host or      *)
(* awaiting an answer: who waits meets no crash of this kind, however      *)
(* datagrams are lost, reordered or repeated and however look-ups fail.    *)
(***************************************************************************)
CallsNeedHaste == ended \in {"assert", "null connection"} => hasty

(***************************************************************************)
(* Unless so, what is shown came over one connection, the open one: trees  *)
(* of two balancers are not mixed.                                         *)
(***************************************************************************)
OneBalancerShown == hasty \/ server_info \subseteq {connection}

(***************************************************************************)
(* Both: a user who waits is safe from what signals of a closed connection *)
(* do to a window that does not look whose they are (onConnectionFatal and *)
(* the handlers of answers).                                               *)
(***************************************************************************)
PatienceIsSafe == CallsNeedHaste /\ OneBalancerShown

(***************************************************************************)
(* Every connection but the window's own has been told to close, or is     *)
(* closing: no thread goes on asking without a window that could stop it.  *)
(***************************************************************************)
OthersToldToClose ==
    \A c \in 1..opened \ {connection} :
        c \in exiting \/ \E i \in DOMAIN commands[c] : commands[c][i] = "close"

(***************************************************************************)
(* The thread of a connection that the window gave up comes to its end.    *)
(***************************************************************************)
ClosedThreadsStop ==
    \A c \in Connection :
        (c <= opened /\ c # connection) ~> (thread[c] = "stopped" \/ ended # "no")
=============================================================================
