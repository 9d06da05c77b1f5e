------------------------- MODULE MonitorSessionProofs -------------------------
(***************************************************************************)
(* A user of the monitor who waits is safe, for any number of connections, *)
(* clicks and repeated datagrams.                                          *)
(*                                                                         *)
(* As long as no connection was closed in haste, a connection other than   *)
(* the window's is quiet: it looks nothing up, awaits nothing, and has     *)
(* nothing queued but the signal to close.  So every signal that the       *)
(* window handles is of its own connection.  A look-up that failed is the  *)
(* only thing that connection has to say, so that the close it leads to    *)
(* leaves it quiet as well.                                                *)
(***************************************************************************)
EXTENDS MonitorSession, TLAPS

\* The window's connection was not told to close; the others were.
Told(c) == c \in exiting \/ \E i \in DOMAIN commands[c] : commands[c][i] = "close"

ToldInv ==
    /\ connection <= opened
    /\ \A c \in Connection : c > opened => commands[c] = << >> /\ c \notin exiting
    /\ connection # 0 => ~Told(connection)
    /\ \A c \in 1..opened \ {connection} : Told(c)

Quiet(c) ==
    /\ thread[c] \notin {"starting", "looking up"}
    /\ answers[c] = {}
    /\ \A i \in DOMAIN commands[c] : commands[c][i] = "close"

\* Before its host is known, a connection was asked for nothing.
Unheard ==
    /\ answers[connection] = {} /\ commands[connection] = << >> /\ server_info = {}
    /\ IF thread[connection] = "deaf"
       THEN Len(signals) <= 1 /\ (\A i \in DOMAIN signals : signals[i].what = "fatal")
       ELSE signals = << >>

PatientInv ==
    /\ \A c \in Connection \ {connection} : Quiet(c)
    /\ \A i \in DOMAIN signals : signals[i].from = connection
    /\ connection = 0 => signals = << >>
    /\ connection # 0 =>
          IF thread[connection] = "ready"
          THEN \A i \in DOMAIN signals : signals[i].what # "fatal"
          ELSE thread[connection] \in {"starting", "looking up", "deaf"} /\ Unheard

SessionInv ==
    /\ SessionTypeOK
    /\ CallsNeedHaste /\ OneBalancerShown
    /\ ToldInv
    /\ ended = "no" /\ ~hasty => PatientInv

-----------------------------------------------------------------------------
LEMMA AppendFacts ==
    ASSUME NEW S, NEW s \in Seq(S), NEW e \in S
    PROVE  /\ Append(s, e) \in Seq(S) /\ Len(Append(s, e)) = Len(s) + 1
           /\ DOMAIN s = 1..Len(s) /\ DOMAIN Append(s, e) = 1..(Len(s) + 1)
           /\ Append(s, e)[Len(s) + 1] = e /\ \A i \in 1..Len(s) : Append(s, e)[i] = s[i]
  OBVIOUS

LEMMA TailFacts ==
    ASSUME NEW S, NEW s \in Seq(S), s # << >>
    PROVE  /\ Tail(s) \in Seq(S) /\ Len(Tail(s)) = Len(s) - 1 /\ Head(s) \in S
           /\ Len(s) \in Nat \ {0} /\ DOMAIN s = 1..Len(s) /\ Head(s) = s[1]
           /\ DOMAIN Tail(s) = 1..(Len(s) - 1) /\ \A i \in 1..(Len(s) - 1) : Tail(s)[i] = s[i + 1]
  OBVIOUS

LEMMA EmptyFacts == DOMAIN << >> = {} /\ Len(<< >>) = 0
  OBVIOUS

LEMMA OneElement == \A n : n = 0 => n + 1 = 1 /\ 1..(n + 1) = {1}
  <1>1. 1..1 = {1}
    OBVIOUS
  <1> QED
    BY <1>1

LEMMA NoElement ==
    ASSUME NEW S, NEW s \in Seq(S), \A i \in DOMAIN s : FALSE
    PROVE  s = << >>
  <1>1. Len(s) \in Nat /\ DOMAIN s = 1..Len(s)
    OBVIOUS
  <1>2. Len(s) = 0
    BY <1>1
  <1> QED
    BY <1>2

LEMMA ConnectionFacts ==
    /\ MaxConnections \in Nat /\ 0 \notin Connection
    /\ 0..MaxConnections = Connection \union {0}
  BY SessionAssumption DEF Connection

LEMMA SessionInitInv == SessionInit => SessionInv
  <1> SUFFICES ASSUME SessionInit PROVE SessionInv
    OBVIOUS
  <1>1. MaxConnections \in Nat /\ << >> \in Seq(Signal)
          /\ << >> \in Seq(Command) /\ DOMAIN << >> = {}
    BY SessionAssumption
  <1>2. SessionTypeOK
    <2>1. /\ connection = 0 /\ server_info = {} /\ signals = << >> /\ opened = 0 /\ exiting = {}
          /\ ended = "no" /\ hasty = FALSE /\ clicks = 0 /\ repeats = 0
          /\ 0 \in 0..MaxConnections
      BY <1>1 DEF SessionInit
    <2>2. thread \in [Connection -> {"none", "starting", "looking up", "deaf", "ready", "stopped"}]
      BY DEF SessionInit
    <2>3. commands \in [Connection -> Seq(Command)]
      BY <1>1 DEF SessionInit
    <2>4. answers \in [Connection -> SUBSET AnswerKind]
      BY DEF SessionInit
    <2> QED
      BY <1>1, <2>1, <2>2, <2>3, <2>4 DEF SessionTypeOK
  <1>3. CallsNeedHaste /\ OneBalancerShown
    BY DEF SessionInit, CallsNeedHaste, OneBalancerShown
  <1>4. ToldInv
    BY <1>1 DEF SessionInit, ToldInv, Connection
  <1>5. PatientInv
    BY <1>1 DEF SessionInit, PatientInv, Quiet
  <1> QED
    BY <1>2, <1>3, <1>4, <1>5 DEF SessionInv

-----------------------------------------------------------------------------
\* A signal queued to connection c.
LEMMA EmitFacts ==
    ASSUME SessionTypeOK, NEW c \in Connection, NEW command \in Command, emit(c, command)
    PROVE  /\ commands' \in [Connection -> Seq(Command)]
           /\ \A d \in Connection \ {c} : commands'[d] = commands[d]
           /\ commands'[c] = Append(commands[c], command)
           /\ DOMAIN commands[c] = 1..Len(commands[c])
           /\ DOMAIN commands'[c] = 1..(Len(commands[c]) + 1)
           /\ commands'[c][Len(commands[c]) + 1] = command
           /\ \A i \in 1..Len(commands[c]) : commands'[c][i] = commands[c][i]
           /\ Len(commands[c]) \in Nat
  <1>1. commands \in [Connection -> Seq(Command)] /\ commands[c] \in Seq(Command)
    BY DEF SessionTypeOK
  <1>2. commands' = [commands EXCEPT ![c] = Append(@, command)]
    BY DEF emit
  <1>3. commands'[c] = Append(commands[c], command)
    BY <1>1, <1>2
  <1>4. Append(commands[c], command) \in Seq(Command)
    BY <1>1, AppendFacts
  <1> QED
    BY <1>1, <1>2, <1>3, <1>4, AppendFacts

\* The next signal of connection c is taken.
LEMMA TakeFacts ==
    ASSUME SessionTypeOK, NEW c \in Connection, commands[c] # << >>,
           commands' = [commands EXCEPT ![c] = Tail(@)]
    PROVE  /\ commands' \in [Connection -> Seq(Command)]
           /\ \A d \in Connection \ {c} : commands'[d] = commands[d]
           /\ Head(commands[c]) \in Command /\ Head(commands[c]) = commands[c][1]
           /\ Len(commands[c]) \in Nat \ {0} /\ DOMAIN commands[c] = 1..Len(commands[c])
           /\ DOMAIN commands'[c] = 1..(Len(commands[c]) - 1)
           /\ \A i \in 1..(Len(commands[c]) - 1) : commands'[c][i] = commands[c][i + 1]
  <1>1. commands \in [Connection -> Seq(Command)] /\ commands[c] \in Seq(Command)
    BY DEF SessionTypeOK
  <1>2. commands'[c] = Tail(commands[c])
    BY <1>1
  <1>3. Tail(commands[c]) \in Seq(Command)
    BY <1>1, TailFacts
  <1> QED
    BY <1>1, <1>2, <1>3, TailFacts

\* What the window's slots ask of the connection.
LEMMA AsksFacts ==
    ASSUME SessionTypeOK, NEW command \in Command, Asks(command)
    PROVE  /\ commands' \in [Connection -> Seq(Command)]
           /\ ended' \in {ended, "null connection"}
           /\ connection = 0 => commands' = commands /\ ended' = "null connection"
           /\ connection # 0 => connection \in Connection /\ emit(connection, command) /\ ended' = ended
  <1>1. connection # 0 => connection \in Connection
    BY ConnectionFacts DEF SessionTypeOK
  <1> QED
    BY <1>1, EmitFacts DEF Asks, SessionTypeOK

\* What closeConnection does, whatever calls it.
LEMMA CloseFacts ==
    ASSUME SessionTypeOK, closeConnection
    PROVE  /\ commands' \in [Connection -> Seq(Command)]
           /\ connection = 0 => UNCHANGED <<connection, server_info, commands>> /\ ended' = "assert"
           /\ connection # 0 => /\ connection \in Connection /\ emit(connection, "close")
                                /\ connection' = 0 /\ server_info' = {} /\ ended' = ended
  <1>1. connection # 0 => connection \in Connection
    BY ConnectionFacts DEF SessionTypeOK
  <1>2. "close" \in Command
    BY DEF Command
  <1>3. CASE connection = 0
    BY <1>3 DEF closeConnection, SessionTypeOK
  <1>4. CASE connection # 0
    <2>1. emit(connection, "close") /\ connection' = 0 /\ server_info' = {} /\ ended' = ended
      BY <1>4 DEF closeConnection
    <2>2. commands' \in [Connection -> Seq(Command)]
      BY <1>1, <1>2, <1>4, <2>1, EmitFacts
    <2> QED
      BY <1>1, <1>4, <2>1, <2>2
  <1> QED
    BY <1>3, <1>4

\* The window takes its next signal.
LEMMA HandlesFacts ==
    ASSUME SessionTypeOK, NEW what, Handles(what)
    PROVE  /\ signals' \in Seq(Signal) /\ Head(signals) \in Signal /\ Head(signals).what = what
           /\ Head(signals).from \in Connection
           /\ Len(signals) \in Nat \ {0} /\ DOMAIN signals = 1..Len(signals) /\ Head(signals) = signals[1]
           /\ DOMAIN signals' = 1..(Len(signals) - 1) /\ Len(signals') = Len(signals) - 1
           /\ \A i \in 1..(Len(signals) - 1) : signals'[i] = signals[i + 1]
           /\ UNCHANGED <<opened, thread, exiting, answers, hasty, clicks, repeats>>
  <1>1. signals \in Seq(Signal) /\ signals # << >> /\ signals' = Tail(signals)
    BY DEF Handles, SessionTypeOK
  <1>2. Head(signals) \in Signal
    BY <1>1, TailFacts
  <1>3. Head(signals).from \in Connection
    BY <1>2 DEF Signal
  <1> QED
    BY <1>1, <1>2, <1>3, TailFacts DEF Handles, userVars

LEMMA PostFacts ==
    ASSUME SessionTypeOK, NEW c \in Connection, NEW what \in AnswerKind \union {"fatal"}, Post(c, what)
    PROVE  /\ signals' \in Seq(Signal) /\ Len(signals') = Len(signals) + 1 /\ Len(signals) \in Nat
           /\ DOMAIN signals = 1..Len(signals) /\ DOMAIN signals' = 1..(Len(signals) + 1)
           /\ signals'[Len(signals) + 1].from = c /\ signals'[Len(signals) + 1].what = what
           /\ \A i \in 1..Len(signals) : signals'[i] = signals[i]
  <1>1. signals \in Seq(Signal)
    BY DEF SessionTypeOK
  <1> DEFINE new == [from |-> c, what |-> what]
  <1>2. new \in Signal /\ new.from = c /\ new.what = what
    BY DEF Signal
  <1>3. signals' = Append(signals, new)
    BY DEF Post
  <1> HIDE DEF new
  <1> QED
    BY <1>1, <1>2, <1>3, AppendFacts

LEMMA SessionTypeStep ==
    ASSUME SessionTypeOK, [SessionNext]_sessionVars
    PROVE  SessionTypeOK'
  <1> USE ConnectionFacts
  <1>a. {"close", "info", "data", "changed"} \subseteq Command
    BY DEF Command
  <1>1. CASE onConnect
    <2>0. opened \in 0..MaxConnections /\ opened < MaxConnections
      BY <1>1 DEF onConnect, SessionTypeOK
    <2>1. opened + 1 \in Connection
      BY <2>0 DEF Connection
    <2>2. thread' \in [Connection -> {"none", "starting", "looking up", "deaf", "ready", "stopped"}]
      BY <1>1, <2>1 DEF onConnect, SessionTypeOK
    <2> QED
      BY <1>1, <2>1, <2>2 DEF onConnect, SessionTypeOK, userVars
  <1>2. CASE onClose
    <2>1. hasty' \in BOOLEAN
      BY <1>2 DEF onClose, SessionTypeOK, Busy
    <2> QED
      BY <1>2, <2>1, CloseFacts DEF onClose, SessionTypeOK
  <1>3. CASE onQuit
    <2>1. connection' = 0 /\ server_info' \in SUBSET Connection
      BY <1>3 DEF onQuit, SessionTypeOK
    <2>2. commands' \in [Connection -> Seq(Command)]
      <3>1. CASE connection = 0
        BY <1>3, <3>1 DEF onQuit, SessionTypeOK
      <3>2. CASE connection # 0
        <4>1. connection \in Connection /\ emit(connection, "close")
          BY <1>3, <3>2 DEF onQuit, SessionTypeOK
        <4> QED
          BY <1>a, <4>1, EmitFacts
      <3> QED
        BY <3>1, <3>2
    <2> QED
      BY <1>3, <2>1, <2>2 DEF onQuit, SessionTypeOK, userVars
  <1>4. CASE onClick
    <2>1. PICK command \in {"data", "changed"} : Asks(command)
      BY <1>4 DEF onClick
    <2>2. commands' \in [Connection -> Seq(Command)] /\ ended' \in {ended, "null connection"}
      BY <2>1, <1>a, AsksFacts
    <2>3. UNCHANGED <<connection, server_info, signals, opened, thread, exiting, answers, hasty, repeats>>
      BY <1>4 DEF onClick
    <2>4. clicks' = clicks + 1 /\ clicks \in Nat
      BY <1>4 DEF onClick, SessionTypeOK
    <2>5. clicks' \in Nat
      BY <2>4
    <2>6. ended' \in {"no", "quit", "assert", "null connection", "null server_info"}
      BY <2>2 DEF SessionTypeOK
    <2> QED
      BY <2>2, <2>3, <2>5, <2>6 DEF SessionTypeOK
  <1>5. CASE onConnectionFatal
    <2>1. Handles("fatal") /\ closeConnection
      BY <1>5 DEF onConnectionFatal
    <2> QED
      BY <2>1, CloseFacts, HandlesFacts DEF SessionTypeOK
  <1>6. CASE onMonitoringBalancerServerInfoAnswer
    <2>1. /\ Handles("info") /\ server_info' = server_info \union {Head(signals).from} /\ UNCHANGED connection
          /\ Asks("data") \/ UNCHANGED <<commands, ended>>
      BY <1>6 DEF onMonitoringBalancerServerInfoAnswer
    <2>2. commands' \in [Connection -> Seq(Command)] /\ ended' \in {ended, "null connection"}
      BY <2>1, <1>a, AsksFacts DEF SessionTypeOK
    <2> QED
      BY <2>1, <2>2, HandlesFacts DEF SessionTypeOK
  <1>7. CASE onMonitoringDataAnswer
    <2>1. /\ Handles("data") /\ UNCHANGED connection
          /\ server_info' \in {server_info, server_info \union {Head(signals).from}}
          /\ Asks("data") \/ (UNCHANGED commands /\ ended' \in {ended, "null server_info"})
      BY <1>7 DEF onMonitoringDataAnswer
    <2>2. commands' \in [Connection -> Seq(Command)]
          /\ ended' \in {ended, "null connection", "null server_info"}
      BY <2>1, <1>a, AsksFacts DEF SessionTypeOK
    <2> QED
      BY <2>1, <2>2, HandlesFacts DEF SessionTypeOK
  <1>8. CASE onMonitoringChangeAnswer
    <2>1. /\ Handles("changed") /\ UNCHANGED <<connection, server_info>>
          /\ Asks("info") \/ UNCHANGED <<commands, ended>>
      BY <1>8 DEF onMonitoringChangeAnswer
    <2>2. commands' \in [Connection -> Seq(Command)] /\ ended' \in {ended, "null connection"}
      BY <2>1, <1>a, AsksFacts DEF SessionTypeOK
    <2> QED
      BY <2>1, <2>2, HandlesFacts DEF SessionTypeOK
  <1>9. ASSUME NEW c \in Connection, onThreadStart(c) PROVE SessionTypeOK'
    BY <1>9 DEF onThreadStart, SessionTypeOK, windowVars, userVars
  <1>10. ASSUME NEW c \in Connection, onResolve(c) PROVE SessionTypeOK'
    <2>0. answers \in [Connection -> SUBSET AnswerKind] /\ {"info", "data"} \in SUBSET AnswerKind
      BY DEF SessionTypeOK, AnswerKind
    <2>1. answers' \in [Connection -> SUBSET AnswerKind]
      BY <1>10, <2>0 DEF onResolve
    <2>2. thread' \in [Connection -> {"none", "starting", "looking up", "deaf", "ready", "stopped"}]
      BY <1>10 DEF onResolve, SessionTypeOK
    <2>3. UNCHANGED <<connection, server_info, opened, ended, commands, exiting, hasty, clicks, repeats>>
          /\ (Post(c, "fatal") \/ UNCHANGED signals)
      BY <1>10 DEF onResolve, userVars
    <2>4. signals' \in Seq(Signal)
      BY <2>3, PostFacts DEF SessionTypeOK
    <2> QED
      BY <2>1, <2>2, <2>3, <2>4 DEF SessionTypeOK
  <1>11. ASSUME NEW c \in Connection, onCommand(c) PROVE SessionTypeOK'
    <2>1. commands' \in [Connection -> Seq(Command)] /\ Head(commands[c]) \in Command
      BY <1>11, TakeFacts DEF onCommand
    <2>2. \A command \in Command \ {"close"} : Answers(command) \subseteq AnswerKind
      BY DEF Answers, Command, AnswerKind
    <2>3. exiting' \in SUBSET Connection
      BY <1>11 DEF onCommand, SessionTypeOK
    <2>4. answers \in [Connection -> SUBSET AnswerKind] /\ answers[c] \in SUBSET AnswerKind
      BY DEF SessionTypeOK
    <2>5. CASE Head(commands[c]) = "close"
      BY <1>11, <2>1, <2>3, <2>5 DEF onCommand, SessionTypeOK, windowVars, userVars
    <2>6. CASE Head(commands[c]) # "close"
      <3> DEFINE asked == IF thread[c] = "ready" THEN Answers(Head(commands[c])) ELSE {}
      <3>1. asked \in SUBSET AnswerKind
        BY <2>1, <2>2, <2>6
      <3>2. answers' = [answers EXCEPT ![c] = @ \union asked]
        BY <1>11, <2>6 DEF onCommand
      <3> HIDE DEF asked
      <3>3. answers' \in [Connection -> SUBSET AnswerKind]
        BY <2>4, <3>1, <3>2
      <3> QED
        BY <1>11, <2>1, <2>3, <3>3 DEF onCommand, SessionTypeOK, windowVars, userVars
    <2> QED
      BY <2>5, <2>6
  <1>12. ASSUME NEW c \in Connection, onReadyRead(c) PROVE SessionTypeOK'
    <2>1. PICK what \in answers[c] :
             /\ Post(c, what)
             /\ \/ answers' = [answers EXCEPT ![c] = @ \ {what}] /\ UNCHANGED repeats
                \/ repeats < MaxRepeats /\ repeats' = repeats + 1 /\ UNCHANGED answers
      BY <1>12 DEF onReadyRead
    <2>0. answers \in [Connection -> SUBSET AnswerKind] /\ repeats \in Nat
      BY DEF SessionTypeOK
    <2>2. answers' \in [Connection -> SUBSET AnswerKind] /\ repeats' \in Nat /\ what \in AnswerKind
      BY <2>0, <2>1
    <2>3. signals' \in Seq(Signal)
      BY <2>1, <2>2, PostFacts
    <2>4. UNCHANGED <<connection, server_info, opened, ended, thread, commands, exiting, hasty, clicks>>
      BY <1>12 DEF onReadyRead
    <2> QED
      BY <2>2, <2>3, <2>4 DEF SessionTypeOK
  <1>13. ASSUME NEW c \in Connection, Lost(c) PROVE SessionTypeOK'
    BY <1>13 DEF Lost, SessionTypeOK, windowVars, userVars
  <1>14. ASSUME NEW c \in Connection, Exits(c) PROVE SessionTypeOK'
    BY <1>14 DEF Exits, SessionTypeOK, windowVars, userVars
  <1>15. CASE UNCHANGED sessionVars
    BY <1>15 DEF sessionVars, windowVars, threadVars, userVars, SessionTypeOK
  <1> QED
    BY <1>1, <1>2, <1>3, <1>4, <1>5, <1>6, <1>7, <1>8, <1>9, <1>10, <1>11, <1>12, <1>13, <1>14, <1>15
    DEF SessionNext, WindowNext, ThreadNext

-----------------------------------------------------------------------------
LEMMA OpenedFacts ==
    ASSUME SessionTypeOK
    PROVE  /\ 1..opened \subseteq Connection /\ opened \in Nat /\ connection \in Nat
           /\ connection # 0 => connection \in Connection
           /\ Connection \subseteq Nat \ {0}
  <1>1. MaxConnections \in Nat /\ opened \in 0..MaxConnections /\ connection \in 0..MaxConnections
    BY ConnectionFacts DEF SessionTypeOK
  <1> QED
    BY <1>1 DEF Connection

\* Whom a signal tells to close.
LEMMA EmitTold ==
    ASSUME SessionTypeOK, NEW c \in Connection, NEW command \in Command, emit(c, command),
           UNCHANGED exiting
    PROVE  \A d \in Connection : Told(d)' <=> Told(d) \/ (d = c /\ command = "close")
  <1> SUFFICES ASSUME NEW d \in Connection
               PROVE  Told(d)' <=> Told(d) \/ (d = c /\ command = "close")
    OBVIOUS
  <1>1. CASE d # c
    BY <1>1, EmitFacts DEF Told
  <1>2. CASE d = c
    <2> DEFINE n == Len(commands[c])
    <2>1. /\ n \in Nat /\ DOMAIN commands[c] = 1..n /\ DOMAIN commands'[c] = 1..(n + 1)
          /\ commands'[c][n + 1] = command /\ \A i \in 1..n : commands'[c][i] = commands[c][i]
      BY EmitFacts
    <2> HIDE DEF n
    <2>2. 1..(n + 1) = 1..n \union {n + 1}
      BY <2>1
    <2>3. (\E i \in 1..(n + 1) : commands'[c][i] = "close")
             <=> (\E i \in 1..n : commands[c][i] = "close") \/ command = "close"
      BY <2>1, <2>2
    <2> QED
      BY <1>2, <2>1, <2>3 DEF Told
  <1> QED
    BY <1>1, <1>2

LEMMA TakeTold ==
    ASSUME SessionTypeOK, NEW c \in Connection, onCommand(c)
    PROVE  \A d \in Connection : Told(d)' <=> Told(d)
  <1> SUFFICES ASSUME NEW d \in Connection PROVE Told(d)' <=> Told(d)
    OBVIOUS
  <1>1. commands[c] # << >> /\ commands' = [commands EXCEPT ![c] = Tail(@)]
        /\ exiting' = IF Head(commands[c]) = "close" THEN exiting \union {c} ELSE exiting
    BY DEF onCommand
  <1>2. CASE d # c
    BY <1>1, <1>2, TakeFacts DEF Told
  <1>3. CASE d = c
    <2> DEFINE n == Len(commands[c])
    <2>0. /\ n \in Nat \ {0} /\ DOMAIN commands[c] = 1..n /\ DOMAIN commands'[c] = 1..(n - 1)
          /\ Head(commands[c]) = commands[c][1]
          /\ \A i \in 1..(n - 1) : commands'[c][i] = commands[c][i + 1]
      BY <1>1, TakeFacts
    <2> HIDE DEF n
    <2>1. ASSUME Told(d)' PROVE Told(d)
      <3>1. CASE d \in exiting \/ Head(commands[c]) = "close"
        <4>1. 1 \in DOMAIN commands[c]
          BY <2>0
        <4> QED
          BY <1>3, <2>0, <3>1, <4>1 DEF Told
      <3>2. CASE d \notin exiting /\ Head(commands[c]) # "close"
        <4>1. PICK i \in 1..(n - 1) : commands'[c][i] = "close"
          BY <1>1, <1>3, <2>0, <2>1, <3>2 DEF Told
        <4>2. i + 1 \in DOMAIN commands[c] /\ commands[c][i + 1] = "close"
          BY <2>0, <4>1
        <4> QED
          BY <1>3, <4>2 DEF Told
      <3> QED
        BY <3>1, <3>2
    <2>2. ASSUME Told(d) PROVE Told(d)'
      <3>1. CASE d \in exiting \/ Head(commands[c]) = "close"
        BY <1>1, <1>3, <3>1 DEF Told
      <3>2. CASE d \notin exiting /\ Head(commands[c]) # "close"
        <4>1. PICK i \in 1..n : commands[c][i] = "close"
          BY <1>1, <1>3, <2>0, <2>2, <3>2 DEF Told
        <4>2. i # 1
          BY <2>0, <3>2, <4>1
        <4>3. i - 1 \in 1..(n - 1) /\ (i - 1) + 1 = i
          BY <2>0, <4>1, <4>2
        <4>4. commands'[c][i - 1] = commands[c][i]
          BY <2>0, <4>3
        <4>5. i - 1 \in DOMAIN commands'[c]
          BY <2>0, <4>3
        <4> QED
          BY <1>3, <4>1, <4>4, <4>5 DEF Told
      <3> QED
        BY <3>1, <3>2
    <2> QED
      BY <2>1, <2>2
  <1> QED
    BY <1>2, <1>3

\* Giving the connection up tells it; asking it for something does not.
LEMMA ClosesTold ==
    ASSUME SessionTypeOK, ToldInv, UNCHANGED <<opened, exiting>>, connection \in Connection,
           emit(connection, "close"), connection' = 0
    PROVE  ToldInv'
  <1>1. "close" \in Command
    BY DEF Command
  <1>2. \A d \in Connection : Told(d)' <=> Told(d) \/ d = connection
    BY <1>1, EmitTold
  <1>3. \A d \in Connection \ {connection} : commands'[d] = commands[d]
    BY <1>1, EmitFacts
  <1>4. 1..opened \subseteq Connection /\ 0 <= opened
    BY OpenedFacts
  <1>5. connection <= opened
    BY DEF ToldInv
  <1>6. \A d \in 1..opened' \ {0} : Told(d)'
    BY <1>2, <1>4 DEF ToldInv
  <1>7. \A d \in Connection : d > opened' => commands'[d] = << >> /\ d \notin exiting'
    <2> SUFFICES ASSUME NEW d \in Connection, d > opened
                 PROVE  commands'[d] = << >> /\ d \notin exiting
      OBVIOUS
    <2>1. d # connection
      BY <1>5, OpenedFacts
    <2> QED
      BY <2>1, <1>3 DEF ToldInv
  <1> QED
    BY <1>4, <1>6, <1>7 DEF ToldInv

LEMMA AsksTold ==
    ASSUME SessionTypeOK, ToldInv, UNCHANGED <<opened, exiting, connection>>,
           NEW command \in Command \ {"close"},
           Asks(command) \/ UNCHANGED commands
    PROVE  ToldInv'
  <1>1. CASE UNCHANGED commands
    BY <1>1 DEF ToldInv, Told
  <1>2. CASE Asks(command)
    <2>1. CASE connection = 0
      BY <1>2, <2>1, AsksFacts DEF ToldInv, Told
    <2>2. CASE connection # 0
      <3>1. connection \in Connection /\ emit(connection, command)
        BY <1>2, <2>2, AsksFacts
      <3>2. \A d \in Connection : Told(d)' <=> Told(d)
        BY <3>1, EmitTold
      <3>3. \A d \in Connection \ {connection} : commands'[d] = commands[d]
        BY <3>1, EmitFacts
      <3>4. 1..opened \subseteq Connection
        BY OpenedFacts
      <3>5. \A d \in Connection : d > opened => d # connection
        BY OpenedFacts DEF ToldInv
      <3>6. \A d \in Connection : d > opened' => commands'[d] = << >> /\ d \notin exiting'
        BY <3>3, <3>5 DEF ToldInv
      <3>7. ~Told(connection)' /\ (\A d \in 1..opened \ {connection} : Told(d)')
        BY <2>2, <3>1, <3>2, <3>4 DEF ToldInv
      <3> QED
        BY <3>6, <3>7 DEF ToldInv, Told
    <2> QED
      BY <2>1, <2>2
  <1> QED
    BY <1>1, <1>2

LEMMA ToldStep ==
    ASSUME SessionTypeOK, ToldInv, [SessionNext]_sessionVars
    PROVE  ToldInv'
  <1>1. CASE onConnect
    <2>1. opened \in 0..MaxConnections /\ opened < MaxConnections /\ connection = 0
          /\ opened' = opened + 1 /\ connection' = opened + 1 /\ UNCHANGED <<commands, exiting>>
      BY <1>1 DEF onConnect, SessionTypeOK
    <2>2. opened + 1 \in Connection /\ 1..(opened + 1) \ {opened + 1} \subseteq 1..opened \ {0}
          /\ opened + 1 > opened
      BY <2>1, ConnectionFacts DEF Connection
    <2>3. \A d : Told(d)' <=> Told(d)
      BY <2>1 DEF Told
    <2>4. ~Told(opened + 1)
      BY <2>2 DEF ToldInv, Told
    <2>5. \A d \in Connection : d > opened' => d > opened
      BY <2>1, ConnectionFacts DEF Connection
    <2>6. \A d \in 1..(opened + 1) \ {opened + 1} : Told(d)'
      BY <2>1, <2>2, <2>3 DEF ToldInv
    <2>7. \A d \in Connection : d > opened' => commands'[d] = << >> /\ d \notin exiting'
      BY <2>1, <2>5 DEF ToldInv
    <2>8. connection' <= opened'
      BY <2>1, OpenedFacts
    <2>9. ~Told(connection)'
      BY <2>1, <2>4 DEF Told
    <2>10. \A d \in 1..opened' \ {connection'} : Told(d)'
      BY <2>1, <2>6
    <2> QED
      BY <2>7, <2>8, <2>9, <2>10 DEF ToldInv, Told
  <1>2. CASE onClose
    <2>1. connection # 0 /\ closeConnection /\ UNCHANGED <<opened, exiting>>
      BY <1>2 DEF onClose
    <2> QED
      BY <2>1, CloseFacts, ClosesTold
  <1>3. CASE onQuit
    <2>1. CASE connection = 0
      BY <1>3, <2>1 DEF onQuit, ToldInv, Told
    <2>2. CASE connection # 0
      <3>1. emit(connection, "close") /\ connection' = 0 /\ UNCHANGED <<opened, exiting>>
        BY <1>3, <2>2 DEF onQuit
      <3>2. connection \in Connection
        BY <2>2, ConnectionFacts DEF SessionTypeOK
      <3> QED
        BY <3>1, <3>2, ClosesTold
    <2> QED
      BY <2>1, <2>2
  <1>a. {"info", "data", "changed"} \subseteq Command \ {"close"}
    BY DEF Command
  <1>4. CASE onClick
    <2>1. PICK command \in {"data", "changed"} : Asks(command)
      BY <1>4 DEF onClick
    <2>2. UNCHANGED <<opened, exiting, connection>>
      BY <1>4 DEF onClick
    <2> QED
      BY <1>a, <2>1, <2>2, AsksTold
  <1>5. CASE onConnectionFatal
    <2>1. Handles("fatal") /\ closeConnection /\ UNCHANGED <<opened, exiting>>
      BY <1>5 DEF onConnectionFatal, Handles
    <2>2. CASE connection = 0
      BY <2>1, <2>2, CloseFacts DEF ToldInv, Told
    <2>3. CASE connection # 0
      BY <2>1, <2>3, CloseFacts, ClosesTold
    <2> QED
      BY <2>2, <2>3
  <1>6. CASE onMonitoringBalancerServerInfoAnswer
    BY <1>6, <1>a, AsksTold DEF onMonitoringBalancerServerInfoAnswer, Handles
  <1>7. CASE onMonitoringDataAnswer
    BY <1>7, <1>a, AsksTold DEF onMonitoringDataAnswer, Handles
  <1>8. CASE onMonitoringChangeAnswer
    BY <1>8, <1>a, AsksTold DEF onMonitoringChangeAnswer, Handles
  <1>9. ASSUME UNCHANGED <<connection, opened, commands, exiting>> PROVE ToldInv'
    BY <1>9 DEF ToldInv, Told
  <1>10. ASSUME NEW c \in Connection, ThreadNext(c), ~onCommand(c) PROVE ToldInv'
    BY <1>9, <1>10 DEF ThreadNext, onThreadStart, onResolve, onReadyRead, Lost, Exits, windowVars
  <1>11. ASSUME NEW c \in Connection, onCommand(c) PROVE ToldInv'
    <2>1. UNCHANGED <<connection, opened>>
      BY <1>11 DEF onCommand, windowVars
    <2>2. \A d \in Connection : Told(d)' <=> Told(d)
      BY <1>11, TakeTold
    <2>3. commands[c] # << >> /\ commands' = [commands EXCEPT ![c] = Tail(@)]
          /\ exiting' \subseteq exiting \union {c}
      BY <1>11 DEF onCommand
    <2>4. \A d \in Connection \ {c} : commands'[d] = commands[d]
      BY <2>3, TakeFacts
    <2>5. \A d \in Connection : d > opened' => commands'[d] = << >> /\ d \notin exiting'
      BY <2>1, <2>3, <2>4 DEF ToldInv
    <2>6. 1..opened \subseteq Connection /\ (connection # 0 => connection \in Connection)
      BY OpenedFacts
    <2>7. \A d \in 1..opened' \ {connection'} : Told(d)'
      BY <2>1, <2>2, <2>6 DEF ToldInv
    <2>8. connection' # 0 => ~Told(connection)'
      BY <2>1, <2>2, <2>6 DEF ToldInv, Told
    <2> QED
      BY <2>1, <2>5, <2>7, <2>8 DEF ToldInv, Told
  <1>12. CASE UNCHANGED sessionVars
    BY <1>9, <1>12 DEF sessionVars, windowVars, threadVars
  <1> QED
    BY <1>1, <1>2, <1>3, <1>4, <1>5, <1>6, <1>7, <1>8, <1>10, <1>11, <1>12 DEF SessionNext, WindowNext

-----------------------------------------------------------------------------
\* The window's connection is open and does what it likes; the others rest.
LEMMA ReadyStep ==
    ASSUME PatientInv, connection # 0, thread[connection] = "ready", UNCHANGED <<connection, thread>>,
           \A d \in Connection \ {connection} : commands'[d] = commands[d] /\ answers'[d] = answers[d],
           \A i \in DOMAIN signals' : signals'[i].from = connection /\ signals'[i].what # "fatal"
    PROVE  PatientInv'
  <1>1. \A d \in Connection \ {connection'} : Quiet(d)'
    <2> SUFFICES ASSUME NEW d \in Connection, d # connection PROVE Quiet(d)'
      OBVIOUS
    <2>1. Quiet(d)
      BY DEF PatientInv
    <2> QED
      BY <2>1 DEF Quiet
  <1> QED
    BY <1>1 DEF PatientInv

\* A slot of the window asks the open connection for something, or does not.
LEMMA AskStep ==
    ASSUME SessionTypeOK, PatientInv, connection # 0, thread[connection] = "ready",
           UNCHANGED <<connection, thread, answers>>,
           NEW command \in Command, Asks(command) \/ UNCHANGED <<commands, ended>>,
           \A i \in DOMAIN signals' : signals'[i].from = connection /\ signals'[i].what # "fatal"
    PROVE  PatientInv' /\ ended' = ended
  <1>1. \A d \in Connection \ {connection} : commands'[d] = commands[d]
    <2>1. CASE Asks(command)
      <3>1. connection \in Connection /\ emit(connection, command)
        BY <2>1, AsksFacts
      <3> QED
        BY <3>1, EmitFacts
    <2>2. CASE UNCHANGED <<commands, ended>>
      BY <2>2
    <2> QED
      BY <2>1, <2>2
  <1>2. ended' = ended
    BY AsksFacts
  <1> QED
    BY <1>1, <1>2, ReadyStep

\* An answer is handled: it is of the open connection.
LEMMA AnswerIsOwn ==
    ASSUME SessionTypeOK, PatientInv, NEW what, Handles(what)
    PROVE  /\ connection # 0 /\ Head(signals).from = connection
           /\ what # "fatal" => /\ thread[connection] = "ready"
                                /\ \A i \in DOMAIN signals' :
                                      signals'[i].from = connection /\ signals'[i].what # "fatal"
           /\ what = "fatal" => thread[connection] = "deaf" /\ Unheard /\ signals' = << >>
  <1> DEFINE n == Len(signals)
  <1>1. /\ signals' \in Seq(Signal) /\ n \in Nat \ {0} /\ DOMAIN signals = 1..n /\ Head(signals) = signals[1]
        /\ signals[1].what = what /\ DOMAIN signals' = 1..(n - 1) /\ Len(signals') = n - 1
        /\ \A i \in 1..(n - 1) : signals'[i] = signals[i + 1]
    BY HandlesFacts
  <1>2. signals # << >>
    BY DEF Handles
  <1> HIDE DEF n
  <1>3. 1 \in DOMAIN signals /\ \A i \in 1..(n - 1) : i + 1 \in DOMAIN signals
    BY <1>1
  <1>4. connection # 0 /\ signals[1].from = connection
    BY <1>2, <1>3 DEF PatientInv
  <1>5. CASE what # "fatal"
    <2>1. thread[connection] = "ready"
      BY <1>1, <1>2, <1>3, <1>4, <1>5 DEF PatientInv, Unheard
    <2>2. \A i \in DOMAIN signals : signals[i].from = connection /\ signals[i].what # "fatal"
      BY <1>4, <2>1 DEF PatientInv
    <2> QED
      BY <1>1, <1>3, <1>4, <1>5, <2>1, <2>2
  <1>6. CASE what = "fatal"
    <2>1. thread[connection] # "ready"
      BY <1>1, <1>3, <1>4, <1>6 DEF PatientInv
    <2>2. Unheard
      BY <1>4, <2>1 DEF PatientInv
    <2>3. thread[connection] = "deaf" /\ Len(signals) <= 1
      BY <1>2, <2>2 DEF Unheard
    <2>4. Len(signals') = 0
      BY <1>1, <2>3 DEF n
    <2>5. signals' = << >>
      BY <1>1, <2>4
    <2> QED
      BY <1>1, <1>4, <1>6, <2>2, <2>3, <2>5
  <1> QED
    BY <1>5, <1>6

\* The connection that is given up has nothing left to say.
LEMMA CloseStep ==
    ASSUME SessionTypeOK, PatientInv, connection \in Connection, emit(connection, "close"), connection' = 0,
           UNCHANGED <<thread, answers>>, signals' = << >>,
           thread[connection] \notin {"starting", "looking up"}, answers[connection] = {},
           commands[connection] = << >>
    PROVE  PatientInv'
  <1>1. "close" \in Command
    BY DEF Command
  <1>2. \A d \in Connection \ {connection} : commands'[d] = commands[d]
    BY <1>1, EmitFacts
  <1>3. PICK c \in Connection : c = connection
    OBVIOUS
  <1>4. DOMAIN commands'[c] = {1} /\ commands'[c][1] = "close"
    <2>1. Len(commands[c]) = 0
      BY <1>3, EmptyFacts
    <2>2. emit(c, "close")
      BY <1>3
    <2>3. /\ DOMAIN commands'[c] = 1..(Len(commands[c]) + 1)
          /\ commands'[c][Len(commands[c]) + 1] = "close"
      BY <1>1, <2>2, EmitFacts
    <2>4. 1..(Len(commands[c]) + 1) = {1} /\ Len(commands[c]) + 1 = 1
      BY <2>1, OneElement
    <2> QED
      BY <2>3, <2>4
  <1>5. Quiet(c)'
    BY <1>3, <1>4 DEF Quiet
  <1>6. ASSUME NEW d \in Connection, d # c PROVE Quiet(d)'
    <2>1. Quiet(d)
      BY <1>3, <1>6 DEF PatientInv
    <2> QED
      BY <1>2, <1>3, <1>6, <2>1 DEF Quiet
  <1>7. \A d \in Connection \ {connection'} : Quiet(d)'
    BY <1>5, <1>6
  <1>8. DOMAIN signals' = {}
    BY EmptyFacts
  <1> QED
    BY <1>7, <1>8 DEF PatientInv

PatientStepGoal ==
    /\ CallsNeedHaste' /\ OneBalancerShown'
    /\ ended' = "no" /\ ~hasty' => PatientInv'

LEMMA WindowStep ==
    ASSUME SessionTypeOK, ToldInv, OneBalancerShown, PatientInv, ended = "no", ~hasty, WindowNext
    PROVE  PatientStepGoal
  <1>0. server_info \subseteq {connection} /\ server_info \subseteq Connection /\ 0 \notin Connection
        /\ (connection # 0 => connection \in Connection)
    BY ConnectionFacts, OpenedFacts DEF OneBalancerShown, SessionTypeOK
  <1>a. {"close", "info", "data", "changed"} \subseteq Command
    BY DEF Command
  <1>1. CASE onConnect
    <2>1. /\ connection = 0 /\ connection' = opened + 1 /\ opened < MaxConnections
          /\ thread' = [thread EXCEPT ![opened + 1] = "starting"]
          /\ UNCHANGED <<server_info, signals, commands, answers, ended, hasty>>
      BY <1>1 DEF onConnect, userVars
    <2>2. opened + 1 \in Connection /\ opened + 1 > opened /\ opened + 1 # 0
      BY <2>1, OpenedFacts, ConnectionFacts DEF Connection
    <2>3. server_info = {} /\ signals = << >>
      BY <1>0, <2>1 DEF PatientInv
    <2>4. commands[opened + 1] = << >> /\ answers[opened + 1] = {}
      BY <1>0, <2>1, <2>2 DEF ToldInv, PatientInv, Quiet
    <2>5. thread'[opened + 1] = "starting" /\ \A d \in Connection \ {opened + 1} : thread'[d] = thread[d]
      BY <2>1, <2>2 DEF SessionTypeOK
    <2>6. \A d \in Connection \ {connection'} : Quiet(d)'
      <3> SUFFICES ASSUME NEW d \in Connection, d # opened + 1 PROVE Quiet(d)'
        BY <2>1
      <3>1. Quiet(d)
        BY <1>0, <2>1 DEF PatientInv
      <3> QED
        BY <2>1, <2>5, <3>1 DEF Quiet
    <2>7. Unheard'
      BY <2>1, <2>3, <2>4, <2>5 DEF Unheard
    <2>8. PatientInv'
      BY <2>1, <2>2, <2>3, <2>5, <2>6, <2>7, EmptyFacts DEF PatientInv
    <2> QED
      BY <2>1, <2>3, <2>8 DEF PatientStepGoal, CallsNeedHaste, OneBalancerShown
  <1>2. CASE onClose
    <2>1. connection # 0 /\ closeConnection /\ hasty' = (hasty \/ Busy(connection))
          /\ UNCHANGED <<signals, thread, answers>>
      BY <1>2 DEF onClose
    <2>2. connection \in Connection /\ emit(connection, "close") /\ connection' = 0 /\ server_info' = {}
          /\ ended' = ended
      BY <2>1, CloseFacts
    <2>3. ASSUME ~hasty' PROVE PatientInv'
      <3>1. ~Busy(connection)
        BY <2>1, <2>3
      <3>2. /\ thread[connection] \notin {"starting", "looking up"}
            /\ commands[connection] = << >> /\ answers[connection] = {}
            /\ \A i \in DOMAIN signals : signals[i].from # connection
        BY <3>1 DEF Busy
      <3>3. \A i \in DOMAIN signals : FALSE
        BY <3>2 DEF PatientInv
      <3>4. signals = << >>
        BY <3>3, NoElement DEF SessionTypeOK
      <3> QED
        BY <2>1, <2>2, <3>2, <3>4, CloseStep
    <2> QED
      BY <2>2, <2>3 DEF PatientStepGoal, CallsNeedHaste, OneBalancerShown
  <1>3. CASE onQuit
    BY <1>0, <1>3 DEF onQuit, PatientStepGoal, CallsNeedHaste, OneBalancerShown
  <1>4. CASE onClick
    <2>1. PICK command \in {"data", "changed"} : Asks(command)
      BY <1>4 DEF onClick
    <2>2. server_info # {} /\ UNCHANGED <<connection, server_info, signals, thread, answers, hasty>>
      BY <1>4 DEF onClick
    <2>3. connection # 0
      BY <1>0, <2>2
    <2>4. thread[connection] = "ready"
      BY <2>2, <2>3 DEF PatientInv, Unheard
    <2>5. \A i \in DOMAIN signals : signals[i].from = connection /\ signals[i].what # "fatal"
      BY <2>3, <2>4 DEF PatientInv
    <2>6. PatientInv' /\ ended' = ended
      BY <1>a, <2>1, <2>2, <2>3, <2>4, <2>5, AskStep
    <2> QED
      BY <1>0, <2>2, <2>6 DEF PatientStepGoal, CallsNeedHaste, OneBalancerShown
  <1>5. CASE onConnectionFatal
    <2>1. Handles("fatal") /\ closeConnection /\ UNCHANGED <<thread, answers, hasty>>
      BY <1>5 DEF onConnectionFatal, Handles, userVars
    <2>2. connection # 0 /\ thread[connection] = "deaf" /\ Unheard /\ signals' = << >>
      BY <2>1, AnswerIsOwn
    <2>3. connection \in Connection /\ emit(connection, "close") /\ connection' = 0 /\ server_info' = {}
          /\ ended' = ended
      BY <2>1, <2>2, CloseFacts
    <2>4. PatientInv'
      BY <2>1, <2>2, <2>3, CloseStep DEF Unheard
    <2> QED
      BY <2>3, <2>4 DEF PatientStepGoal, CallsNeedHaste, OneBalancerShown
  <1>6. CASE onMonitoringBalancerServerInfoAnswer
    <2>1. /\ Handles("info") /\ server_info' = server_info \union {Head(signals).from} /\ UNCHANGED connection
          /\ Asks("data") \/ UNCHANGED <<commands, ended>>
      BY <1>6 DEF onMonitoringBalancerServerInfoAnswer
    <2>2. UNCHANGED <<thread, answers, hasty>>
      BY <2>1 DEF Handles, userVars
    <2>3. PatientInv' /\ ended' = ended /\ server_info' \subseteq {connection}
      BY <1>0, <1>a, <2>1, <2>2, AnswerIsOwn, AskStep
    <2> QED
      BY <2>1, <2>3 DEF PatientStepGoal, CallsNeedHaste, OneBalancerShown
  <1>7. CASE onMonitoringDataAnswer
    <2>1. Handles("data") /\ UNCHANGED <<connection, thread, answers, hasty>>
      BY <1>7 DEF onMonitoringDataAnswer, Handles, userVars
    <2>2. CASE server_info = {}
      <3>1. ended' = "null server_info" /\ server_info' = {}
        BY <1>7, <2>2 DEF onMonitoringDataAnswer
      <3> QED
        BY <3>1 DEF PatientStepGoal, CallsNeedHaste, OneBalancerShown
    <2>3. CASE server_info # {}
      <3>1. /\ server_info' = server_info \union {Head(signals).from}
            /\ Asks("data") \/ UNCHANGED <<commands, ended>>
        BY <1>7, <2>3 DEF onMonitoringDataAnswer
      <3>2. PatientInv' /\ ended' = ended /\ server_info' \subseteq {connection}
        BY <1>0, <1>a, <2>1, <3>1, AnswerIsOwn, AskStep
      <3> QED
        BY <2>1, <3>2 DEF PatientStepGoal, CallsNeedHaste, OneBalancerShown
    <2> QED
      BY <2>2, <2>3
  <1>8. CASE onMonitoringChangeAnswer
    <2>1. Handles("changed") /\ UNCHANGED <<connection, server_info, thread, answers, hasty>>
          /\ (Asks("info") \/ UNCHANGED <<commands, ended>>)
      BY <1>8 DEF onMonitoringChangeAnswer, Handles, userVars
    <2>2. PatientInv' /\ ended' = ended
      BY <1>a, <2>1, AnswerIsOwn, AskStep
    <2> QED
      BY <1>0, <2>1, <2>2 DEF PatientStepGoal, CallsNeedHaste, OneBalancerShown
  <1> QED
    BY <1>1, <1>2, <1>3, <1>4, <1>5, <1>6, <1>7, <1>8 DEF WindowNext

LEMMA ThreadStep ==
    ASSUME SessionTypeOK, ToldInv, OneBalancerShown, PatientInv, ended = "no", ~hasty,
           NEW c \in Connection, ThreadNext(c)
    PROVE  PatientStepGoal
  <1>0. UNCHANGED <<connection, server_info, ended, hasty>>
    BY DEF ThreadNext, onThreadStart, onResolve, onCommand, onReadyRead, Lost, Exits, windowVars, userVars
  <1>a. c # 0
    BY ConnectionFacts
  <1>b. c # connection => Quiet(c)
    BY DEF PatientInv
  <1>c. SUFFICES PatientInv'
    BY <1>0 DEF PatientStepGoal, CallsNeedHaste, OneBalancerShown
  \* The others stay quiet when only the state of c = connection changes.
  <1>d. ASSUME c = connection, \A d \in Connection \ {c} : thread'[d] = thread[d] /\ commands'[d] = commands[d]
                                                           /\ answers'[d] = answers[d]
        PROVE  \A d \in Connection \ {connection'} : Quiet(d)'
    <2> SUFFICES ASSUME NEW d \in Connection, d # c PROVE Quiet(d)'
      BY <1>0, <1>d
    <2>1. Quiet(d)
      BY <1>d DEF PatientInv
    <2> QED
      BY <1>d, <2>1 DEF Quiet
  <1>1. CASE onThreadStart(c)
    <2>1. /\ thread[c] = "starting" /\ thread' = [thread EXCEPT ![c] = "looking up"]
          /\ UNCHANGED <<commands, answers, signals>>
      BY <1>1 DEF onThreadStart, windowVars
    <2>2. c = connection
      BY <1>b, <2>1 DEF Quiet
    <2>3. thread'[c] = "looking up" /\ \A d \in Connection \ {c} : thread'[d] = thread[d]
      BY <2>1 DEF SessionTypeOK
    <2>4. Unheard /\ signals = << >>
      BY <1>a, <2>1, <2>2 DEF PatientInv, Unheard
    <2>5. Unheard'
      BY <1>0, <2>1, <2>2, <2>3, <2>4 DEF Unheard
    <2>6. \A d \in Connection \ {connection'} : Quiet(d)'
      BY <1>d, <2>1, <2>2, <2>3
    <2> QED
      BY <1>0, <1>a, <2>1, <2>2, <2>3, <2>4, <2>5, <2>6, EmptyFacts DEF PatientInv
  <1>2. CASE onResolve(c)
    <2>1. /\ thread[c] = "looking up" /\ UNCHANGED commands
          /\ \/ thread' = [thread EXCEPT ![c] = "deaf"] /\ Post(c, "fatal") /\ UNCHANGED answers
             \/ /\ thread' = [thread EXCEPT ![c] = "ready"] /\ UNCHANGED signals
                /\ answers' = [answers EXCEPT ![c] = {"info", "data"}]
      BY <1>2 DEF onResolve
    <2>2. c = connection
      BY <1>b, <2>1 DEF Quiet
    <2>3. \A d \in Connection \ {c} : thread'[d] = thread[d] /\ answers'[d] = answers[d]
      BY <2>1 DEF SessionTypeOK
    <2>4. Unheard /\ signals = << >>
      BY <1>a, <2>1, <2>2 DEF PatientInv, Unheard
    <2>5. \A d \in Connection \ {connection'} : Quiet(d)'
      BY <1>d, <2>1, <2>2, <2>3
    <2>6. CASE thread' = [thread EXCEPT ![c] = "deaf"] /\ Post(c, "fatal") /\ UNCHANGED answers
      <3>1. thread'[c] = "deaf"
        BY <2>6 DEF SessionTypeOK
      <3>2. /\ Len(signals') = Len(signals) + 1 /\ DOMAIN signals' = 1..(Len(signals) + 1)
            /\ signals'[Len(signals) + 1].from = c /\ signals'[Len(signals) + 1].what = "fatal"
        BY <2>6, PostFacts
      <3>3. Len(signals) + 1 = 1 /\ 1..(Len(signals) + 1) = {1}
        BY <2>4, EmptyFacts, OneElement
      <3>4. Len(signals') = 1 /\ \A i \in DOMAIN signals' : signals'[i].from = c /\ signals'[i].what = "fatal"
        BY <3>2, <3>3
      <3>5. /\ connection' = c /\ answers'[c] = {} /\ commands'[c] = << >> /\ server_info' = {}
            /\ Len(signals') <= 1
        <4>1. answers[c] = {} /\ commands[c] = << >> /\ server_info = {}
          BY <2>2, <2>4 DEF Unheard
        <4>2. UNCHANGED <<answers, commands, server_info, connection>>
          BY <1>0, <2>1, <2>6
        <4> QED
          BY <2>2, <3>4, <4>1, <4>2
      <3>6. Unheard'
        BY <3>1, <3>4, <3>5 DEF Unheard
      <3> QED
        BY <1>0, <1>a, <2>2, <2>5, <3>1, <3>4, <3>6 DEF PatientInv
    <2>7. CASE thread' = [thread EXCEPT ![c] = "ready"] /\ UNCHANGED signals
      <3>1. thread'[c] = "ready"
        BY <2>7 DEF SessionTypeOK
      <3> QED
        BY <1>0, <1>a, <2>2, <2>4, <2>5, <2>7, <3>1, EmptyFacts DEF PatientInv
    <2> QED
      BY <2>1, <2>6, <2>7
  <1>3. CASE onCommand(c)
    <2>1. /\ thread[c] # "stopped" /\ commands[c] # << >> /\ commands' = [commands EXCEPT ![c] = Tail(@)]
          /\ UNCHANGED <<thread, signals>>
          /\ IF Head(commands[c]) = "close" THEN UNCHANGED answers
             ELSE \E asked : answers' = [answers EXCEPT ![c] = @ \union asked]
      BY <1>3 DEF onCommand, windowVars
    <2> DEFINE n == Len(commands[c])
    <2>2. /\ \A d \in Connection \ {c} : commands'[d] = commands[d] /\ answers'[d] = answers[d]
          /\ n \in Nat \ {0} /\ DOMAIN commands[c] = 1..n /\ Head(commands[c]) = commands[c][1]
          /\ DOMAIN commands'[c] = 1..(n - 1) /\ \A i \in 1..(n - 1) : commands'[c][i] = commands[c][i + 1]
      BY <2>1, TakeFacts DEF SessionTypeOK
    <2> HIDE DEF n
    <2>3. CASE c = connection
      <3>1. thread[c] = "ready"
        BY <1>a, <2>1, <2>3 DEF PatientInv, Unheard
      <3>2. \A i \in DOMAIN signals' : signals'[i].from = connection /\ signals'[i].what # "fatal"
        BY <1>a, <2>1, <2>3, <3>1 DEF PatientInv
      <3> QED
        BY <1>0, <1>a, <2>1, <2>2, <2>3, <3>1, <3>2, ReadyStep
    <2>4. CASE c # connection
      <3>1. Quiet(c)
        BY <1>b, <2>4
      <3>2. 1 \in DOMAIN commands[c] /\ \A i \in 1..(n - 1) : i + 1 \in DOMAIN commands[c]
        BY <2>2
      <3>3. UNCHANGED answers
        BY <2>1, <2>2, <3>1, <3>2 DEF Quiet
      <3>4. Quiet(c)'
        BY <2>1, <2>2, <3>1, <3>2, <3>3 DEF Quiet
      <3>5. \A d \in Connection \ {connection'} : Quiet(d)'
        <4> SUFFICES ASSUME NEW d \in Connection, d # connection, d # c PROVE Quiet(d)'
          BY <1>0, <3>4
        <4>1. Quiet(d)
          BY DEF PatientInv
        <4> QED
          BY <2>1, <2>2, <3>3, <4>1 DEF Quiet
      <3>6. connection # 0 => connection \in Connection
        BY OpenedFacts
      <3>7. CASE connection = 0
        BY <1>0, <2>1, <3>5, <3>7 DEF PatientInv
      <3>8. CASE connection # 0
        <4>1. commands'[connection] = commands[connection]
          BY <2>2, <2>4, <3>6, <3>8
        <4>2. Unheard => Unheard'
          BY <1>0, <2>1, <3>3, <4>1 DEF Unheard
        <4> QED
          BY <1>0, <2>1, <3>5, <3>8, <4>2 DEF PatientInv
      <3> QED
        BY <3>7, <3>8
    <2> QED
      BY <2>3, <2>4
  <1>4. CASE onReadyRead(c)
    <2>1. PICK what \in answers[c] :
             Post(c, what) /\ (answers' = [answers EXCEPT ![c] = @ \ {what}] \/ UNCHANGED answers)
      BY <1>4 DEF onReadyRead
    <2>2. c = connection
      BY <1>b, <2>1 DEF Quiet
    <2>3. thread[c] = "ready" /\ UNCHANGED <<thread, commands>>
      BY <1>4 DEF onReadyRead
    <2>4. what \in AnswerKind /\ \A d \in Connection \ {c} : answers'[d] = answers[d]
      BY <2>1 DEF SessionTypeOK
    <2>5. what # "fatal"
      BY <2>4 DEF AnswerKind
    <2>6. \A i \in DOMAIN signals : signals[i].from = connection /\ signals[i].what # "fatal"
      BY <1>a, <2>2, <2>3 DEF PatientInv
    <2>7. \A i \in DOMAIN signals' : signals'[i].from = connection /\ signals'[i].what # "fatal"
      <3> DEFINE n == Len(signals)
      <3>1. /\ n \in Nat /\ DOMAIN signals = 1..n /\ DOMAIN signals' = 1..(n + 1)
            /\ signals'[n + 1].from = c /\ signals'[n + 1].what = what
            /\ \A i \in 1..n : signals'[i] = signals[i]
        BY <2>1, <2>4, PostFacts
      <3> HIDE DEF n
      <3>2. 1..(n + 1) = 1..n \union {n + 1}
        BY <3>1
      <3> QED
        BY <2>2, <2>5, <2>6, <3>1, <3>2
    <2> QED
      BY <1>0, <1>a, <2>2, <2>3, <2>4, <2>7, ReadyStep
  <1>5. CASE Lost(c)
    <2>1. /\ answers[c] # {} /\ UNCHANGED <<signals, thread, commands>>
          /\ \E rest : answers' = [answers EXCEPT ![c] = rest]
      BY <1>5 DEF Lost, windowVars
    <2>2. c = connection
      BY <1>b, <2>1 DEF Quiet
    <2>3. thread[c] = "ready"
      BY <1>a, <2>1, <2>2 DEF PatientInv, Unheard
    <2>4. \A i \in DOMAIN signals' : signals'[i].from = connection /\ signals'[i].what # "fatal"
      BY <1>a, <2>1, <2>2, <2>3 DEF PatientInv
    <2>5. \A d \in Connection \ {c} : answers'[d] = answers[d]
      BY <2>1 DEF SessionTypeOK
    <2> QED
      BY <1>0, <1>a, <2>1, <2>2, <2>3, <2>4, <2>5, ReadyStep
  <1>6. CASE Exits(c)
    <2>1. c \in exiting /\ thread' = [thread EXCEPT ![c] = "stopped"] /\ UNCHANGED <<signals, commands, answers>>
      BY <1>6 DEF Exits, windowVars
    <2>2. c # connection
      BY <1>a, <2>1 DEF ToldInv, Told
    <2>3. thread'[c] = "stopped" /\ \A d \in Connection \ {c} : thread'[d] = thread[d]
      BY <2>1 DEF SessionTypeOK
    <2>4. \A d \in Connection \ {connection'} : Quiet(d)'
      <3> SUFFICES ASSUME NEW d \in Connection, d # connection PROVE Quiet(d)'
        BY <1>0
      <3>1. Quiet(d)
        BY DEF PatientInv
      <3> QED
        BY <2>1, <2>3, <3>1 DEF Quiet
    <2>5. connection # 0 => thread'[connection] = thread[connection]
      BY <2>2, <2>3, OpenedFacts
    <2>6. connection # 0 /\ Unheard => Unheard'
      BY <1>0, <2>1, <2>5 DEF Unheard
    <2> QED
      BY <1>0, <2>1, <2>4, <2>5, <2>6 DEF PatientInv
  <1> QED
    BY <1>1, <1>2, <1>3, <1>4, <1>5, <1>6 DEF ThreadNext

-----------------------------------------------------------------------------
LEMMA SessionInvStep == SessionInv /\ [SessionNext]_sessionVars => SessionInv'
  <1> SUFFICES ASSUME SessionInv, [SessionNext]_sessionVars PROVE SessionInv'
    OBVIOUS
  <1>1. SessionTypeOK /\ ToldInv /\ CallsNeedHaste /\ OneBalancerShown
        /\ (ended = "no" /\ ~hasty => PatientInv)
    BY DEF SessionInv
  <1>2. SessionTypeOK' /\ ToldInv'
    BY <1>1, SessionTypeStep, ToldStep
  <1>3. CASE UNCHANGED sessionVars
    <2>1. UNCHANGED <<connection, server_info, signals, thread, commands, answers, ended, hasty>>
      BY <1>3 DEF sessionVars, windowVars, threadVars, userVars
    <2>2. CallsNeedHaste' /\ OneBalancerShown'
      BY <1>1, <2>1 DEF CallsNeedHaste, OneBalancerShown
    <2>3. Unheard' <=> Unheard
      BY <2>1 DEF Unheard
    <2>4. \A c : Quiet(c)' <=> Quiet(c)
      BY <2>1 DEF Quiet
    <2>5. PatientInv => PatientInv'
      BY <2>1, <2>3, <2>4 DEF PatientInv
    <2> QED
      BY <1>1, <1>2, <2>1, <2>2, <2>5 DEF SessionInv
  <1>4. CASE SessionNext
    <2>1. ended = "no"
      BY <1>4 DEF SessionNext, WindowNext, ThreadNext, onConnect, onClose, onQuit, onClick, onConnectionFatal,
                  onMonitoringBalancerServerInfoAnswer, onMonitoringDataAnswer, onMonitoringChangeAnswer,
                  Handles, onThreadStart, onResolve, onCommand, onReadyRead, Lost, Exits
    <2>2. CASE hasty
      <3>1. hasty'
        BY <1>4, <2>2 DEF SessionNext, WindowNext, ThreadNext, onConnect, onClose, onQuit, onClick,
                    onConnectionFatal, onMonitoringBalancerServerInfoAnswer, onMonitoringDataAnswer,
                    onMonitoringChangeAnswer, Handles, onThreadStart, onResolve, onCommand, onReadyRead,
                    Lost, Exits, userVars
      <3> QED
        BY <1>2, <3>1 DEF SessionInv, CallsNeedHaste, OneBalancerShown
    <2>3. CASE ~hasty
      <3>1. PatientStepGoal
        BY <1>1, <1>4, <2>1, <2>3, WindowStep, ThreadStep DEF SessionNext
      <3> QED
        BY <1>2, <3>1 DEF PatientStepGoal, SessionInv
    <2> QED
      BY <2>2, <2>3
  <1> QED
    BY <1>3, <1>4

LEMMA SessionInvAlways == SessionSafety => []SessionInv
  <1>1. SessionInit => SessionInv
    BY SessionInitInv
  <1>2. SessionInv /\ [SessionNext]_sessionVars => SessionInv'
    BY SessionInvStep
  <1> QED
    BY <1>1, <1>2, PTL DEF SessionSafety

(***************************************************************************)
(* A user who waits for what he asked before he closes a connection never  *)
(* has the window call through a null connection, or fail its assertion;   *)
(* nor is he shown trees of two balancers at once.                         *)
(***************************************************************************)
THEOREM PatientUserIsSafe == SessionSafety => []PatienceIsSafe
  <1>1. SessionInv => PatienceIsSafe
    BY DEF SessionInv, PatienceIsSafe
  <1> QED
    BY <1>1, SessionInvAlways, PTL

(***************************************************************************)
(* No connection is left behind without the signal to close, whatever the  *)
(* user does and however look-ups fail.                                    *)
(***************************************************************************)
THEOREM NoThreadLeftBehind == SessionSafety => []OthersToldToClose
  <1>1. SessionInv => OthersToldToClose
    BY DEF SessionInv, ToldInv, Told, OthersToldToClose
  <1> QED
    BY <1>1, SessionInvAlways, PTL
=============================================================================
