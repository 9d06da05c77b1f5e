-------------------------- MODULE TransportProofs --------------------------
(***************************************************************************)
(* The packet pool of a process is exact, for any number of buffers,       *)
(* attempts and requests, and a timer leaves an answered request alone.    *)
(***************************************************************************)
EXTENDS Transport, TLAPS

\* A request with a running timer is pending unless it was answered.
TimersAgree ==
    \A n \in DOMAIN infos :
        n \in guaranteed_delivery_map <=> ~infos[n].delivered_ok

TransportInv == TransportTypeOK /\ PoolExact /\ TimersAgree

\* The start state satisfies the inductive invariant.
LEMMA InitKeeps == TransportInit => TransportInv
  BY NumbersAssumption DEF TransportInit, TransportInv, TransportTypeOK,
     PoolExact, TimersAgree, answersInSend, Number, Packet

-----------------------------------------------------------------------------
\* Types

LEMMA SendToTypes ==
    ASSUME NEW b \in Buffers, TransportTypeOK, guaranteedSendTo(b)
    PROVE  TransportTypeOK'
<1> DEFINE n == cur_packet_number + 1
           s == [buffer |-> b, packet |-> request(n), guaranteed |-> TRUE,
                 attempt |-> AttemptCount]
           i == [packet_buffer |-> b, attempt_count |-> AttemptCount,
                 delivered_ok |-> FALSE]
<1>1. /\ n \in Number /\ cur_packet_number' = n
      /\ packet_pool' = packet_pool \union {b}
      /\ content' = [content EXCEPT ![b] = request(n)]
      /\ sends' = sends \union {s}
      /\ infos' = [k \in DOMAIN infos \union {n} |-> IF k = n THEN i ELSE infos[k]]
      /\ guaranteed_delivery_map' = guaranteed_delivery_map \union {n}
      /\ UNCHANGED <<receiving, reached>>
  BY DEF guaranteedSendTo
<1>2. s \in Send /\ i \in Info /\ request(n) \in Packet
  BY <1>1, NumbersAssumption DEF Send, Info, Packet
<1>6. 1 .. cur_packet_number \subseteq 1 .. n /\ n \in 1 .. n
  BY <1>1 DEF TransportTypeOK, Number
<1>7. n \in 0 .. MaxNumber
  BY <1>1 DEF Number
<1> HIDE DEF n, s, i
<1>3. content' \in [Buffers -> Packet]
  BY <1>1, <1>2 DEF TransportTypeOK
<1>4. /\ DOMAIN infos' = DOMAIN infos \union {n}
      /\ \A x \in DOMAIN infos' : infos'[x] \in Info
  BY <1>1, <1>2 DEF TransportTypeOK
<1>5. sends' \subseteq Send
  BY <1>1, <1>2 DEF TransportTypeOK
<1> QED
  BY <1>1, <1>3, <1>4, <1>5, <1>6, <1>7 DEF TransportTypeOK

LEMMA SendEndsTypes ==
    ASSUME NEW s \in sends, TransportTypeOK, SendEnds(s)
    PROVE  TransportTypeOK'
<1>1. s \in Send
  BY DEF TransportTypeOK
<1>2. s.guaranteed => s.packet.packet_number \in Number
  <2> SUFFICES ASSUME s.guaranteed PROVE s.packet.packet_number \in Number
    OBVIOUS
  <2>1. PICK n \in Number : s.packet = request(n)
    BY <1>1 DEF Send
  <2>2. request(n).packet_number = n
    BY DEF request
  <2> QED
    BY <2>1, <2>2
<1>3. packet_pool' \subseteq packet_pool /\ sends' \subseteq sends
  BY DEF SendEnds, completed
<1>4. reached' \subseteq Number
  BY <1>2 DEF TransportTypeOK, SendEnds
<1> QED
  BY <1>3, <1>4 DEF TransportTypeOK, SendEnds

\* onGuaranteedAnswer keeps the timers and their types.
LEMMA AnswerTypes ==
    ASSUME NEW n, TransportTypeOK, onGuaranteedAnswer(n)
    PROVE  /\ DOMAIN infos' = DOMAIN infos
           /\ \A k \in DOMAIN infos : infos'[k] \in Info
           /\ guaranteed_delivery_map' \subseteq DOMAIN infos
  BY DEF TransportTypeOK, onGuaranteedAnswer, Info

LEMMA ReceiveAnswerTypes ==
    ASSUME NEW n \in Number, TransportTypeOK, ReceiveAnswer(n)
    PROVE  TransportTypeOK'
<1>1. onGuaranteedAnswer(n)
  BY DEF ReceiveAnswer
<1> QED
  BY <1>1, AnswerTypes DEF TransportTypeOK, ReceiveAnswer

LEMMA ReceiveRequestTypes ==
    ASSUME NEW n \in OthersNumbers, NEW b \in Buffers, TransportTypeOK,
           ReceiveRequest(n, b)
    PROVE  TransportTypeOK'
<1> DEFINE s == [buffer |-> b, packet |-> answer(n), guaranteed |-> FALSE,
                 attempt |-> 0]
<1>1. /\ onGuaranteedAnswer(n)
      /\ packet_pool' = (packet_pool \ freedBy(n)) \union {b}
      /\ content' = [content EXCEPT ![b] = answer(n)]
      /\ sends' = sends \union {s}
      /\ UNCHANGED <<receiving, cur_packet_number, reached>>
  BY DEF ReceiveRequest, standardSend
<1>2. s \in Send /\ answer(n) \in Packet
  BY DEF Send, Packet
<1> HIDE DEF s
<1>3. content' \in [Buffers -> Packet]
  BY <1>1, <1>2 DEF TransportTypeOK
<1>4. sends' \subseteq Send
  BY <1>1, <1>2 DEF TransportTypeOK
<1> QED
  BY <1>1, <1>3, <1>4, AnswerTypes DEF TransportTypeOK

\* The timer drops a request, or sends it again.
LEMMA ReceiveActionTypes ==
    ASSUME NEW n \in OthersNumbers, NEW b \in Buffers, TransportTypeOK,
           ReceiveAction(n, b)
    PROVE  TransportTypeOK'
<1> DEFINE s == [buffer |-> b, packet |-> answer(n), guaranteed |-> FALSE,
                 attempt |-> 0]
<1>1. /\ packet_pool' = packet_pool \union {b}
      /\ content' = [content EXCEPT ![b] = answer(n)]
      /\ sends' = sends \union {s}
      /\ UNCHANGED <<receiving, cur_packet_number, infos,
                     guaranteed_delivery_map, reached>>
  BY DEF ReceiveAction, standardSend
<1>2. s \in Send /\ answer(n) \in Packet
  BY DEF Send, Packet
<1> HIDE DEF s
<1>3. content' \in [Buffers -> Packet] /\ sends' \subseteq Send
  BY <1>1, <1>2 DEF TransportTypeOK
<1> QED
  BY <1>1, <1>3 DEF TransportTypeOK

LEMMA TimeoutTypes ==
    ASSUME NEW n \in Number, TransportTypeOK, onTimeout(n)
    PROVE  TransportTypeOK'
<1>1. n \in DOMAIN infos /\ infos[n] \in Info
  BY DEF onTimeout, TransportTypeOK
<1>2. UNCHANGED <<receiving, cur_packet_number, content, reached>>
  BY DEF onTimeout
<1>3. CASE dropInfo(n) /\ packet_pool' \subseteq packet_pool /\ UNCHANGED sends
  <2>1. /\ DOMAIN infos' = DOMAIN infos \ {n}
        /\ \A k \in DOMAIN infos' : infos'[k] = infos[k]
    BY <1>3 DEF dropInfo
  <2> QED
    BY <1>2, <1>3, <2>1 DEF TransportTypeOK, dropInfo
<1>4. CASE infos[n].attempt_count > 0 /\ retried(n)
  <2> DEFINE left == infos[n].attempt_count - 1
             s == [buffer |-> infos[n].packet_buffer, packet |-> request(n),
                   guaranteed |-> TRUE, attempt |-> left]
             i == [infos[n] EXCEPT !.attempt_count = left]
  <2>1. left \in 0 .. AttemptCount
    BY <1>1, <1>4, NumbersAssumption DEF Info
  <2>2. infos[n].packet_buffer \in Buffers
    BY <1>1 DEF Info
  <2>3. s \in Send /\ i \in Info
    <3> HIDE DEF left
    <3> QED
      BY <1>1, <2>1, <2>2 DEF Send, Info
  <2>5. /\ infos' = [infos EXCEPT ![n].attempt_count = left]
        /\ sends' = sends \union {s}
        /\ UNCHANGED <<packet_pool, guaranteed_delivery_map>>
    BY <1>4 DEF retried
  <2>6. /\ DOMAIN infos' = DOMAIN infos
        /\ \A k \in DOMAIN infos : infos'[k] \in Info
    BY <1>1, <2>3, <2>5 DEF TransportTypeOK
  <2> QED
    BY <1>2, <2>3, <2>5, <2>6 DEF TransportTypeOK
<1> QED
  BY <1>3, <1>4 DEF onTimeout

-----------------------------------------------------------------------------
\* The pool

\* The buffer of a new request was nobody's.
LEMMA SendToKeepsPool ==
    ASSUME NEW b \in Buffers, TransportInv, guaranteedSendTo(b)
    PROVE  PoolExact' /\ TimersAgree'
<1> DEFINE n == cur_packet_number + 1
<1>1. /\ b \notin packet_pool
      /\ packet_pool' = packet_pool \union {b}
      /\ answersInSend' = answersInSend
      /\ guaranteed_delivery_map' = guaranteed_delivery_map \union {n}
  BY DEF guaranteedSendTo, answersInSend
<1>2. n \notin DOMAIN infos
  BY DEF TransportInv, TransportTypeOK
<1>3. /\ DOMAIN infos' = DOMAIN infos \union {n}
      /\ infos'[n].packet_buffer = b /\ ~infos'[n].delivered_ok
      /\ \A k \in DOMAIN infos : infos'[k] = infos[k]
  BY <1>2 DEF guaranteedSendTo
<1> HIDE DEF n
<1>4. PoolExact'
  BY <1>1, <1>2, <1>3 DEF TransportInv, PoolExact, TransportTypeOK
<1>5. TimersAgree'
  BY <1>1, <1>2, <1>3 DEF TransportInv, TimersAgree
<1> QED
  BY <1>4, <1>5

\* Only the send of an answer gives a buffer back, and it is its own.
LEMMA SendEndsKeepsPool ==
    ASSUME NEW s \in sends, TransportInv, SendEnds(s)
    PROVE  PoolExact' /\ TimersAgree'
<1>1. UNCHANGED <<infos, guaranteed_delivery_map>>
  BY DEF SendEnds
<1>2. s.guaranteed \in BOOLEAN
  BY DEF TransportInv, TransportTypeOK, Send
<1>3. CASE s.guaranteed
  <2>1. packet_pool' = packet_pool /\ answersInSend' = answersInSend
    BY <1>3 DEF SendEnds, completed, answersInSend
  <2> QED
    BY <1>1, <2>1 DEF TransportInv, PoolExact, TimersAgree
<1>4. CASE ~s.guaranteed
  <2>1. /\ s \in answersInSend
        /\ packet_pool' = packet_pool \ {s.buffer}
        /\ answersInSend' = answersInSend \ {s}
    BY <1>4 DEF SendEnds, completed, answersInSend
  <2> QED
    BY <1>1, <2>1 DEF TransportInv, PoolExact, TimersAgree
<1> QED
  BY <1>2, <1>3, <1>4

\* A pending request that is answered gives back exactly its own buffer.
LEMMA AnswerFrees ==
    ASSUME NEW n, TransportInv, onGuaranteedAnswer(n)
    PROVE  /\ TimersAgree'
           /\ guaranteed_delivery_map' = guaranteed_delivery_map \ {n}
           /\ \A k \in guaranteed_delivery_map' : infos'[k] = infos[k]
           /\ packet_pool \ freedBy(n) =
                {s.buffer : s \in answersInSend} \union
                {infos[k].packet_buffer : k \in guaranteed_delivery_map'}
<1>1. guaranteed_delivery_map' = guaranteed_delivery_map \ {n}
  BY DEF onGuaranteedAnswer
<1>2. CASE n \in guaranteed_delivery_map
  <2>1. /\ n \in DOMAIN infos /\ infos[n] \in Info
        /\ infos' = [infos EXCEPT ![n].delivered_ok = TRUE]
    BY <1>2 DEF TransportInv, TransportTypeOK, onGuaranteedAnswer
  <2>2. /\ DOMAIN infos' = DOMAIN infos
        /\ infos'[n].delivered_ok
        /\ \A k \in DOMAIN infos : k # n => infos'[k] = infos[k]
    BY <2>1 DEF Info
  <2>3. TimersAgree'
    BY <1>1, <2>2 DEF TransportInv, TimersAgree
  <2>4. \A k \in guaranteed_delivery_map' : infos'[k] = infos[k]
    BY <1>1, <2>2 DEF TransportInv, TransportTypeOK
  <2>5. packet_pool \ freedBy(n) =
                {s.buffer : s \in answersInSend} \union
                {infos[k].packet_buffer : k \in guaranteed_delivery_map'}
    BY <1>1, <1>2 DEF TransportInv, PoolExact, freedBy
  <2> QED
    BY <1>1, <2>3, <2>4, <2>5
<1>3. CASE n \notin guaranteed_delivery_map
  BY <1>1, <1>3 DEF TransportInv, TimersAgree, PoolExact, freedBy,
     onGuaranteedAnswer
<1> QED
  BY <1>2, <1>3

LEMMA ReceiveAnswerKeepsPool ==
    ASSUME NEW n \in Number, TransportInv, ReceiveAnswer(n)
    PROVE  PoolExact' /\ TimersAgree'
<1>1. /\ onGuaranteedAnswer(n)
      /\ packet_pool' = packet_pool \ freedBy(n)
      /\ answersInSend' = answersInSend
  BY DEF ReceiveAnswer, answersInSend
<1> QED
  BY <1>1, AnswerFrees DEF TransportInv, PoolExact

\* The buffer of a new answer was free, or was freed just before.
LEMMA ReceiveRequestKeepsPool ==
    ASSUME NEW n \in OthersNumbers, NEW b \in Buffers, TransportInv,
           ReceiveRequest(n, b)
    PROVE  PoolExact' /\ TimersAgree'
<1> DEFINE s == [buffer |-> b, packet |-> answer(n), guaranteed |-> FALSE,
                 attempt |-> 0]
<1>1. /\ onGuaranteedAnswer(n)
      /\ b \notin packet_pool \ freedBy(n)
      /\ packet_pool' = (packet_pool \ freedBy(n)) \union {b}
      /\ answersInSend' = answersInSend \union {s}
  BY DEF ReceiveRequest, standardSend, answersInSend
<1>2. s.buffer = b
  OBVIOUS
<1> HIDE DEF s
<1>3. PoolExact'
  BY <1>1, <1>2, AnswerFrees DEF TransportInv, PoolExact
<1> QED
  BY <1>1, <1>3, AnswerFrees

\* The buffer of the answer to an action was free.
LEMMA ReceiveActionKeepsPool ==
    ASSUME NEW n \in OthersNumbers, NEW b \in Buffers, TransportInv,
           ReceiveAction(n, b)
    PROVE  PoolExact' /\ TimersAgree'
<1> DEFINE s == [buffer |-> b, packet |-> answer(n), guaranteed |-> FALSE,
                 attempt |-> 0]
<1>1. /\ b \notin packet_pool
      /\ packet_pool' = packet_pool \union {b}
      /\ answersInSend' = answersInSend \union {s}
      /\ UNCHANGED <<infos, guaranteed_delivery_map>>
  BY DEF ReceiveAction, standardSend, answersInSend
<1>2. s.buffer = b
  OBVIOUS
<1> HIDE DEF s
<1> QED
  BY <1>1, <1>2 DEF TransportInv, PoolExact, TimersAgree

LEMMA TimeoutKeepsPool ==
    ASSUME NEW n \in Number, TransportInv, onTimeout(n)
    PROVE  PoolExact' /\ TimersAgree'
<1>1. n \in DOMAIN infos /\ infos[n] \in Info
  BY DEF onTimeout, TransportInv, TransportTypeOK
<1>2. n \in guaranteed_delivery_map <=> ~infos[n].delivered_ok
  BY <1>1 DEF TransportInv, TimersAgree
<1>3. CASE /\ dropInfo(n) /\ UNCHANGED sends
           /\ packet_pool' = packet_pool \ freedBy(n)
  <2>1. /\ DOMAIN infos' = DOMAIN infos \ {n}
        /\ guaranteed_delivery_map' = guaranteed_delivery_map \ {n}
        /\ \A k \in DOMAIN infos' : infos'[k] = infos[k]
        /\ answersInSend' = answersInSend
    BY <1>3 DEF dropInfo, answersInSend
  <2>2. guaranteed_delivery_map \subseteq DOMAIN infos
    BY DEF TransportInv, TransportTypeOK
  <2>3. TimersAgree'
    BY <2>1 DEF TransportInv, TimersAgree
  <2>4. PoolExact'
    BY <1>3, <2>1, <2>2 DEF TransportInv, PoolExact, freedBy
  <2> QED
    BY <2>3, <2>4
<1>4. CASE ~infos[n].delivered_ok /\ retried(n)
  <2>1. /\ DOMAIN infos' = DOMAIN infos
        /\ \A k \in DOMAIN infos :
             /\ infos'[k].packet_buffer = infos[k].packet_buffer
             /\ infos'[k].delivered_ok = infos[k].delivered_ok
    BY <1>4, <1>1 DEF retried, Info
  <2>2. /\ UNCHANGED <<packet_pool, guaranteed_delivery_map>>
        /\ answersInSend' = answersInSend
    BY <1>4 DEF retried, answersInSend
  <2>3. guaranteed_delivery_map \subseteq DOMAIN infos
    BY DEF TransportInv, TransportTypeOK
  <2>4. TimersAgree'
    BY <2>1, <2>2 DEF TransportInv, TimersAgree
  <2>5. PoolExact'
    BY <2>1, <2>2, <2>3 DEF TransportInv, PoolExact
  <2> QED
    BY <2>4, <2>5
<1> QED
  BY <1>2, <1>3, <1>4 DEF onTimeout, freedBy

-----------------------------------------------------------------------------
\* Every step keeps the invariant.
LEMMA StepKeeps == TransportInv /\ [TransportNext]_transportVars => TransportInv'
<1> SUFFICES ASSUME TransportInv, [TransportNext]_transportVars
             PROVE  TransportInv'
  OBVIOUS
<1>1. CASE \E b \in Buffers : guaranteedSendTo(b)
  BY <1>1, SendToTypes, SendToKeepsPool DEF TransportInv
<1>2. CASE \E s \in sends : SendEnds(s)
  BY <1>2, SendEndsTypes, SendEndsKeepsPool DEF TransportInv
<1>3. CASE \E n \in Number : ReceiveAnswer(n)
  BY <1>3, ReceiveAnswerTypes, ReceiveAnswerKeepsPool DEF TransportInv
<1>4. CASE \E n \in Number : onTimeout(n)
  BY <1>4, TimeoutTypes, TimeoutKeepsPool DEF TransportInv
<1>5. CASE \E n \in OthersNumbers, b \in Buffers : ReceiveRequest(n, b)
  <2> PICK n \in OthersNumbers, b \in Buffers : ReceiveRequest(n, b)
    BY <1>5
  <2>1. TransportTypeOK'
    BY ReceiveRequestTypes DEF TransportInv
  <2>2. PoolExact' /\ TimersAgree'
    BY ReceiveRequestKeepsPool
  <2> QED
    BY <2>1, <2>2 DEF TransportInv
<1>8. CASE \E n \in OthersNumbers, b \in Buffers : ReceiveAction(n, b)
  <2> PICK n \in OthersNumbers, b \in Buffers : ReceiveAction(n, b)
    BY <1>8
  <2>1. TransportTypeOK'
    BY ReceiveActionTypes DEF TransportInv
  <2>2. PoolExact' /\ TimersAgree'
    BY ReceiveActionKeepsPool
  <2> QED
    BY <2>1, <2>2 DEF TransportInv
<1>6. CASE ReceiveUnknown
  <2>1. /\ receiving' \in BOOLEAN
        /\ UNCHANGED <<cur_packet_number, packet_pool, content, sends, infos,
                      guaranteed_delivery_map, reached>>
    BY <1>6 DEF ReceiveUnknown
  <2>2. answersInSend' = answersInSend
    BY <2>1 DEF answersInSend
  <2>3. TransportTypeOK'
    BY <2>1 DEF TransportInv, TransportTypeOK
  <2>4. PoolExact' /\ TimersAgree'
    BY <2>1, <2>2 DEF TransportInv, PoolExact, TimersAgree
  <2> QED
    BY <2>3, <2>4 DEF TransportInv
<1>7. CASE UNCHANGED transportVars
  BY <1>7 DEF transportVars, TransportInv, TransportTypeOK, PoolExact,
     TimersAgree, answersInSend
<1> QED
  BY <1>1, <1>2, <1>3, <1>4, <1>5, <1>6, <1>7, <1>8 DEF TransportNext

\* The inductive invariant of the transport holds in every behavior.
THEOREM TransportSafe == TransportSpec => []TransportInv
<1>1. TransportInit => TransportInv
  BY InitKeeps
<1> QED
  BY <1>1, StepKeeps, PTL DEF TransportSpec

\* Every buffer of the packet pool has exactly one owner and is given back once,
\* however sends, answers and timers interleave.
THEOREM PoolStaysExact == TransportSpec => [](TransportTypeOK /\ PoolExact)
<1>1. TransportInv => TransportTypeOK /\ PoolExact
  BY DEF TransportInv
<1> QED
  BY <1>1, TransportSafe, PTL

\* The timer of an answered request does not send it again, and does not free
\* its buffer, which is somebody else's by then.
THEOREM TimerLeavesAnswered == TransportSpec => TimerKnowsAnswer
<1> DEFINE quiet == \A n \in Number :
                      onTimeout(n) /\ n \notin guaranteed_delivery_map
                        => UNCHANGED <<packet_pool, sends>>
<1>1. TransportInv => quiet
  BY DEF TransportInv, TimersAgree, onTimeout
<1>2. TransportInv /\ [TransportNext]_transportVars => [quiet]_transportVars
  BY <1>1
<1> QED
  BY <1>2, TransportSafe, PTL DEF TransportSpec, TimerKnowsAnswer
=============================================================================
