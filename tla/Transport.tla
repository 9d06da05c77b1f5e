------------------------------ MODULE Transport ------------------------------
(***************************************************************************)
(* The part of a server or client that every process shares (transport.h): *)
(* the packet pool, the sends in progress, guaranteed delivery with its    *)
(* timers, and the receive loop.  One process and the datagrams around it. *)
(*                                                                         *)
(* A guaranteed request is known by its packet number.  It is pending      *)
(* while guaranteed_delivery_map has the number; its timer runs on after   *)
(* the answer until onTimeout has seen delivered_ok.  A send reads its     *)
(* buffer when it completes, and the buffer may be somebody else's by then.*)
(***************************************************************************)
EXTENDS Integers, FiniteSets

CONSTANTS
    Buffers,         \* the places of packet_pool
    AttemptCount,    \* how often a request is sent again
    MaxNumber,       \* bound: the last packet number the process uses
    OthersNumbers    \* the packet numbers that requests of others carry

ASSUME BuffersAssumption == IsFiniteSet(Buffers)
ASSUME NumbersAssumption ==
    /\ AttemptCount \in Nat
    /\ MaxNumber \in Nat
    /\ OthersNumbers \subseteq Nat

VARIABLES
    receiving,                 \* a receive is in progress
    cur_packet_number,
    packet_pool,               \* the buffers in use
    content,                   \* buffer -> the packet last written there
    sends,                     \* the calls of async_send_to in progress
    infos,                     \* number -> GuaranteedDeliveryInfo
    guaranteed_delivery_map,   \* the numbers of the pending requests
    reached                    \* the requests that reached their addressee

transportVars == <<receiving, cur_packet_number, packet_pool, content, sends,
                   infos, guaranteed_delivery_map, reached>>

Number == 1 .. MaxNumber

\* What a buffer holds: a request of ours, or an answer to somebody's request,
\* which nobody here waits for.
request(n) == [type |-> "request", packet_number |-> n]
answer(n) == [type |-> "answer", packet_number |-> n]

NoPacket == [type |-> "none"]

Packet == {request(n) : n \in Number} \union
          {answer(n) : n \in OthersNumbers} \union {NoPacket}

\* attempt is the attempt_count the request had when it was sent.
Send ==
    [buffer : Buffers, packet : {request(n) : n \in Number},
     guaranteed : {TRUE}, attempt : 0 .. AttemptCount] \union
    [buffer : Buffers, packet : {answer(n) : n \in OthersNumbers},
     guaranteed : {FALSE}, attempt : {0}]

Info == [packet_buffer : Buffers, attempt_count : 0 .. AttemptCount,
         delivered_ok : BOOLEAN]

\* Every variable has its type, and a pending request has a timer.
TransportTypeOK ==
    /\ receiving \in BOOLEAN
    /\ cur_packet_number \in 0 .. MaxNumber
    /\ packet_pool \subseteq Buffers
    /\ content \in [Buffers -> Packet]
    /\ sends \subseteq Send
    /\ DOMAIN infos \subseteq 1 .. cur_packet_number
    /\ \A n \in DOMAIN infos : infos[n] \in Info
    /\ guaranteed_delivery_map \subseteq DOMAIN infos
    /\ reached \subseteq Number

TransportInit ==
    /\ receiving = TRUE
    /\ cur_packet_number = 0
    /\ packet_pool = {}
    /\ content = [b \in Buffers |-> NoPacket]
    /\ sends = {}
    /\ infos = [n \in {} |-> 0]
    /\ guaranteed_delivery_map = {}
    /\ reached = {}

-----------------------------------------------------------------------------
\* Sending

guaranteedSendTo(b) ==
    LET n == cur_packet_number + 1
    IN  /\ n \in Number
        /\ b \in Buffers \ packet_pool
        /\ cur_packet_number' = n
        /\ packet_pool' = packet_pool \union {b}
        /\ content' = [content EXCEPT ![b] = request(n)]
        /\ sends' = sends \union {[buffer |-> b, packet |-> request(n),
                        guaranteed |-> TRUE, attempt |-> AttemptCount]}
        /\ infos' = [k \in DOMAIN infos \union {n} |->
                        IF k = n THEN [packet_buffer |-> b,
                                       attempt_count |-> AttemptCount,
                                       delivered_ok |-> FALSE]
                        ELSE infos[k]]
        /\ guaranteed_delivery_map' = guaranteed_delivery_map \union {n}
        /\ UNCHANGED <<receiving, reached>>

\* MUTANT of completed: every completion frees its buffer.
MutantAlwaysFreed(s) ==
    /\ packet_pool' = packet_pool \ {s.buffer}
    /\ sends' = sends \ {s}

\* onSend frees the buffer, onGuaranteedSend does not.
completed(s) ==
    /\ packet_pool' = packet_pool \ (IF s.guaranteed THEN {} ELSE {s.buffer})
    /\ sends' = sends \ {s}

\* A send ends.  What leaves is what the buffer holds by now: the request, which
\* arrives unless it is lost, or another packet, sent to the wrong end point.
SendEnds(s) ==
    /\ s \in sends
    /\ completed(s)
    /\ \/ UNCHANGED reached
       \/ /\ s.guaranteed /\ content[s.buffer] = s.packet
          /\ reached' = reached \union {s.packet.packet_number}
    /\ UNCHANGED <<receiving, cur_packet_number, content, infos,
                   guaranteed_delivery_map>>

-----------------------------------------------------------------------------
\* Receiving

\* The buffer that onGuaranteedAnswer gives back.
freedBy(n) == IF n \in guaranteed_delivery_map
              THEN {infos[n].packet_buffer} ELSE {}

\* MUTANT of onGuaranteedAnswer: the timer is not told.
MutantTimerNotTold(n) ==
    /\ UNCHANGED infos
    /\ guaranteed_delivery_map' = guaranteed_delivery_map \ {n}

\* A packet of a type with guaranteed delivery has the number n: if a request
\* with that number is pending, it counts as delivered.
onGuaranteedAnswer(n) ==
    /\ infos' = IF n \in guaranteed_delivery_map
                THEN [infos EXCEPT ![n].delivered_ok = TRUE] ELSE infos
    /\ guaranteed_delivery_map' = guaranteed_delivery_map \ {n}

\* The answer to a request that reached its addressee, once or repeatedly.
ReceiveAnswer(n) ==
    /\ receiving
    /\ n \in reached
    /\ onGuaranteedAnswer(n)
    /\ packet_pool' = packet_pool \ freedBy(n)
    /\ UNCHANGED <<receiving, cur_packet_number, content, sends, reached>>

\* The answer to somebody's request is written to a buffer and sent, once.
standardSend(n, b) ==
    /\ content' = [content EXCEPT ![b] = answer(n)]
    /\ sends' = sends \union {[buffer |-> b, packet |-> answer(n),
                               guaranteed |-> FALSE, attempt |-> 0]}

\* Somebody else's request, which the handler answers.  It goes through
\* onGuaranteedAnswer first, as every packet does of a type with guaranteed
\* delivery.
ReceiveRequest(n, b) ==
    /\ receiving
    /\ n \in OthersNumbers
    /\ b \in Buffers \ (packet_pool \ freedBy(n))
    /\ onGuaranteedAnswer(n)
    /\ packet_pool' = (packet_pool \ freedBy(n)) \union {b}
    /\ standardSend(n, b)
    /\ UNCHANGED <<receiving, cur_packet_number, reached>>

\* A packet about a unit's action is of no such type: whoever sent it numbers
\* its actions as it likes, and nothing pending is taken to be answered.
ReceiveAction(n, b) ==
    /\ receiving
    /\ n \in OthersNumbers
    /\ b \in Buffers \ packet_pool
    /\ packet_pool' = packet_pool \union {b}
    /\ standardSend(n, b)
    /\ UNCHANGED <<receiving, cur_packet_number, infos,
                   guaranteed_delivery_map, reached>>

\* A datagram that is too short or of an unknown type: nobody calls doReceive.
ReceiveUnknown ==
    /\ receiving
    /\ receiving' = FALSE
    /\ UNCHANGED <<cur_packet_number, packet_pool, content, sends, infos,
                   guaranteed_delivery_map, reached>>

-----------------------------------------------------------------------------
\* The timer of a request

dropInfo(n) ==
    /\ infos' = [k \in DOMAIN infos \ {n} |-> infos[k]]
    /\ guaranteed_delivery_map' = guaranteed_delivery_map \ {n}

\* MUTANT of retried: the attempts are not counted.
MutantNotCounted(n) ==
    /\ sends' = sends \union {[buffer |-> infos[n].packet_buffer,
                    packet |-> request(n), guaranteed |-> TRUE,
                    attempt |-> infos[n].attempt_count]}
    /\ UNCHANGED <<infos, packet_pool, guaranteed_delivery_map>>

retried(n) ==
    LET left == infos[n].attempt_count - 1
    IN  /\ infos' = [infos EXCEPT ![n].attempt_count = left]
        /\ sends' = sends \union {[buffer |-> infos[n].packet_buffer,
               packet |-> request(n), guaranteed |-> TRUE, attempt |-> left]}
        /\ UNCHANGED <<packet_pool, guaranteed_delivery_map>>

\* The handler does not look at its error argument, so a cancelled timer takes
\* this way too.
onTimeout(n) ==
    /\ n \in DOMAIN infos
    /\ \/ /\ infos[n].delivered_ok
          /\ dropInfo(n)
          /\ UNCHANGED <<packet_pool, sends>>
       \/ /\ ~infos[n].delivered_ok
          /\ infos[n].attempt_count > 0
          /\ retried(n)
       \/ /\ ~infos[n].delivered_ok
          /\ infos[n].attempt_count = 0
          /\ packet_pool' = packet_pool \ {infos[n].packet_buffer}
          /\ dropInfo(n)
          /\ UNCHANGED sends
    /\ UNCHANGED <<receiving, cur_packet_number, content, reached>>

-----------------------------------------------------------------------------
TransportNext ==
    \/ \E b \in Buffers : guaranteedSendTo(b)
    \/ \E s \in sends : SendEnds(s)
    \/ \E n \in Number : ReceiveAnswer(n) \/ onTimeout(n)
    \/ \E n \in OthersNumbers, b \in Buffers :
          ReceiveRequest(n, b) \/ ReceiveAction(n, b)
    \/ ReceiveUnknown

\* io_service calls the handler of every timer that has expired.
TransportSpec ==
    /\ TransportInit
    /\ [][TransportNext]_transportVars
    /\ \A n \in Number : WF_transportVars(onTimeout(n))

-----------------------------------------------------------------------------
\* Properties

answersInSend == {s \in sends : ~s.guaranteed}

\* A buffer of the pool belongs to exactly one answer that is being sent or one
\* pending request, and to nobody else: whichever way a request ends (answer,
\* all attempts used, answer racing the timer), its buffer is given back, and
\* only once.
PoolExact ==
    /\ packet_pool = {s.buffer : s \in answersInSend} \union
                      {infos[n].packet_buffer : n \in guaranteed_delivery_map}
    /\ \A s, t \in answersInSend : s.buffer = t.buffer => s = t
    /\ \A m, n \in guaranteed_delivery_map :
          infos[m].packet_buffer = infos[n].packet_buffer => m = n
    /\ \A s \in answersInSend, n \in guaranteed_delivery_map :
          s.buffer # infos[n].packet_buffer

\* A request that is not pending is neither sent again nor gives back a buffer
\* again when its timer fires: by then the buffer is somebody else's.
TimerKnowsAnswer ==
    [][\A n \in Number :
         onTimeout(n) /\ n \notin guaranteed_delivery_map
           => UNCHANGED <<packet_pool, sends>>]_transportVars

\* Every guaranteed request ends, by an answer or by the error handler, even
\* when nothing is received any more.
RequestsEnd ==
    \A n \in Number :
        n \in guaranteed_delivery_map ~> n \notin guaranteed_delivery_map
=============================================================================
