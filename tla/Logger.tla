------------------------------- MODULE Logger -------------------------------
(***************************************************************************)
(* The logger of a server (logger.cpp): reportMessage puts a message on    *)
(* the queue of its thread, a timer writes one message a millisecond and   *)
(* marks it, and the next reportMessage takes the marked ones off.         *)
(*                                                                         *)
(* The queue is a FastIndexRegistryChain: a registry that gives the places *)
(* (FastIndex), linked in a chain, which to its only user is a sequence    *)
(* (ImplementsSequence of UnitChain).  A place keeps its last message.     *)
(*                                                                         *)
(* A server registers one thread, and reports, the timer and the quit      *)
(* handler run in it: thread_info has one entry, and processNextQueued-    *)
(* Message always comes back to it.  Severities are left out, as nothing   *)
(* compares them with minimum_level, and so is sendNetworkMessage, which   *)
(* does nothing.                                                           *)
(***************************************************************************)
EXTENDS FastIndex, SequencesExt

CONSTANTS
    MaxMessages,    \* bound: so many messages are reported
    InvalidIndex

ASSUME LoggerAssumption == MaxMessages \in Nat /\ InvalidIndex \notin Index

VARIABLES
    message_queue,    \* the chain, from its head
    message,          \* place -> the number and the mark of its last message
    cur_index,        \* where reportMessage has got to in the chain
    reported,         \* number of messages reported
    log_file,         \* the messages written to it
    running

loggerVars == <<registryVars, message_queue, message, cur_index, reported,
                log_file, running>>

InReport == cur_index # InvalidIndex

LoggerInit ==
    /\ RegistryInit
    /\ message_queue = << >>
    /\ message = [i \in Index |-> [number |-> 0, to_remove |-> FALSE]]
    /\ cur_index = InvalidIndex
    /\ reported = 0
    /\ log_file = << >>
    /\ running = TRUE

-----------------------------------------------------------------------------
\* FastIndexRegistryChain

chainPushBack(i) ==
    /\ allocate(i)
    /\ message_queue' = Append(message_queue, i)

placeOf(i) == CHOOSE k \in DOMAIN message_queue : message_queue[k] = i

\* MUTANT of chainRemove: the place is not given back.
MutantPlaceKept(i) ==
    /\ message_queue' = RemoveAt(message_queue, placeOf(i))
    /\ UNCHANGED registryVars

chainRemove(i) ==
    /\ message_queue' = RemoveAt(message_queue, placeOf(i))
    /\ deallocate(i)

getChainNextIndex(i) ==
    IF placeOf(i) = Len(message_queue) THEN InvalidIndex
    ELSE message_queue[placeOf(i) + 1]

-----------------------------------------------------------------------------
\* reportMessage

\* MUTANT of written: the mark of the place's last message stays.
MutantMarkKept(i) ==
    [message EXCEPT ![i].number = reported + 1]

written(i) ==
    [message EXCEPT ![i] = [number |-> reported + 1, to_remove |-> FALSE]]

ReportBegins ==
    /\ ~InReport
    /\ reported < MaxMessages
    /\ \E i \in Index : chainPushBack(i) /\ message' = written(i)
    /\ cur_index' = Head(message_queue')
    /\ reported' = reported + 1
    /\ UNCHANGED <<log_file, running>>

\* The loop takes the marked messages off the queue.  The next place is read
\* before the current one is given back.
ReportGoesOn ==
    /\ InReport
    /\ cur_index' = getChainNextIndex(cur_index)
    /\ \/ message[cur_index].to_remove /\ chainRemove(cur_index)
       \/ /\ ~message[cur_index].to_remove
          /\ UNCHANGED <<registryVars, message_queue>>
    /\ UNCHANGED <<message, reported, log_file, running>>

-----------------------------------------------------------------------------
\* The timer and the quit handler

unmarked == {k \in DOMAIN message_queue : ~message[message_queue[k]].to_remove}

\* MUTANT of processNextQueuedMessage: only the head of the queue is looked at.
MutantOnlyHead ==
    /\ ~InReport
    /\ message_queue # << >>
    /\ LET i == Head(message_queue)
       IN  /\ ~message[i].to_remove
           /\ log_file' = Append(log_file, message[i].number)
           /\ message' = [message EXCEPT ![i].to_remove = TRUE]
    /\ UNCHANGED <<registryVars, message_queue, cur_index, reported, running>>

\* Writes the first message that has no mark.
processNextQueuedMessage ==
    /\ ~InReport
    /\ unmarked # {}
    /\ LET i == message_queue[Min(unmarked)]
       IN  /\ log_file' = Append(log_file, message[i].number)
           /\ message' = [message EXCEPT ![i].to_remove = TRUE]
    /\ UNCHANGED <<registryVars, message_queue, cur_index, reported, running>>

\* The file is closed and the process ends; so it does when start() has caught
\* an exception and reported it.  Nobody looks at the queue.
onQuit ==
    /\ ~InReport
    /\ running' = FALSE
    /\ UNCHANGED <<registryVars, message_queue, message, cur_index, reported,
                   log_file>>

LoggerNext ==
    /\ running
    /\ ReportBegins \/ ReportGoesOn \/ processNextQueuedMessage \/ onQuit

\* The timer fires, and a call of reportMessage goes on to its end.
LoggerSpec ==
    /\ LoggerInit
    /\ [][LoggerNext]_loggerVars
    /\ WF_loggerVars(running /\ processNextQueuedMessage)
    /\ WF_loggerVars(running /\ ReportGoesOn)

-----------------------------------------------------------------------------
\* Properties

\* Every variable has its type; the places in use are those on the queue, each
\* of them there once; the marked messages come first and have been written;
\* and where a report has passed none is left.  So the queue never holds more
\* than what was reported and not written, and what was written since the last
\* report.
QueueExact ==
    /\ RegistryTypeOK
    /\ message \in [Index -> [number : 0 .. reported, to_remove : BOOLEAN]]
    /\ reported \in 0 .. MaxMessages /\ running \in BOOLEAN
    /\ IsInjective(message_queue) /\ ToSet(message_queue) = allocated
    /\ InReport => cur_index \in allocated
    /\ \A j, k \in DOMAIN message_queue :
          j < k /\ message[message_queue[k]].to_remove
            => message[message_queue[j]].to_remove
    /\ \A k \in DOMAIN message_queue :
          message[message_queue[k]].to_remove
            <=> message[message_queue[k]].number \in ToSet(log_file)
    /\ InReport /\ ~message[cur_index].to_remove
         => \A i \in ToSet(message_queue) : ~message[i].to_remove

\* To who reads the file the logger is a MessageLog: nothing is written out of
\* order, twice, or after it was taken off the queue, although places of the
\* queue are reused and marks are left standing between reports.  Pending is
\* what is on the queue from the first message without a mark.
numbers(places) == [k \in DOMAIN places |-> message[places[k]].number]

pending ==
    IF unmarked = {} THEN << >>
    ELSE numbers(SubSeq(message_queue, Min(unmarked), Len(message_queue)))

Log == INSTANCE MessageLog WITH log <- log_file

ImplementsLog == Log!LogSpec

\* Every message is written at last, without another report to push it, unless
\* the process ends.
EveryMessageWritten ==
    \A n \in 1 .. MaxMessages :
        reported >= n ~> (n \in ToSet(log_file) \/ ~running)
=============================================================================
