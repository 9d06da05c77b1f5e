----------------------------- MODULE MessageLog -----------------------------
(* What the logger promises: the messages are written in the order in which *)
(* they were reported, each of them once.  They are numbered as they come.  *)
EXTENDS Naturals, Sequences

VARIABLES
    reported,  \* number of messages reported
    pending,   \* messages reported and not yet written
    log        \* messages written

Report ==
    /\ reported' = reported + 1
    /\ pending' = Append(pending, reported')
    /\ UNCHANGED log

Write ==
    /\ pending # << >>
    /\ log' = Append(log, Head(pending))
    /\ pending' = Tail(pending)
    /\ UNCHANGED reported

LogSpec ==
    /\ reported = 0 /\ pending = << >> /\ log = << >>
    /\ [][Report \/ Write]_<<reported, pending, log>>
=============================================================================
