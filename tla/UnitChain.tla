----------------------------- MODULE UnitChain -----------------------------
(***************************************************************************)
(* The unit list of a node server as its two threads see it: the network   *)
(* thread links and unlinks units (FastIndexChain of fast_index.h) while   *)
(* the logic thread follows the links every game step, without a lock.     *)
(*                                                                         *)
(* Every access that the other thread can notice is a step.  The members   *)
(* chain_previous_index, chain_tail_index and allocated are used by the    *)
(* network thread only, so that their accesses go with a step beside them. *)
(* The atomics are sequentially consistent.  Of what the elements hold the *)
(* unit is kept; its place, a floating-point number, is left out.          *)
(***************************************************************************)
EXTENDS Integers, SequencesExt

CONSTANTS
    Tokens,      \* unit tokens, the indices of the list
    PageSize,    \* number of elements in a page
    MaxUnits,    \* bound: so many units are spawned
    InvalidIndex

ASSUME TokensAssumption == Tokens \subseteq Nat /\ IsFiniteSet(Tokens)
ASSUME SizesAssumption == PageSize \in Nat \ {0} /\ MaxUnits \in Nat
ASSUME InvalidAssumption == InvalidIndex \notin Tokens

VARIABLES
    pages,           \* pages that have been created
    allocated,       \* tokens whose element has its allocated flag set
    chain_previous_index,
    chain_next_index,
    chain_head_index,
    chain_tail_index,
    call,            \* the call of the list the network thread is in
    spawned,         \* number of units so far; it numbers the units
    unit,            \* token -> the last unit that had the element
    cur_unit_index,  \* the element the logic thread is at
    at,              \* the point of the game loop the logic thread is at
    walk             \* history of the walk, see WalkBegins

listVars == <<pages, allocated, chain_previous_index, chain_next_index,
              chain_head_index, chain_tail_index>>
networkVars == <<listVars, call, spawned, unit>>
walkVars == <<cur_unit_index, at, walk>>
unitVars == <<networkVars, walkVars>>

Index == Tokens \union {InvalidIndex}
Nobody == 0

PageOf(i) == i \div PageSize
find(i) == i \in allocated

\* No call, or a call's operation and element and the step that comes next.
NoCall == [op |-> "none"]
Call == {NoCall} \union
        [op : {"push"}, index : Tokens, step : {"link", "tail", "write"}] \union
        [op : {"remove"}, index : Tokens, step : {"reset"}]

\* Every variable has its type, and the element of a call is in use until the
\* call ends.
UnitTypeOK ==
    /\ pages \subseteq {PageOf(i) : i \in Tokens}
    /\ allocated \subseteq Tokens
    /\ chain_previous_index \in [Tokens -> Index]
    /\ chain_next_index \in [Tokens -> Index]
    /\ {chain_head_index, chain_tail_index, cur_unit_index} \subseteq Index
    /\ call \in Call
    /\ call # NoCall => call.index \in allocated
    /\ spawned \in 0 .. MaxUnits
    /\ unit \in [Tokens -> 0 .. spawned]
    /\ at \in {"timer", "read", "write", "next"}
    /\ walk \in [there : SUBSET (1 .. spawned), removed : BOOLEAN,
                 stepped : SUBSET (0 .. spawned)]

UnitInit ==
    /\ pages = {} /\ allocated = {}
    /\ chain_previous_index = [i \in Tokens |-> InvalidIndex]
    /\ chain_next_index = [i \in Tokens |-> InvalidIndex]
    /\ chain_head_index = InvalidIndex /\ chain_tail_index = InvalidIndex
    /\ call = NoCall
    /\ spawned = 0
    /\ unit = [i \in Tokens |-> Nobody]
    /\ cur_unit_index = InvalidIndex
    /\ at = "timer"
    /\ walk = [there |-> {}, removed |-> FALSE, stepped |-> {}]

-----------------------------------------------------------------------------
\* The network thread: onInitializePositionInternal calls chainPushBack and
\* then writes unit_location.

allocateBlock(i) ==
    /\ pages' = pages \union {PageOf(i)}
    /\ allocated' = allocated \union {i}

PushBegins(i) ==
    /\ call = NoCall
    /\ ~find(i)
    /\ spawned < MaxUnits
    /\ allocateBlock(i)
    /\ chain_next_index' = [chain_next_index EXCEPT ![i] = InvalidIndex]
    /\ chain_previous_index' = [chain_previous_index EXCEPT ![i] = chain_tail_index]
    /\ spawned' = spawned + 1
    /\ unit' = [unit EXCEPT ![i] = spawned + 1]
    /\ call' = [op |-> "push", index |-> i, step |-> "link"]
    /\ UNCHANGED <<chain_head_index, chain_tail_index, walkVars>>

InPush(step) == call.op = "push" /\ call.step = step

PushLinks ==
    /\ InPush("link")
    /\ chain_next_index' =
         IF chain_tail_index = InvalidIndex THEN chain_next_index
         ELSE [chain_next_index EXCEPT ![chain_tail_index] = call.index]
    /\ call' = [call EXCEPT !.step = "tail"]
    /\ UNCHANGED <<pages, allocated, chain_previous_index, chain_head_index,
                   chain_tail_index, spawned, unit, walkVars>>

\* MUTANT of headAfterPush: the new element becomes the head.
MutantHeadTaken(i) == i

headAfterPush(i) ==
    IF chain_head_index = InvalidIndex THEN i ELSE chain_head_index

PushEnds ==
    /\ InPush("tail")
    /\ chain_tail_index' = call.index
    /\ chain_head_index' = headAfterPush(call.index)
    /\ call' = [call EXCEPT !.step = "write"]
    /\ UNCHANGED <<pages, allocated, chain_previous_index, chain_next_index,
                   spawned, unit, walkVars>>

LocationWritten ==
    /\ InPush("write")
    /\ call' = NoCall
    /\ UNCHANGED <<listVars, spawned, unit, walkVars>>

-----------------------------------------------------------------------------
\* The network thread: onLogoutInternal calls chainRemove.

\* MUTANTS of bypass.  The tail stays where it is,
MutantTailKept(p, n) ==
    /\ IF p # InvalidIndex
       THEN /\ chain_next_index' = [chain_next_index EXCEPT ![p] = n]
            /\ UNCHANGED chain_head_index
       ELSE /\ chain_head_index' = n
            /\ UNCHANGED chain_next_index
    /\ chain_previous_index' =
         IF n = InvalidIndex THEN chain_previous_index
         ELSE [chain_previous_index EXCEPT ![n] = p]
    /\ UNCHANGED chain_tail_index

\* or the link back from the next element.
MutantBackLinkKept(p, n) ==
    /\ IF p # InvalidIndex
       THEN /\ chain_next_index' = [chain_next_index EXCEPT ![p] = n]
            /\ UNCHANGED chain_head_index
       ELSE /\ chain_head_index' = n
            /\ UNCHANGED chain_next_index
    /\ chain_tail_index' = IF n = InvalidIndex THEN p ELSE chain_tail_index
    /\ UNCHANGED chain_previous_index

\* The neighbors p and n of an element become each other's.
bypass(p, n) ==
    /\ IF p # InvalidIndex
       THEN /\ chain_next_index' = [chain_next_index EXCEPT ![p] = n]
            /\ UNCHANGED chain_head_index
       ELSE /\ chain_head_index' = n
            /\ UNCHANGED chain_next_index
    /\ IF n # InvalidIndex
       THEN /\ chain_previous_index' = [chain_previous_index EXCEPT ![n] = p]
            /\ UNCHANGED chain_tail_index
       ELSE /\ chain_tail_index' = p
            /\ UNCHANGED chain_previous_index

RemoveBegins(i) ==
    /\ call = NoCall
    /\ find(i)
    /\ bypass(chain_previous_index[i], chain_next_index[i])
    /\ call' = [op |-> "remove", index |-> i, step |-> "reset"]
    /\ walk' = [walk EXCEPT !.removed = TRUE]
    /\ UNCHANGED <<pages, allocated, spawned, unit, cur_unit_index, at>>

\* MUTANT of deallocateBlock: a page without a unit is given back.
MutantPageFreed(i) ==
    /\ allocated' = allocated \ {i}
    /\ pages' = {PageOf(j) : j \in allocated \ {i}}

deallocateBlock(i) ==
    /\ allocated' = allocated \ {i}
    /\ UNCHANGED pages

RemoveEnds ==
    /\ call.op = "remove"
    /\ chain_previous_index' = [chain_previous_index EXCEPT ![call.index] = InvalidIndex]
    /\ chain_next_index' = [chain_next_index EXCEPT ![call.index] = InvalidIndex]
    /\ deallocateBlock(call.index)
    /\ call' = NoCall
    /\ UNCHANGED <<chain_head_index, chain_tail_index, spawned, unit, walkVars>>


-----------------------------------------------------------------------------
\* The logic thread: run follows the chain and calls gameStep for each element.

\* The units that are linked; the one that a push is about may not be yet.
linked == {unit[i] : i \in allocated \
              (IF InPush("link") \/ InPush("tail") THEN {call.index} ELSE {})}

\* The history: who was there when the walk began, whether a unit was removed
\* since, and the units that gameStep was called for.
WalkBegins ==
    /\ at = "timer"
    /\ cur_unit_index' = chain_head_index
    /\ at' = "read"
    /\ walk' = [there |-> linked, removed |-> call.op = "remove", stepped |-> {}]
    /\ UNCHANGED networkVars

\* gameStep reads the element and later writes it.
StepReads ==
    /\ at = "read"
    /\ cur_unit_index # InvalidIndex
    /\ at' = "write"
    /\ UNCHANGED <<networkVars, cur_unit_index, walk>>

StepWrites ==
    /\ at = "write"
    /\ walk' = [walk EXCEPT !.stepped = @ \union {unit[cur_unit_index]}]
    /\ at' = "next"
    /\ UNCHANGED <<networkVars, cur_unit_index>>

WalkGoesOn ==
    /\ at = "next"
    /\ cur_unit_index' = chain_next_index[cur_unit_index]
    /\ at' = "read"
    /\ UNCHANGED <<networkVars, walk>>

WalkEnds ==
    /\ at = "read"
    /\ cur_unit_index = InvalidIndex
    /\ at' = "timer"
    /\ UNCHANGED <<networkVars, cur_unit_index, walk>>

-----------------------------------------------------------------------------
Walking == StepReads \/ StepWrites \/ WalkGoesOn \/ WalkEnds

UnitNext ==
    \/ \E i \in Tokens : PushBegins(i) \/ RemoveBegins(i)
    \/ PushLinks \/ PushEnds \/ LocationWritten \/ RemoveEnds
    \/ WalkBegins \/ Walking

\* The logic thread runs; nothing is asked of the network thread.
UnitSpec == UnitInit /\ [][UnitNext]_unitVars /\ WF_unitVars(Walking)

-----------------------------------------------------------------------------
\* Properties

\* The elements found by following f from i.  A cycle is cut.
Followed(f, i) ==
    LET from[n \in 0 .. Cardinality(Tokens)] ==
          [k \in Index |->
              IF n = 0 \/ k = InvalidIndex THEN <<>>
              ELSE <<k>> \o from[n - 1][f[k]]]
    IN  from[Cardinality(Tokens)][i]

\* To who follows the links from the head the chain is a sequence at every
\* moment, in the middle of a call too: units come at its end and leave from
\* anywhere, in one step each.
chain == Followed(chain_next_index, chain_head_index)

Sequence == INSTANCE IndexSequence

ImplementsSequence == Sequence!ChainSpec

\* Between two calls the chain is the same from both ends and holds exactly the
\* units that are registered: chainRemove finds both neighbors through it.
LinksAgree ==
    call = NoCall =>
        /\ chain = Reverse(Followed(chain_previous_index, chain_tail_index))
        /\ ToSet(chain) = allocated

\* "such race condition does not lead to crash", node_server.cpp:120: the logic
\* thread never dereferences an element of a page that does not exist.
WalkerOnPage ==
    cur_unit_index # InvalidIndex => PageOf(cur_unit_index) \in pages

\* "or dead-lock", node_server.cpp:120: a walk ends once units stop coming.
WalkTerminates == at # "timer" ~> at = "timer"

\* gameStep is called at most once for a unit in a walk, although units leave
\* and their elements are linked again at the end, before the walk gets there.
\* A walk during which no unit leaves moves every unit that was there when it
\* began, although others are being linked.
EachUnitOnce ==
    [][/\ StepWrites => unit[cur_unit_index] \notin walk.stepped
       /\ WalkEnds /\ ~walk.removed => walk.there \subseteq walk.stepped]_unitVars
=============================================================================
