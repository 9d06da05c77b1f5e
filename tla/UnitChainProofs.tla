--------------------------- MODULE UnitChainProofs ---------------------------
(***************************************************************************)
(* The unit list, for any number of units and any size of pages.           *)
(*                                                                         *)
(* "such race condition does not lead to crash": whatever the network      *)
(* thread does, the logic thread only dereferences elements whose page     *)
(* exists (UnitInv: links only lead to such elements).                     *)
(*                                                                         *)
(* At every moment the links stand for a sequence of elements (StandsFor): *)
(* along it the units are in the order in which they came, so that the     *)
(* logic thread, which only goes along links, gets to later and later      *)
(* units.  So it moves none twice, and passes over none unless one left.   *)
(* Followed, the recursive function, finds that very sequence; this is     *)
(* shown by taking the least number of steps for which it would not.       *)
(***************************************************************************)
EXTENDS UnitChain, SequenceTheorems, FiniteSetTheorems, WellFoundedInduction, TLAPS

\* An index that may be followed.
Safe(x) == x # InvalidIndex => PageOf(x) \in pages

\* Every index that a thread could come to follow is safe, not only the one
\* that the logic thread is at: it gets there by any of the others.
LinksSafe ==
    /\ \A i \in allocated : PageOf(i) \in pages
    /\ \A i \in Tokens : Safe(chain_next_index[i]) /\ Safe(chain_previous_index[i])
    /\ Safe(chain_head_index)
    /\ Safe(chain_tail_index)
    /\ Safe(cur_unit_index)

ListTypeOK ==
    /\ allocated \subseteq Tokens
    /\ chain_previous_index \in [Tokens -> Index]
    /\ chain_next_index \in [Tokens -> Index]
    /\ {chain_head_index, chain_tail_index, cur_unit_index} \subseteq Index

CallTypeOK == call \in Call /\ (call # NoCall => call.index \in allocated)

\* Every element in use has a unit, and gameStep is only called for an element.
WalkSound ==
    /\ \A i \in allocated : unit[i] \in 1 .. spawned
    /\ at \in {"write", "next"} => cur_unit_index # InvalidIndex

UnitInv == UnitTypeOK /\ LinksSafe /\ WalkSound

-----------------------------------------------------------------------------
\* A call that is under way has an operation of its kind, and an index.
LEMMA CallKinds ==
    ASSUME call \in Call
    PROVE  /\ call = NoCall <=> call.op = "none"
           /\ call.op = "push" => /\ call # NoCall /\ call.index \in Tokens
                                  /\ call \in [op : {"push"}, index : Tokens,
                                               step : {"link", "tail", "write"}]
           /\ call.op = "remove" => /\ call # NoCall /\ call.index \in Tokens
BY DEF Call, NoCall

\* Taking out an element leaves its neighbors with links to each other.
LEMMA BypassSafe ==
    ASSUME UnitInv, NEW p \in Index, NEW n \in Index, Safe(p), Safe(n),
           bypass(p, n), UNCHANGED <<pages, allocated, cur_unit_index>>
    PROVE  ListTypeOK' /\ LinksSafe'
<1> USE DEF UnitInv, UnitTypeOK, LinksSafe, ListTypeOK, Safe, Index
<1>1. ListTypeOK'
  BY InvalidAssumption DEF bypass
<1>2. LinksSafe'
  BY InvalidAssumption DEF bypass
<1>. QED BY <1>1, <1>2

-----------------------------------------------------------------------------
\* The start state satisfies the inductive invariant.
LEMMA InitKeeps == UnitInit => UnitInv
  BY SizesAssumption DEF UnitInit, UnitInv, UnitTypeOK, LinksSafe, WalkSound, Safe,
     Index, Call, NoCall, Nobody

\* A new element's page exists before anything links to it.
LEMMA PushBeginsKeeps ==
    ASSUME NEW i \in Tokens, UnitInv, PushBegins(i)
    PROVE  UnitInv'
<1>1. /\ spawned' = spawned + 1 /\ spawned' \in 1 .. MaxUnits
      /\ pages' = pages \union {PageOf(i)}
      /\ allocated' = allocated \union {i}
      /\ chain_next_index' = [chain_next_index EXCEPT ![i] = InvalidIndex]
      /\ chain_previous_index' = [chain_previous_index EXCEPT ![i] = chain_tail_index]
      /\ unit' = [unit EXCEPT ![i] = spawned + 1]
      /\ call' = [op |-> "push", index |-> i, step |-> "link"]
      /\ UNCHANGED <<chain_head_index, chain_tail_index, cur_unit_index, at, walk>>
  BY SizesAssumption
  DEF PushBegins, allocateBlock, UnitInv, UnitTypeOK, walkVars
<1>2. /\ chain_next_index' \in [Tokens -> Index]
      /\ chain_previous_index' \in [Tokens -> Index]
      /\ {chain_head_index', chain_tail_index', cur_unit_index'} \subseteq Index
      /\ allocated' \subseteq Tokens
      /\ pages' \subseteq {PageOf(k) : k \in Tokens}
  BY <1>1 DEF UnitInv, UnitTypeOK, Index
<1>3. call' \in Call /\ call'.index \in allocated'
  BY <1>1 DEF Call
<1>4. 1 .. spawned \subseteq 1 .. spawned' /\ 0 .. spawned \subseteq 0 .. spawned'
  BY <1>1, SizesAssumption DEF UnitInv, UnitTypeOK
<1>5. unit' \in [Tokens -> 0 .. spawned']
  BY <1>1, <1>4 DEF UnitInv, UnitTypeOK
<1>6. walk' \in [there : SUBSET (1 .. spawned'), removed : BOOLEAN,
                stepped : SUBSET (0 .. spawned')]
  BY <1>1, <1>4 DEF UnitInv, UnitTypeOK
<1>7. UnitTypeOK'
  BY <1>1, <1>2, <1>3, <1>5, <1>6, SizesAssumption DEF UnitInv, UnitTypeOK
<1>8. LinksSafe'
  BY <1>1 DEF UnitInv, UnitTypeOK, LinksSafe, Safe
<1>9. WalkSound'
  BY <1>1, <1>4 DEF UnitInv, UnitTypeOK, WalkSound
<1> QED
  BY <1>7, <1>8, <1>9 DEF UnitInv

\* The old tail, the tail and the head only get the index of the element that
\* is being linked.
LEMMA PushGoesOnKeeps ==
    ASSUME UnitInv, PushLinks \/ PushEnds \/ LocationWritten
    PROVE  UnitInv'
<1>1. call.op = "push"
  BY DEF PushLinks, PushEnds, LocationWritten, InPush
<1>2. /\ call \in [op : {"push"}, index : Tokens, step : {"link", "tail", "write"}]
      /\ call.index \in allocated /\ call.index \in Index
      /\ Safe(call.index)
  BY <1>1, CallKinds DEF UnitInv, UnitTypeOK, LinksSafe, Safe, Index
<1>3. UNCHANGED <<pages, allocated, chain_previous_index, spawned, unit,
                 cur_unit_index, at, walk>>
  BY DEF PushLinks, PushEnds, LocationWritten, listVars, walkVars
<1>4. \/ call' = NoCall
      \/ \E s \in {"tail", "write"} : call' = [call EXCEPT !.step = s]
  BY DEF PushLinks, PushEnds, LocationWritten
<1>5. call' \in Call /\ (call' # NoCall => call'.index \in allocated')
  BY <1>2, <1>3, <1>4 DEF Call
<1>6. /\ chain_next_index' \in [Tokens -> Index]
      /\ \A i \in Tokens : Safe(chain_next_index'[i])
  <2>1. CASE chain_next_index' = chain_next_index
    BY <2>1 DEF UnitInv, UnitTypeOK, LinksSafe
  <2>2. CASE chain_next_index' = [chain_next_index EXCEPT ![chain_tail_index] = call.index]
    BY <2>2, <1>2 DEF UnitInv, UnitTypeOK, LinksSafe
  <2> QED
    BY <2>1, <2>2 DEF PushLinks, PushEnds, LocationWritten, listVars
<1>7. /\ {chain_head_index', chain_tail_index'} \subseteq Index
      /\ Safe(chain_head_index') /\ Safe(chain_tail_index')
  BY <1>2 DEF PushLinks, PushEnds, LocationWritten, headAfterPush, listVars,
     UnitInv, UnitTypeOK, LinksSafe
<1>8. UnitTypeOK'
  BY <1>3, <1>5, <1>6, <1>7 DEF UnitInv, UnitTypeOK
<1>9. LinksSafe'
  BY <1>3, <1>6, <1>7 DEF UnitInv, LinksSafe, Safe
<1>10. WalkSound'
  BY <1>3 DEF UnitInv, WalkSound
<1> QED
  BY <1>8, <1>9, <1>10 DEF UnitInv

\* An element that is taken out keeps its links for a while, and its page for
\* good.
LEMMA RemoveKeeps ==
    ASSUME UnitInv, RemoveEnds \/ \E i \in Tokens : RemoveBegins(i)
    PROVE  UnitInv'
<1>1. CASE \E i \in Tokens : RemoveBegins(i)
  <2>1. PICK i \in Tokens : RemoveBegins(i)
    BY <1>1
  <2>2. /\ i \in allocated
        /\ bypass(chain_previous_index[i], chain_next_index[i])
        /\ call' = [op |-> "remove", index |-> i, step |-> "reset"]
        /\ walk' = [walk EXCEPT !.removed = TRUE]
        /\ UNCHANGED <<pages, allocated, spawned, unit, cur_unit_index, at>>
    BY <2>1 DEF RemoveBegins, find
  <2>3. ListTypeOK' /\ LinksSafe'
    BY <2>2, BypassSafe DEF UnitInv, UnitTypeOK, LinksSafe
  <2>4. call' \in Call /\ call'.index \in allocated'
    BY <2>2 DEF Call
  <2>5. walk' \in [there : SUBSET (1 .. spawned), removed : BOOLEAN,
                  stepped : SUBSET (0 .. spawned)]
    BY <2>2 DEF UnitInv, UnitTypeOK
  <2>6. UnitTypeOK'
    BY <2>2, <2>3, <2>4, <2>5 DEF UnitInv, UnitTypeOK, ListTypeOK
  <2>7. WalkSound'
    BY <2>2 DEF UnitInv, WalkSound
  <2> QED
    BY <2>3, <2>6, <2>7 DEF UnitInv
<1>2. CASE RemoveEnds
  <2>1. call' = NoCall /\ pages' = pages /\ allocated' \subseteq allocated
        /\ UNCHANGED <<chain_head_index, chain_tail_index, spawned, unit,
                       cur_unit_index, at, walk>>
    BY <1>2 DEF RemoveEnds, deallocateBlock, walkVars
  <2>2. /\ chain_previous_index' = [chain_previous_index EXCEPT ![call.index] = InvalidIndex]
        /\ chain_next_index' = [chain_next_index EXCEPT ![call.index] = InvalidIndex]
    BY <1>2 DEF RemoveEnds
  <2>3. UnitTypeOK'
    BY <2>1, <2>2 DEF UnitInv, UnitTypeOK, Call, Index
  <2>4. LinksSafe'
    BY <2>1, <2>2 DEF UnitInv, UnitTypeOK, LinksSafe, Safe
  <2>5. WalkSound'
    BY <2>1 DEF UnitInv, WalkSound
  <2> QED
    BY <2>3, <2>4, <2>5 DEF UnitInv
<1> QED
  BY <1>1, <1>2

\* The logic thread gets to an element by the head or by a link.
LEMMA WalkKeeps ==
    ASSUME UnitInv, WalkBegins \/ Walking
    PROVE  UnitInv'
<1>1. UNCHANGED networkVars
  BY DEF WalkBegins, Walking, StepReads, StepWrites, WalkGoesOn, WalkEnds
<1>2. cur_unit_index' \in Index /\ Safe(cur_unit_index')
  <2>1. CASE WalkGoesOn
    BY <2>1 DEF WalkGoesOn, UnitInv, UnitTypeOK, LinksSafe, WalkSound, Index
  <2> QED
    BY <2>1
    DEF WalkBegins, Walking, StepReads, StepWrites, WalkEnds, UnitInv,
        UnitTypeOK, LinksSafe
<1>3. at' \in {"timer", "read", "write", "next"}
  BY DEF WalkBegins, Walking, StepReads, StepWrites, WalkGoesOn, WalkEnds
<1>4. walk' \in [there : SUBSET (1 .. spawned), removed : BOOLEAN,
                stepped : SUBSET (0 .. spawned)]
  <2>1. CASE WalkBegins
    <3>1. linked \subseteq 1 .. spawned
      BY DEF linked, UnitInv, WalkSound
    <3> QED
      BY <2>1, <3>1 DEF WalkBegins
  <2>2. CASE StepWrites
    <3>1. unit[cur_unit_index] \in 0 .. spawned
      BY <2>2 DEF StepWrites, UnitInv, UnitTypeOK, WalkSound, Index
    <3> QED
      BY <2>2, <3>1 DEF StepWrites, UnitInv, UnitTypeOK
  <2>3. CASE StepReads \/ WalkGoesOn \/ WalkEnds
    BY <2>3 DEF StepReads, WalkGoesOn, WalkEnds, UnitInv, UnitTypeOK
  <2> QED
    BY <2>1, <2>2, <2>3 DEF Walking
<1>5. UnitTypeOK'
  BY <1>1, <1>2, <1>3, <1>4 DEF UnitInv, UnitTypeOK, networkVars, listVars
<1>6. LinksSafe'
  BY <1>1, <1>2 DEF UnitInv, LinksSafe, Safe, networkVars, listVars
<1>7. WalkSound'
  BY <1>1 DEF WalkBegins, Walking, StepReads, StepWrites, WalkGoesOn, WalkEnds,
     UnitInv, WalkSound, networkVars, listVars
<1> QED
  BY <1>5, <1>6, <1>7 DEF UnitInv

LEMMA StepKeeps == UnitInv /\ [UnitNext]_unitVars => UnitInv'
<1> SUFFICES ASSUME UnitInv, [UnitNext]_unitVars PROVE UnitInv'
  OBVIOUS
<1>1. CASE UNCHANGED unitVars
  BY <1>1 DEF unitVars, networkVars, listVars, walkVars, UnitInv, UnitTypeOK,
     LinksSafe, WalkSound, Safe
<1> QED
  BY <1>1, PushBeginsKeeps, PushGoesOnKeeps, RemoveKeeps, WalkKeeps DEF UnitNext

-----------------------------------------------------------------------------
\* The types of the unit list hold in every behavior, and links only lead to
\* pages that exist.
THEOREM UnitListSafe == UnitSpec => []UnitInv
  BY InitKeeps, StepKeeps, PTL DEF UnitSpec

\* The logic thread is never at an element whose page does not exist, however
\* the network thread adds and removes units meanwhile.
THEOREM WalkNeverCrashes == UnitSpec => [](UnitTypeOK /\ WalkerOnPage)
<1>1. UnitInv => UnitTypeOK /\ WalkerOnPage
  BY DEF UnitInv, LinksSafe, Safe, WalkerOnPage
<1> QED
  BY <1>1, UnitListSafe, PTL

-----------------------------------------------------------------------------
\* The element at place n of a sequence; InvalidIndex stands before the first
\* and after the last.
ItemAt(s, n) == IF n \in 1 .. Len(s) THEN s[n] ELSE InvalidIndex

\* Who follows next from the head finds s.  Units are linked at the end, so
\* that their numbers increase.
ForwardLinks(s) ==
    /\ chain_head_index = ItemAt(s, 1)
    /\ \A k \in 1 .. Len(s) : chain_next_index[s[k]] = ItemAt(s, k + 1)
    /\ \A j, k \in 1 .. Len(s) : j < k => unit[s[j]] < unit[s[k]]

\* Who follows previous finds the same.  The tail lags behind in a push.
BackLinks(s) ==
    /\ \A k \in 1 .. Len(s) : chain_previous_index[s[k]] = ItemAt(s, k - 1)
    /\ ~InPush("tail") => chain_tail_index = ItemAt(s, Len(s))
    /\ InPush("tail") =>
         /\ chain_tail_index = ItemAt(s, Len(s) - 1)
         /\ Len(s) # 0 => Len(s) > 1 /\ s[Len(s)] = call.index

\* An element that is not in the chain is not in use, or the call is about it.
\* It leads into the chain only after it was taken out.
Outside(s) ==
    /\ Range(s) \subseteq allocated
    /\ \A i \in Tokens \ Range(s) :
          /\ i \in allocated => call # NoCall /\ call.index = i /\ ~InPush("write")
          /\ chain_next_index[i] # InvalidIndex =>
                /\ call.op = "remove" /\ call.index = i
                /\ chain_next_index[i] \in Range(s)
                /\ unit[i] < unit[chain_next_index[i]]
    /\ call.op = "remove" \/ InPush("link") => call.index \notin Range(s)
    /\ call.op = "push" /\ call.index \notin Range(s) =>
         /\ chain_previous_index[call.index] = chain_tail_index
         /\ \A k \in 1 .. Len(s) : unit[s[k]] < unit[call.index]

\* The logic thread only gets to units that came after those it was at.
Forward ==
    /\ at = "timer" => cur_unit_index = InvalidIndex
    /\ cur_unit_index # InvalidIndex =>
         \A u \in walk.stepped :
            u < unit[cur_unit_index] \/ (at = "next" /\ u = unit[cur_unit_index])

\* While no unit leaves, it has been at all those before the one it is at.
Behind(i) ==
    \/ cur_unit_index = InvalidIndex
    \/ unit[i] < unit[cur_unit_index]
    \/ at = "next" /\ i = cur_unit_index

Reached(s) ==
    ~walk.removed /\ at # "timer" =>
        /\ call.op # "remove"
        /\ \A u \in walk.there : \E k \in 1 .. Len(s) : unit[s[k]] = u
        /\ cur_unit_index # InvalidIndex => cur_unit_index \in Range(s)
        /\ \A k \in 1 .. Len(s) :
              unit[s[k]] \in walk.there /\ Behind(s[k]) => unit[s[k]] \in walk.stepped

StandsFor(s) ==
    /\ s \in Seq(Tokens)
    /\ ForwardLinks(s) /\ BackLinks(s) /\ Outside(s)
    /\ Forward /\ Reached(s)

\* A sequence of tokens as a function on its places.
LEMMA SeqFacts ==
    ASSUME NEW s \in Seq(Tokens)
    PROVE  /\ Len(s) \in Nat /\ DOMAIN s = 1 .. Len(s)
           /\ \A k \in 1 .. Len(s) : s[k] \in Tokens /\ s[k] \in Range(s)
           /\ \A i \in Range(s) : i \in Tokens /\ \E k \in 1 .. Len(s) : s[k] = i
           /\ InvalidIndex \notin Range(s)
<1>1. Len(s) \in Nat /\ DOMAIN s = 1 .. Len(s) /\ s \in [1 .. Len(s) -> Tokens]
  BY LenProperties
<1> QED
  BY <1>1, InvalidAssumption DEF Range

\* Appending adds one place.
LEMMA AppendFacts ==
    ASSUME NEW s \in Seq(Tokens), NEW i \in Tokens
    PROVE  LET t == Append(s, i)
           IN
           /\ t \in Seq(Tokens) /\ Len(t) = Len(s) + 1 /\ Len(s) \in Nat
           /\ \A k \in 1 .. Len(s) : t[k] = s[k]
           /\ t[Len(s) + 1] = i
           /\ Range(t) = Range(s) \union {i}
<1> DEFINE t == Append(s, i)
<1>1. /\ t \in Seq(Tokens) /\ Len(t) = Len(s) + 1 /\ Len(s) \in Nat
      /\ \A k \in 1 .. Len(s) : t[k] = s[k]
      /\ t[Len(s) + 1] = i
  BY AppendProperties, SeqFacts
<1>2. DOMAIN t = 1 .. Len(s) + 1 /\ DOMAIN s = 1 .. Len(s)
  BY <1>1, SeqFacts
<1>3. Range(t) = Range(s) \union {i}
  BY <1>1, <1>2 DEF Range
<1> QED
  BY <1>1, <1>3

\* Closing a place moves those after it.
LEMMA RemoveAtFacts ==
    ASSUME NEW s \in Seq(Tokens), NEW n \in 1 .. Len(s)
    PROVE  LET t == RemoveAt(s, n)
           IN
           /\ t \in Seq(Tokens) /\ Len(t) = Len(s) - 1
           /\ \A k \in 1 .. Len(t) : t[k] = IF k < n THEN s[k] ELSE s[k + 1]
<1> DEFINE t == RemoveAt(s, n)
           a == SubSeq(s, 1, n - 1)
           b == SubSeq(s, n + 1, Len(s))
<1>1. Len(s) \in Nat \ {0} /\ n \in Nat /\ n \in 1 .. Len(s)
      /\ \A k \in 1 .. Len(s) : s[k] \in Tokens
  BY SeqFacts
<1>2. /\ a \in Seq(Tokens)
      /\ Len(a) = n - 1
      /\ \A k \in 1 .. n - 1 : a[k] = s[k]
  BY <1>1, SubSeqProperties
<1>3. /\ b \in Seq(Tokens)
      /\ Len(b) = Len(s) - n
      /\ \A k \in 1 .. Len(s) - n : b[k] = s[n + k]
  BY <1>1, SubSeqProperties
<1>4. t = a \o b
  BY DEF RemoveAt
<1> HIDE DEF a, b, t
<1>5. /\ t \in Seq(Tokens) /\ Len(t) = Len(a) + Len(b)
      /\ \A k \in 1 .. Len(a) + Len(b) :
            t[k] = IF k <= Len(a) THEN a[k] ELSE b[k - Len(a)]
  <2>1. a \in Seq(Tokens) /\ b \in Seq(Tokens)
    BY <1>2, <1>3
  <2>2. /\ a \o b \in Seq(Tokens)
        /\ Len(a \o b) = Len(a) + Len(b)
        /\ \A k \in 1 .. Len(a) + Len(b) :
              (a \o b)[k] = IF k <= Len(a) THEN a[k] ELSE b[k - Len(a)]
    BY <2>1, ConcatProperties, Zenon
  <2> QED
    BY <1>4, <2>2, Zenon
<1>5a. Len(t) = Len(s) - 1
  BY <1>1, <1>2, <1>3, <1>5
<1>6. ASSUME NEW k \in 1 .. Len(t)
      PROVE  t[k] = IF k < n THEN s[k] ELSE s[k + 1]
  <2>1. k \in Nat /\ k \in 1 .. Len(a) + Len(b)
    BY <1>1, <1>2, <1>3, <1>5, <1>5a
  <2>2. CASE k < n
    BY <1>1, <1>2, <1>5, <2>1, <2>2
  <2>3. CASE ~(k < n)
    <3>1. t[k] = b[k - (n - 1)] /\ k - (n - 1) \in 1 .. Len(s) - n
      BY <1>1, <1>2, <1>3, <1>5, <2>1, <2>3
    <3>2. t[k] = s[n + (k - (n - 1))] /\ n + (k - (n - 1)) = k + 1
      BY <1>1, <1>3, <2>1, <3>1
    <3> QED
      BY <2>3, <3>2
  <2> QED
    BY <2>2, <2>3
<1> QED
  BY <1>5, <1>5a, <1>6 DEF t

-----------------------------------------------------------------------------
\* The chain is empty in the start state.
LEMMA InitStands == UnitInit => StandsFor(<<>>)
<1> SUFFICES ASSUME UnitInit PROVE StandsFor(<<>>)
  OBVIOUS
<1>1. <<>> \in Seq(Tokens) /\ Len(<<>>) = 0 /\ Range(<<>>) = {}
  BY DEF Range
<1>2. call.op = "none" /\ ~InPush("tail") /\ ~InPush("link")
  BY DEF UnitInit, NoCall, InPush
<1> QED
  BY <1>1, <1>2
  DEF UnitInit, StandsFor, ForwardLinks, BackLinks, Outside, Forward, Reached,
      ItemAt

\* A push first changes elements that no link leads to.
LEMMA PushBeginsStands ==
    ASSUME UnitInv, NEW s, StandsFor(s), NEW i \in Tokens, PushBegins(i)
    PROVE  StandsFor(s)'
<1>1. /\ call = NoCall /\ i \notin allocated
      /\ allocated' = allocated \union {i}
      /\ chain_next_index' = [chain_next_index EXCEPT ![i] = InvalidIndex]
      /\ chain_previous_index' = [chain_previous_index EXCEPT ![i] = chain_tail_index]
      /\ unit' = [unit EXCEPT ![i] = spawned + 1]
      /\ call' = [op |-> "push", index |-> i, step |-> "link"]
      /\ UNCHANGED <<chain_head_index, chain_tail_index, cur_unit_index, at, walk>>
  BY DEF PushBegins, allocateBlock, find, walkVars
<1>2. /\ call.op = "none" /\ ~InPush("tail")
      /\ call'.op = "push" /\ call'.index = i
      /\ InPush("link")' /\ ~InPush("tail")' /\ ~InPush("write")'
  BY <1>1 DEF InPush, NoCall
<1>3. /\ Len(s) \in Nat /\ s \in Seq(Tokens)
      /\ \A k \in 1 .. Len(s) : s[k] \in Tokens /\ s[k] \in Range(s) /\ s[k] # i
      /\ i \notin Range(s) /\ Range(s) \subseteq allocated
      /\ \A j \in Range(s) : j \in Tokens /\ \E k \in 1 .. Len(s) : s[k] = j
  BY <1>1, SeqFacts DEF StandsFor, Outside
<1>4. /\ chain_next_index \in [Tokens -> Index]
      /\ chain_previous_index \in [Tokens -> Index]
      /\ unit \in [Tokens -> 0 .. spawned]
      /\ spawned \in Nat
      /\ walk.stepped \subseteq 0 .. spawned
      /\ cur_unit_index \in Tokens \union {InvalidIndex}
  BY SizesAssumption DEF UnitInv, UnitTypeOK, Index
<1>5. /\ unit'[i] = spawned + 1
      /\ \A j \in Tokens : j # i => unit'[j] = unit[j]
      /\ \A j \in Tokens : unit[j] \in 0 .. spawned
  BY <1>1, <1>4
<1>6. ForwardLinks(s)'
  BY <1>1, <1>3, <1>4, <1>5 DEF StandsFor, ForwardLinks, ItemAt
<1>7. BackLinks(s)'
  BY <1>1, <1>2, <1>3, <1>4 DEF StandsFor, BackLinks, ItemAt
<1>8. Outside(s)'
  BY <1>1, <1>2, <1>3, <1>4, <1>5 DEF StandsFor, Outside
<1>9. Forward'
  BY <1>1, <1>4, <1>5 DEF StandsFor, Forward
<1>10. Reached(s)'
  <2> SUFFICES ASSUME ~walk.removed, at # "timer"
               PROVE  Reached(s)'
    BY <1>1 DEF Reached
  <2>1. /\ \A u \in walk.there : \E k \in 1 .. Len(s) : unit[s[k]] = u
        /\ cur_unit_index # InvalidIndex => cur_unit_index \in Range(s)
        /\ \A k \in 1 .. Len(s) :
              unit[s[k]] \in walk.there /\ Behind(s[k]) => unit[s[k]] \in walk.stepped
    BY DEF StandsFor, Reached
  <2>2. \A k \in 1 .. Len(s) : unit'[s[k]] = unit[s[k]]
    BY <1>3, <1>5
  <2>3. cur_unit_index # InvalidIndex => unit'[cur_unit_index] = unit[cur_unit_index]
    BY <1>3, <1>5, <2>1
  <2>4. \A k \in 1 .. Len(s) : Behind(s[k])' => Behind(s[k])
    BY <1>1, <2>2, <2>3 DEF Behind
  <2> QED
    BY <1>1, <1>2, <2>1, <2>2, <2>4 DEF Reached
<1> QED
  BY <1>3, <1>6, <1>7, <1>8, <1>9, <1>10 DEF StandsFor

\* No element is in the chain twice.
LEMMA StandsDistinct ==
    ASSUME UnitInv, NEW s, StandsFor(s)
    PROVE  \A j, k \in 1 .. Len(s) : s[j] = s[k] => j = k
<1>1. /\ Len(s) \in Nat
      /\ \A k \in 1 .. Len(s) : unit[s[k]] \in 0 .. spawned
      /\ \A j, k \in 1 .. Len(s) : j < k => unit[s[j]] < unit[s[k]]
  BY SeqFacts DEF UnitInv, UnitTypeOK, StandsFor, ForwardLinks
<1>2. ASSUME NEW j \in 1 .. Len(s), NEW k \in 1 .. Len(s), s[j] = s[k]
      PROVE  j = k
  <2>1. ~(j < k) /\ ~(k < j)
    BY <1>1, <1>2
  <2> QED
    BY <1>1, <2>1
<1> QED
  BY <1>2

\* The element of a push.
LEMMA PushFacts ==
    ASSUME UnitInv, call.op = "push", NEW step, call' = [call EXCEPT !.step = step]
    PROVE  /\ call.index \in Tokens /\ call.index \in allocated /\ call # NoCall
           /\ call'.op = "push" /\ call'.index = call.index /\ call'.step = step
           /\ call' # NoCall
<1>1. call \in [op : {"push"}, index : Tokens, step : {"link", "tail", "write"}]
  BY CallKinds DEF UnitInv, UnitTypeOK
<1>2. call # NoCall /\ call.index \in allocated
  BY CallKinds DEF UnitInv, UnitTypeOK
<1>3. call'.op = "push" /\ call'.index = call.index /\ call'.step = step
  BY <1>1
<1> QED
  BY <1>1, <1>2, <1>3 DEF NoCall

\* The link from the tail puts the element at the end.
LEMMA PushLinksStands ==
    ASSUME UnitInv, NEW s, StandsFor(s), PushLinks, chain_tail_index # InvalidIndex,
           NEW t, t = Append(s, call.index)
    PROVE  StandsFor(t)'
<1> DEFINE i == call.index
<1>1. /\ call.op = "push" /\ InPush("link") /\ ~InPush("tail") /\ ~InPush("write")
      /\ chain_next_index' = [chain_next_index EXCEPT ![chain_tail_index] = i]
      /\ call' = [call EXCEPT !.step = "tail"]
      /\ UNCHANGED <<allocated, chain_previous_index, chain_head_index,
                     chain_tail_index, unit, cur_unit_index, at, walk>>
  BY DEF PushLinks, InPush, walkVars
<1>2. /\ i \in Tokens /\ i \in allocated /\ call # NoCall
      /\ call'.op = "push" /\ call'.index = i /\ call' # NoCall
      /\ InPush("tail")' /\ ~InPush("link")' /\ ~InPush("write")'
  BY <1>1, PushFacts DEF InPush
<1>3. /\ i \notin Range(s)
      /\ chain_previous_index[i] = chain_tail_index
      /\ chain_next_index[i] = InvalidIndex
      /\ \A k \in 1 .. Len(s) : unit[s[k]] < unit[i]
      /\ chain_tail_index = ItemAt(s, Len(s))
      /\ Range(s) \subseteq allocated
  BY <1>1, <1>2 DEF StandsFor, Outside, BackLinks
<1> HIDE DEF i
<1>4. /\ Len(s) \in Nat /\ s \in Seq(Tokens)
      /\ \A k \in 1 .. Len(s) : s[k] \in Tokens /\ s[k] \in Range(s) /\ s[k] # i
      /\ \A j \in Range(s) : j \in Tokens /\ \E k \in 1 .. Len(s) : s[k] = j
  BY <1>3, SeqFacts DEF StandsFor
<1>5. Len(s) # 0 /\ chain_tail_index = s[Len(s)]
  BY <1>3, <1>4 DEF ItemAt
<1>6. /\ t \in Seq(Tokens) /\ Len(t) = Len(s) + 1
      /\ \A k \in 1 .. Len(s) : t[k] = s[k]
      /\ t[Len(s) + 1] = i
      /\ Range(t) = Range(s) \union {i}
  <2>1. t = Append(s, i)
    BY DEF i
  <2>2. i \in Tokens /\ s \in Seq(Tokens)
    BY <1>2, <1>4
  <2> QED
    BY <2>1, <2>2, AppendFacts
<1>7. /\ \A k \in 0 .. Len(s) : ItemAt(t, k) = ItemAt(s, k)
      /\ ItemAt(t, Len(s) + 1) = i
      /\ ItemAt(t, Len(s) + 2) = InvalidIndex
  BY <1>4, <1>6 DEF ItemAt
<1>8. /\ chain_next_index \in [Tokens -> Index]
      /\ unit \in [Tokens -> 0 .. spawned] /\ spawned \in Nat
      /\ walk.there \subseteq 1 .. spawned
  BY SizesAssumption DEF UnitInv, UnitTypeOK
<1>9. \A j, k \in 1 .. Len(s) : s[j] = s[k] => j = k
  BY StandsDistinct
<1>10. ForwardLinks(t)'
  <2>1. chain_head_index' = ItemAt(t, 1)
    BY <1>1, <1>4, <1>5, <1>7 DEF StandsFor, ForwardLinks
  <2>2. ASSUME NEW k \in 1 .. Len(t)
        PROVE  chain_next_index'[t[k]] = ItemAt(t, k + 1)
    <3>1. CASE k < Len(s)
      <4>1. /\ t[k] = s[k] /\ s[k] # s[Len(s)] /\ s[k] \in Tokens
            /\ ItemAt(t, k + 1) = ItemAt(s, k + 1)
        BY <1>4, <1>5, <1>6, <1>7, <1>9, <3>1
      <4>2. chain_next_index[s[k]] = ItemAt(s, k + 1)
        BY <1>4, <3>1 DEF StandsFor, ForwardLinks
      <4> QED
        BY <1>1, <1>5, <1>8, <4>1, <4>2
    <3>2. CASE k = Len(s)
      BY <1>1, <1>4, <1>5, <1>6, <1>7, <1>8, <3>2 DEF i
    <3>3. CASE k = Len(s) + 1
      <4>1. t[k] = i /\ i # s[Len(s)] /\ ItemAt(t, k + 1) = InvalidIndex
        BY <1>4, <1>5, <1>6, <1>7, <3>3
      <4> QED
        BY <1>1, <1>2, <1>3, <1>5, <1>8, <4>1
    <3> QED
      BY <1>4, <1>6, <3>1, <3>2, <3>3
  <2>3. \A j, k \in 1 .. Len(t) : j < k => unit'[t[j]] < unit'[t[k]]
    BY <1>1, <1>3, <1>4, <1>6 DEF StandsFor, ForwardLinks
  <2> QED
    BY <2>1, <2>2, <2>3 DEF ForwardLinks, ItemAt
<1>11. BackLinks(t)'
  <2>1. ASSUME NEW k \in 1 .. Len(t)
        PROVE  chain_previous_index[t[k]] = ItemAt(t, k - 1)
    <3>1. CASE k \in 1 .. Len(s)
      BY <1>4, <1>6, <1>7, <3>1 DEF StandsFor, BackLinks
    <3>2. CASE k = Len(s) + 1
      BY <1>3, <1>4, <1>6, <1>7, <3>2
    <3> QED
      BY <1>4, <1>6, <3>1, <3>2
  <2>2. /\ chain_tail_index = ItemAt(t, Len(t) - 1)
        /\ Len(t) > 1 /\ t[Len(t)] = i
    <3>1. Len(t) - 1 = Len(s) /\ Len(s) \in 0 .. Len(s) /\ Len(t) > 1
      BY <1>4, <1>5, <1>6
    <3> QED
      BY <1>3, <1>6, <1>7, <3>1
  <2> QED
    BY <1>1, <1>2, <2>1, <2>2 DEF BackLinks, ItemAt
<1>12. Outside(t)'
  <2>1. \A j \in Tokens \ Range(t) : j \notin allocated /\ chain_next_index'[j] = InvalidIndex
    <3> SUFFICES ASSUME NEW j \in Tokens, j \notin Range(s), j # i
                 PROVE  j \notin allocated /\ chain_next_index'[j] = InvalidIndex
      BY <1>6
    <3>1. j \notin allocated /\ chain_next_index[j] = InvalidIndex
      BY <1>1 DEF StandsFor, Outside, i
    <3>2. j # chain_tail_index
      BY <1>4, <1>5
    <3> QED
      BY <1>1, <1>8, <3>1, <3>2
  <2> QED
    BY <1>1, <1>2, <1>3, <1>6, <2>1 DEF Outside
<1>13. Forward'
  BY <1>1 DEF StandsFor, Forward
<1>14. Reached(t)'
  <2> SUFFICES ASSUME ~walk.removed, at # "timer"
               PROVE  Reached(t)'
    BY <1>1 DEF Reached
  <2>1. /\ \A u \in walk.there : \E k \in 1 .. Len(s) : unit[s[k]] = u
        /\ cur_unit_index # InvalidIndex => cur_unit_index \in Range(s)
        /\ \A k \in 1 .. Len(s) :
              unit[s[k]] \in walk.there /\ Behind(s[k]) => unit[s[k]] \in walk.stepped
    BY DEF StandsFor, Reached
  <2>2. unit[i] \notin walk.there
    <3> SUFFICES ASSUME NEW k \in 1 .. Len(s), unit[s[k]] = unit[i]
                 PROVE  FALSE
      BY <2>1
    <3>1. unit[s[k]] < unit[i] /\ unit[i] \in 0 .. spawned
      BY <1>2, <1>3, <1>8
    <3> QED
      BY <1>8, <3>1
  <2>3. \A u \in walk.there : \E k \in 1 .. Len(t) : unit[t[k]] = u
    BY <1>4, <1>6, <2>1
  <2>4. \A k \in 1 .. Len(t) :
              unit[t[k]] \in walk.there /\ Behind(t[k]) => unit[t[k]] \in walk.stepped
    BY <1>4, <1>6, <2>1, <2>2
  <2>5. \A j : Behind(j)' <=> Behind(j)
    BY <1>1 DEF Behind
  <2> QED
    BY <1>1, <1>2, <1>6, <2>1, <2>3, <2>4, <2>5 DEF Reached
<1> QED
  BY <1>6, <1>10, <1>11, <1>12, <1>13, <1>14 DEF StandsFor

\* The links that a chain is made of do not depend on the step of a call.
LEMMA SameLinks ==
    ASSUME NEW s, StandsFor(s),
           UNCHANGED <<chain_head_index, chain_next_index, unit, cur_unit_index,
                       at, walk>>
    PROVE  ForwardLinks(s)' /\ Forward'
  BY DEF StandsFor, ForwardLinks, Forward, ItemAt

LEMMA SameWalk ==
    ASSUME NEW s, StandsFor(s), call'.op # "remove",
           UNCHANGED <<unit, cur_unit_index, at, walk>>
    PROVE  Reached(s)'
  BY DEF StandsFor, Reached, Behind

\* An empty chain stays empty until the head is set.
LEMMA PushFirstStands ==
    ASSUME UnitInv, NEW s, StandsFor(s), PushLinks, chain_tail_index = InvalidIndex
    PROVE  StandsFor(s)'
<1>1. /\ call.op = "push" /\ InPush("link") /\ ~InPush("tail") /\ ~InPush("write")
      /\ call' = [call EXCEPT !.step = "tail"]
      /\ UNCHANGED <<allocated, chain_next_index, chain_previous_index,
                     chain_head_index, chain_tail_index, unit, cur_unit_index,
                     at, walk>>
  BY DEF PushLinks, InPush, walkVars
<1>2. /\ call'.op = "push" /\ call'.index = call.index /\ call' # NoCall
      /\ InPush("tail")' /\ ~InPush("link")' /\ ~InPush("write")'
  BY <1>1, PushFacts DEF InPush
<1>3. s \in Seq(Tokens) /\ Len(s) \in Nat
  BY SeqFacts DEF StandsFor
<1>4. Len(s) = 0
  <2>1. ItemAt(s, Len(s)) = InvalidIndex
    BY <1>1 DEF StandsFor, BackLinks
  <2>2. \A k \in 1 .. Len(s) : s[k] # InvalidIndex
    BY <1>3, SeqFacts, InvalidAssumption
  <2> QED
    BY <1>3, <2>1, <2>2 DEF ItemAt
<1>5. BackLinks(s)'
  BY <1>1, <1>2, <1>3, <1>4 DEF BackLinks, ItemAt
<1>6. Outside(s)'
  BY <1>1, <1>2 DEF StandsFor, Outside
<1>7. ForwardLinks(s)' /\ Forward' /\ Reached(s)'
  BY <1>1, <1>2, SameLinks, SameWalk
<1> QED
  BY <1>3, <1>5, <1>6, <1>7 DEF StandsFor

\* The tail catches up.
LEMMA PushEndsStands ==
    ASSUME UnitInv, NEW s, StandsFor(s), PushEnds, Len(s) # 0
    PROVE  StandsFor(s)'
<1>1. /\ call.op = "push" /\ ~InPush("link") /\ InPush("tail") /\ ~InPush("write")
      /\ call' = [call EXCEPT !.step = "write"]
      /\ chain_tail_index' = call.index
      /\ chain_head_index' = headAfterPush(call.index)
      /\ UNCHANGED <<allocated, chain_next_index, chain_previous_index,
                     unit, cur_unit_index, at, walk>>
  BY DEF PushEnds, InPush, walkVars
<1>2. /\ call'.op = "push" /\ call'.index = call.index /\ call' # NoCall
      /\ ~InPush("tail")' /\ ~InPush("link")' /\ InPush("write")'
  BY <1>1, PushFacts DEF InPush
<1>3. /\ s \in Seq(Tokens) /\ Len(s) \in Nat
      /\ \A k \in 1 .. Len(s) : s[k] \in Tokens /\ s[k] \in Range(s)
  BY SeqFacts DEF StandsFor
<1>4. Len(s) > 1 /\ s[Len(s)] = call.index
  BY <1>1 DEF StandsFor, BackLinks
<1>5. UNCHANGED chain_head_index
  BY <1>1, <1>3, <1>4, InvalidAssumption
  DEF StandsFor, ForwardLinks, headAfterPush, ItemAt
<1>6. BackLinks(s)'
  <2>1. call.index = ItemAt(s, Len(s))
    BY <1>3, <1>4 DEF ItemAt
  <2>2. \A k \in 1 .. Len(s) : chain_previous_index[s[k]] = ItemAt(s, k - 1)
    BY DEF StandsFor, BackLinks
  <2> QED
    BY <1>1, <1>2, <2>1, <2>2 DEF BackLinks, ItemAt
<1>7. call.index \in Range(s)
  BY <1>3, <1>4
<1>8. Outside(s)'
  BY <1>1, <1>2, <1>7 DEF StandsFor, Outside
<1>9. ForwardLinks(s)' /\ Forward' /\ Reached(s)'
  BY <1>1, <1>2, <1>5, SameLinks, SameWalk
<1> QED
  BY <1>3, <1>6, <1>8, <1>9 DEF StandsFor

\* The first element becomes the head.
LEMMA PushFirstEndsStands ==
    ASSUME UnitInv, NEW s, StandsFor(s), PushEnds, Len(s) = 0,
           NEW t, t = Append(s, call.index)
    PROVE  StandsFor(t)'
<1> DEFINE i == call.index
<1>1. /\ call.op = "push" /\ ~InPush("link") /\ InPush("tail") /\ ~InPush("write")
      /\ call' = [call EXCEPT !.step = "write"]
      /\ chain_tail_index' = i
      /\ chain_head_index' = headAfterPush(i)
      /\ UNCHANGED <<allocated, chain_next_index, chain_previous_index,
                     unit, cur_unit_index, at, walk>>
  BY DEF PushEnds, InPush, walkVars
<1>2. /\ call.index \in Tokens /\ call.index \in allocated /\ call # NoCall
      /\ call'.op = "push" /\ call'.index = call.index /\ call' # NoCall
      /\ ~InPush("tail")' /\ ~InPush("link")' /\ InPush("write")'
  BY <1>1, PushFacts DEF InPush
<1>3. s \in Seq(Tokens) /\ Range(s) = {}
  <2>1. s \in Seq(Tokens)
    BY DEF StandsFor
  <2>2. \A j \in Range(s) : \E k \in 1 .. Len(s) : s[k] = j
    BY <2>1, SeqFacts
  <2> QED
    BY <2>1, <2>2
<1>3a. i \in Tokens /\ t = Append(s, i)
  BY <1>2
<1> HIDE DEF i
<1>4. /\ t \in Seq(Tokens) /\ Len(t) = 1 /\ t[1] = i /\ Range(t) = {i}
  <2>1. s = <<>>
    BY <1>3, EmptySeq
  <2>2. t = <<i>>
    BY <1>3a, <2>1
  <2> QED
    BY <1>3a, <2>2 DEF Range
<1>5. /\ chain_next_index[i] = InvalidIndex
      /\ chain_previous_index[i] = InvalidIndex
      /\ chain_head_index = InvalidIndex
  BY <1>1, <1>2, <1>3 DEF i, StandsFor, ForwardLinks, BackLinks, Outside, ItemAt
<1>6. ForwardLinks(t)'
  BY <1>1, <1>4, <1>5 DEF ForwardLinks, ItemAt, headAfterPush
<1>7. BackLinks(t)'
  BY <1>1, <1>2, <1>4, <1>5 DEF BackLinks, ItemAt
<1>8. Outside(t)'
  BY <1>1, <1>2, <1>3, <1>4 DEF StandsFor, Outside, i
<1>9. Forward'
  BY <1>1 DEF StandsFor, Forward
<1>10. Reached(t)'
  <2> SUFFICES ASSUME ~walk.removed, at # "timer"
               PROVE  Reached(t)'
    BY <1>1 DEF Reached
  <2>1. (\A u \in walk.there : FALSE) /\ cur_unit_index = InvalidIndex
    BY <1>3 DEF StandsFor, Reached
  <2> QED
    BY <1>1, <1>2, <2>1 DEF Reached
<1> QED
  BY <1>4, <1>6, <1>7, <1>8, <1>9, <1>10 DEF StandsFor

LEMMA LocationWrittenStands ==
    ASSUME UnitInv, NEW s, StandsFor(s), LocationWritten
    PROVE  StandsFor(s)'
<1>1. /\ call.op = "push" /\ ~InPush("link") /\ ~InPush("tail") /\ InPush("write")
      /\ call' = NoCall
      /\ UNCHANGED <<allocated, chain_next_index, chain_previous_index,
                     chain_head_index, chain_tail_index,
                     unit, cur_unit_index, at, walk>>
  BY DEF LocationWritten, InPush, walkVars, listVars
<1>2. /\ call'.op = "none" /\ ~InPush("tail")' /\ ~InPush("link")'
      /\ ~InPush("write")'
  BY <1>1 DEF InPush, NoCall
<1>3. BackLinks(s)'
  BY <1>1, <1>2 DEF StandsFor, BackLinks, ItemAt
<1>4. Outside(s)'
  BY <1>1, <1>2 DEF StandsFor, Outside
<1>5. ForwardLinks(s)' /\ Forward' /\ Reached(s)'
  BY <1>1, <1>2, SameLinks, SameWalk
<1> QED
  BY <1>3, <1>4, <1>5 DEF StandsFor

\* Once an element is out of the chain its own links do not matter.
LEMMA RemoveEndsStands ==
    ASSUME UnitInv, NEW s, StandsFor(s), RemoveEnds
    PROVE  StandsFor(s)'
<1> DEFINE i == call.index
<1>1. /\ call.op = "remove" /\ ~InPush("link") /\ ~InPush("tail") /\ ~InPush("write")
      /\ call' = NoCall
      /\ chain_previous_index' = [chain_previous_index EXCEPT ![i] = InvalidIndex]
      /\ chain_next_index' = [chain_next_index EXCEPT ![i] = InvalidIndex]
      /\ allocated' = allocated \ {i}
      /\ UNCHANGED <<chain_head_index, chain_tail_index,
                     unit, cur_unit_index, at, walk>>
  BY DEF RemoveEnds, deallocateBlock, InPush, walkVars
<1>2. /\ call'.op = "none" /\ ~InPush("tail")' /\ ~InPush("link")'
      /\ ~InPush("write")'
  BY <1>1 DEF InPush, NoCall
<1>3. i \notin Range(s) /\ i \in Tokens
  BY <1>1, CallKinds DEF StandsFor, Outside, UnitInv, UnitTypeOK
<1> HIDE DEF i
<1>4. /\ Len(s) \in Nat
      /\ \A k \in 1 .. Len(s) : s[k] \in Tokens /\ s[k] \in Range(s) /\ s[k] # i
  BY <1>3, SeqFacts DEF StandsFor
<1>5. /\ chain_next_index \in [Tokens -> Index]
      /\ chain_previous_index \in [Tokens -> Index]
  BY DEF UnitInv, UnitTypeOK
<1>6. ForwardLinks(s)'
  BY <1>1, <1>4, <1>5 DEF StandsFor, ForwardLinks, ItemAt
<1>7. BackLinks(s)'
  BY <1>1, <1>2, <1>4, <1>5 DEF StandsFor, BackLinks, ItemAt
<1>8. Outside(s)'
  BY <1>1, <1>2, <1>3, <1>5 DEF StandsFor, Outside, i
<1>9. Forward' /\ Reached(s)'
  BY <1>1, <1>2, SameWalk DEF StandsFor, Forward
<1> QED
  BY <1>6, <1>7, <1>8, <1>9 DEF StandsFor

\* Taking out an element closes its place, from both sides.
LEMMA RemoveBeginsStands ==
    ASSUME UnitInv, NEW s, StandsFor(s), NEW i \in Tokens, RemoveBegins(i),
           NEW n \in 1 .. Len(s), s[n] = i, NEW t, t = RemoveAt(s, n)
    PROVE  StandsFor(t)'
<1> DEFINE p == ItemAt(s, n - 1)
           x == ItemAt(s, n + 1)
<1>1. /\ s \in Seq(Tokens) /\ Len(s) \in Nat \ {0} /\ n \in 1 .. Len(s)
      /\ \A k \in 1 .. Len(s) : s[k] \in Tokens /\ s[k] # InvalidIndex
      /\ \A j, k \in 1 .. Len(s) : s[j] = s[k] => j = k
  BY SeqFacts, StandsDistinct, InvalidAssumption DEF StandsFor
<1>2. /\ t \in Seq(Tokens) /\ Len(t) = Len(s) - 1
      /\ \A k \in 1 .. Len(t) : t[k] = IF k < n THEN s[k] ELSE s[k + 1]
  BY <1>1, RemoveAtFacts
<1>3. /\ chain_previous_index[i] = p /\ chain_next_index[i] = x
      /\ call = NoCall
  BY DEF StandsFor, ForwardLinks, BackLinks, RemoveBegins
<1>4. /\ call.op = "none" /\ ~InPush("tail")
      /\ call'.op = "remove" /\ call'.index = i /\ call' # NoCall
      /\ ~InPush("tail")' /\ ~InPush("link")' /\ ~InPush("write")'
  BY <1>3 DEF InPush, NoCall, RemoveBegins
<1>5. /\ i \in allocated
      /\ bypass(p, x)
      /\ walk' = [walk EXCEPT !.removed = TRUE]
      /\ UNCHANGED <<allocated, unit, cur_unit_index, at>>
  BY <1>3 DEF RemoveBegins, find
<1>6. /\ chain_next_index \in [Tokens -> Index]
      /\ chain_previous_index \in [Tokens -> Index]
      /\ walk \in [there : SUBSET (1 .. spawned), removed : BOOLEAN,
                   stepped : SUBSET (0 .. spawned)]
  BY DEF UnitInv, UnitTypeOK
<1>7. \A k \in Int : ItemAt(t, k) = IF k < n THEN ItemAt(s, k) ELSE ItemAt(s, k + 1)
  BY <1>1, <1>2 DEF ItemAt
<1>8. /\ p # InvalidIndex <=> n > 1
      /\ n > 1 => p = s[n - 1] /\ p \in Tokens
      /\ x # InvalidIndex <=> n < Len(s)
      /\ n < Len(s) => x = s[n + 1] /\ x \in Tokens
  BY <1>1 DEF ItemAt
<1> HIDE DEF p, x
<1>9. /\ n > 1 => /\ chain_next_index' = [chain_next_index EXCEPT ![p] = x]
                  /\ UNCHANGED chain_head_index
      /\ n = 1 => /\ chain_head_index' = x
                  /\ UNCHANGED chain_next_index
      /\ n < Len(s) => /\ chain_previous_index' = [chain_previous_index EXCEPT ![x] = p]
                       /\ UNCHANGED chain_tail_index
      /\ n = Len(s) => /\ chain_tail_index' = p
                       /\ UNCHANGED chain_previous_index
  BY <1>1, <1>5, <1>8 DEF bypass
<1>10. /\ \A k \in 1 .. Len(s) : k # n - 1 => chain_next_index'[s[k]] = ItemAt(s, k + 1)
       /\ n > 1 => chain_next_index'[s[n - 1]] = x
       /\ \A j \in Tokens \ Range(s) : chain_next_index'[j] = chain_next_index[j]
       /\ chain_next_index'[i] = x
  <2>1. \A k \in 1 .. Len(s) : k # n - 1 /\ n > 1 => s[k] # p
    BY <1>1, <1>8
  <2>2. \A k \in 1 .. Len(s) : chain_next_index[s[k]] = ItemAt(s, k + 1)
    BY DEF StandsFor, ForwardLinks
  <2>3. n > 1 => p \in Range(s) /\ s[n] # p
    BY <1>1, <1>8, <2>1, SeqFacts
  <2> QED
    BY <1>1, <1>3, <1>6, <1>8, <1>9, <2>1, <2>2, <2>3
<1>11. /\ \A k \in 1 .. Len(s) : k # n + 1 => chain_previous_index'[s[k]] = ItemAt(s, k - 1)
       /\ n < Len(s) => chain_previous_index'[s[n + 1]] = p
  <2>1. \A k \in 1 .. Len(s) : k # n + 1 /\ n < Len(s) => s[k] # x
    BY <1>1, <1>8
  <2>2. \A k \in 1 .. Len(s) : chain_previous_index[s[k]] = ItemAt(s, k - 1)
    BY DEF StandsFor, BackLinks
  <2> QED
    BY <1>1, <1>6, <1>8, <1>9, <2>1, <2>2
<1>12. ForwardLinks(t)'
  <2>1. chain_head_index' = ItemAt(t, 1)
    <3>1. chain_head_index = ItemAt(s, 1)
      BY DEF StandsFor, ForwardLinks
    <3>2. ItemAt(t, 1) = IF 1 < n THEN ItemAt(s, 1) ELSE ItemAt(s, 1 + 1)
      BY <1>7
    <3> QED
      BY <1>1, <1>9, <3>1, <3>2 DEF x
  <2>2. ASSUME NEW k \in 1 .. Len(t)
        PROVE  chain_next_index'[t[k]] = ItemAt(t, k + 1)
    <3>0. /\ k \in 1 .. Len(s) /\ k \in Nat /\ k + 1 \in Int
          /\ ItemAt(t, k + 1) = IF k + 1 < n THEN ItemAt(s, k + 1)
                                ELSE ItemAt(s, k + 1 + 1)
      <4>1. k \in 1 .. Len(s) /\ k \in Nat /\ k + 1 \in Int
        BY <1>1, <1>2
      <4> QED
        BY <1>7, <4>1
    <3>1. CASE k < n - 1
      <4>1. t[k] = s[k] /\ k # n - 1 /\ k + 1 < n
        BY <1>1, <1>2, <3>0, <3>1
      <4> QED
        BY <1>10, <3>0, <4>1
    <3>2. CASE k = n - 1
      <4>1. t[k] = s[n - 1] /\ n > 1 /\ ~(k + 1 < n) /\ k + 1 + 1 = n + 1
        BY <1>1, <1>2, <3>0, <3>2
      <4> QED
        BY <1>10, <3>0, <4>1 DEF x
    <3>3. CASE k >= n
      <4>1. /\ t[k] = s[k + 1] /\ k + 1 \in 1 .. Len(s) /\ k + 1 # n - 1
            /\ ~(k + 1 < n)
        BY <1>1, <1>2, <3>0, <3>3
      <4> QED
        BY <1>10, <3>0, <4>1
    <3> QED
      BY <1>1, <3>0, <3>1, <3>2, <3>3
  <2>3. ASSUME NEW j \in 1 .. Len(t), NEW k \in 1 .. Len(t), j < k
        PROVE  unit'[t[j]] < unit'[t[k]]
    <3>1. \E a, b \in 1 .. Len(s) : a < b /\ t[j] = s[a] /\ t[k] = s[b]
      <4> DEFINE a == IF j < n THEN j ELSE j + 1
                 b == IF k < n THEN k ELSE k + 1
      <4>1. a \in 1 .. Len(s) /\ b \in 1 .. Len(s) /\ a < b
        BY <1>1, <1>2, <2>3
      <4>2. t[j] = s[a] /\ t[k] = s[b]
        BY <1>2
      <4> QED
        BY <4>1, <4>2
    <3> QED
      BY <1>5, <3>1 DEF StandsFor, ForwardLinks
  <2> QED
    BY <2>1, <2>2, <2>3 DEF ForwardLinks, ItemAt
<1>13. BackLinks(t)'
  <2>1. chain_tail_index' = ItemAt(t, Len(t))
    <3>1. chain_tail_index = ItemAt(s, Len(s))
      BY <1>4 DEF StandsFor, BackLinks
    <3>2. ItemAt(t, Len(t)) = IF Len(t) < n THEN ItemAt(s, Len(t)) ELSE ItemAt(s, Len(t) + 1)
      <4>1. Len(t) \in Int
        BY <1>1, <1>2
      <4> QED
        BY <1>7, <4>1
    <3> QED
      BY <1>1, <1>2, <1>9, <3>1, <3>2 DEF p
  <2>2. ASSUME NEW k \in 1 .. Len(t)
        PROVE  chain_previous_index'[t[k]] = ItemAt(t, k - 1)
    <3>0. /\ k \in 1 .. Len(s) /\ k \in Nat /\ k - 1 \in Int
          /\ ItemAt(t, k - 1) = IF k - 1 < n THEN ItemAt(s, k - 1)
                                ELSE ItemAt(s, k - 1 + 1)
      <4>1. k \in 1 .. Len(s) /\ k \in Nat /\ k - 1 \in Int
        BY <1>1, <1>2
      <4> QED
        BY <1>7, <4>1
    <3>1. CASE k < n
      BY <1>1, <1>2, <1>11, <3>0, <3>1
    <3>2. CASE k = n
      <4>1. t[k] = s[n + 1] /\ n < Len(s) /\ k - 1 < n
        BY <1>1, <1>2, <3>0, <3>2
      <4> QED
        BY <1>11, <3>0, <3>2, <4>1 DEF p
    <3>3. CASE k > n
      <4>1. /\ t[k] = s[k + 1] /\ k + 1 \in 1 .. Len(s) /\ k + 1 # n + 1
            /\ ~(k - 1 < n) /\ k + 1 - 1 = k - 1 + 1
        BY <1>1, <1>2, <3>0, <3>3
      <4> QED
        BY <1>11, <3>0, <4>1
    <3> QED
      BY <1>1, <3>0, <3>1, <3>2, <3>3
  <2> QED
    BY <1>4, <2>1, <2>2 DEF BackLinks, ItemAt
<1>14. Outside(t)'
  <2>1. Range(t) = Range(s) \ {i}
    <3>1. ASSUME NEW k \in 1 .. Len(s), k # n
          PROVE  \E j \in 1 .. Len(t) : t[j] = s[k]
      <4> DEFINE j == IF k < n THEN k ELSE k - 1
      <4>1. j \in 1 .. Len(t) /\ t[j] = s[k]
        BY <1>1, <1>2, <3>1
      <4> QED
        BY <4>1
    <3>2. ASSUME NEW j \in 1 .. Len(t)
          PROVE  t[j] # i /\ \E k \in 1 .. Len(s) : t[j] = s[k]
      <4> DEFINE k == IF j < n THEN j ELSE j + 1
      <4>1. k \in 1 .. Len(s) /\ k # n /\ t[j] = s[k]
        BY <1>1, <1>2, <3>2
      <4> QED
        BY <1>1, <4>1
    <3>3. DOMAIN t = 1 .. Len(t) /\ DOMAIN s = 1 .. Len(s)
      BY <1>1, <1>2, SeqFacts
    <3>4. Range(t) \subseteq Range(s) \ {i}
      BY <3>2, <3>3 DEF Range
    <3>5. ASSUME NEW j \in Range(s), j # i
          PROVE  j \in Range(t)
      <4>1. PICK k \in 1 .. Len(s) : s[k] = j
        BY <3>3 DEF Range
      <4>2. k # n
        BY <3>5, <4>1
      <4> QED
        BY <3>1, <3>3, <4>1, <4>2 DEF Range
    <3> QED
      BY <3>4, <3>5
  <2>2. /\ i \in Range(s) /\ Range(s) \subseteq allocated
        /\ \A j \in Tokens \ Range(s) : j \notin allocated /\ chain_next_index[j] = InvalidIndex
    BY <1>1, <1>3, <1>4, SeqFacts DEF StandsFor, Outside
  <2>3. x # InvalidIndex => x \in Range(t) /\ unit[i] < unit[x]
    <3> SUFFICES ASSUME x # InvalidIndex
                 PROVE  x \in Range(t) /\ unit[i] < unit[x]
      OBVIOUS
    <3>1. n < Len(s) /\ x = s[n + 1] /\ n + 1 \in 1 .. Len(s) /\ n < n + 1
      BY <1>1, <1>8
    <3>2. x \in Range(s) /\ x # i
      BY <1>1, <3>1, SeqFacts
    <3>3. unit[s[n]] < unit[s[n + 1]]
      BY <3>1 DEF StandsFor, ForwardLinks
    <3> QED
      BY <2>1, <3>1, <3>2, <3>3
  <2> QED
    BY <1>4, <1>5, <1>10, <2>1, <2>2, <2>3 DEF Outside
<1>15. walk'.stepped = walk.stepped /\ walk'.removed
  BY <1>5, <1>6
<1>16. Forward' /\ Reached(t)'
  BY <1>5, <1>15 DEF StandsFor, Forward, Reached
<1> QED
  BY <1>2, <1>12, <1>13, <1>14, <1>16 DEF StandsFor

\* The logic thread changes no link.
LEMMA WalkLinks ==
    ASSUME NEW s, StandsFor(s), UNCHANGED networkVars
    PROVE  ForwardLinks(s)' /\ BackLinks(s)' /\ Outside(s)'
  BY DEF StandsFor, ForwardLinks, BackLinks, Outside, ItemAt, InPush,
     networkVars, listVars

\* A walk begins at the oldest unit, and those that are linked are in the chain.
LEMMA WalkBeginsStands ==
    ASSUME UnitInv, NEW s, StandsFor(s), WalkBegins
    PROVE  StandsFor(s)'
<1>1. /\ cur_unit_index' = ItemAt(s, 1)
      /\ at' = "read"
      /\ walk' = [there |-> linked, removed |-> call.op = "remove", stepped |-> {}]
      /\ UNCHANGED <<call, unit>>
      /\ UNCHANGED networkVars
  BY DEF WalkBegins, StandsFor, ForwardLinks, networkVars
<1>2. /\ s \in Seq(Tokens) /\ Len(s) \in Nat
      /\ \A k \in 1 .. Len(s) : s[k] \in Tokens /\ s[k] \in Range(s)
  BY SeqFacts DEF StandsFor
<1>3. walk'.there = linked /\ walk'.stepped = {} /\ walk'.removed = (call.op = "remove")
  BY <1>1
<1>4. Forward'
  BY <1>1, <1>3 DEF Forward
<1>5. Reached(s)'
  <2> SUFFICES ASSUME call.op # "remove"
               PROVE  Reached(s)'
    BY <1>3 DEF Reached
  <2>1. ASSUME NEW u \in linked
        PROVE  \E k \in 1 .. Len(s) : unit[s[k]] = u
    <3>1. PICK i \in allocated : /\ unit[i] = u
                                 /\ InPush("link") \/ InPush("tail") => i # call.index
      BY DEF linked
    <3>2. i \in Range(s)
      <4> SUFFICES ASSUME i \notin Range(s) PROVE FALSE
        OBVIOUS
      <4>1. call # NoCall /\ call.index = i /\ ~InPush("write")
        BY <3>1 DEF UnitInv, UnitTypeOK, StandsFor, Outside
      <4>2. call \in [op : {"push"}, index : Tokens, step : {"link", "tail", "write"}]
        BY <4>1 DEF UnitInv, UnitTypeOK, Call
      <4> QED
        BY <3>1, <4>1, <4>2 DEF InPush
    <3> QED
      BY <1>2, <3>1, <3>2, SeqFacts
  <2>2. ItemAt(s, 1) # InvalidIndex => Len(s) > 0 /\ ItemAt(s, 1) = s[1]
    BY <1>2 DEF ItemAt
  <2>3. ASSUME NEW k \in 1 .. Len(s)
        PROVE  ~(Behind(s[k])')
    <3>1. ItemAt(s, 1) = s[1] /\ s[1] \in Tokens /\ 1 \in 1 .. Len(s)
      BY <1>2, <2>3 DEF ItemAt
    <3>2. unit[s[1]] \in Nat /\ unit[s[k]] \in Nat
      BY <1>2, <3>1 DEF UnitInv, UnitTypeOK
    <3>3. k # 1 => unit[s[1]] < unit[s[k]]
      BY <1>2, <2>3, <3>1 DEF StandsFor, ForwardLinks
    <3>4. ~(unit[s[k]] < unit[s[1]])
      BY <3>2, <3>3
    <3> QED
      BY <1>1, <3>1, <3>4, InvalidAssumption DEF Behind
  <2> QED
    BY <1>1, <1>2, <1>3, <2>1, <2>2, <2>3 DEF Reached
<1> QED
  BY <1>1, <1>2, <1>4, <1>5, WalkLinks DEF StandsFor

\* gameStep is called for the unit that the logic thread is at.
LEMMA StepStands ==
    ASSUME UnitInv, NEW s, StandsFor(s), StepReads \/ StepWrites \/ WalkEnds
    PROVE  StandsFor(s)'
<1>1. /\ UNCHANGED <<call, unit, cur_unit_index>>
      /\ UNCHANGED networkVars
  BY DEF StepReads, StepWrites, WalkEnds, networkVars
<1>2. CASE StepReads
  <2>1. at = "read" /\ at' = "write" /\ walk' = walk
    BY <1>2 DEF StepReads
  <2> QED
    BY <1>1, <2>1, WalkLinks DEF StandsFor, Forward, Reached, Behind
<1>3. CASE WalkEnds
  <2>1. at = "read" /\ at' = "timer" /\ walk' = walk /\ cur_unit_index = InvalidIndex
    BY <1>3 DEF WalkEnds
  <2> QED
    BY <1>1, <2>1, WalkLinks DEF StandsFor, Forward, Reached
<1>4. CASE StepWrites
  <2>1. /\ at = "write" /\ at' = "next"
        /\ walk'.stepped = walk.stepped \union {unit[cur_unit_index]}
        /\ walk'.there = walk.there /\ walk'.removed = walk.removed
    BY <1>4 DEF StepWrites, UnitInv, UnitTypeOK
  <2>2. cur_unit_index # InvalidIndex
    BY <2>1 DEF UnitInv, WalkSound
  <2>3. Forward'
    BY <1>1, <2>1 DEF StandsFor, Forward
  <2>4. Reached(s)'
    BY <1>1, <2>1, <2>2 DEF StandsFor, Reached, Behind
  <2> QED
    BY <1>1, <2>3, <2>4, WalkLinks DEF StandsFor
<1> QED
  BY <1>2, <1>3, <1>4

\* A link leads to a unit that came later, and to the next one in the chain.
LEMMA WalkGoesOnStands ==
    ASSUME UnitInv, NEW s, StandsFor(s), WalkGoesOn
    PROVE  StandsFor(s)'
<1>1. /\ at = "next" /\ at' = "read"
      /\ cur_unit_index' = chain_next_index[cur_unit_index]
      /\ walk' = walk
      /\ UNCHANGED <<call, unit>>
      /\ UNCHANGED networkVars
  BY DEF WalkGoesOn, networkVars
<1>2. /\ s \in Seq(Tokens) /\ Len(s) \in Nat
      /\ \A k \in 1 .. Len(s) : s[k] \in Tokens /\ s[k] \in Range(s)
      /\ \A i \in Range(s) : \E k \in 1 .. Len(s) : s[k] = i
  BY SeqFacts DEF StandsFor
<1>3. /\ cur_unit_index \in Tokens /\ cur_unit_index # InvalidIndex
      /\ unit \in [Tokens -> 0 .. spawned] /\ spawned \in Nat
      /\ chain_next_index \in [Tokens -> Index]
      /\ walk.stepped \subseteq 0 .. spawned
  BY <1>1, SizesAssumption DEF UnitInv, UnitTypeOK, WalkSound, Index
<1>4. ASSUME NEW k \in 1 .. Len(s), s[k] = cur_unit_index
      PROVE  /\ cur_unit_index' = ItemAt(s, k + 1)
             /\ k < Len(s) => /\ cur_unit_index' = s[k + 1]
                              /\ k + 1 \in 1 .. Len(s)
                              /\ unit[s[k]] < unit[s[k + 1]]
             /\ ~(k < Len(s)) => cur_unit_index' = InvalidIndex /\ k = Len(s)
  <2>1. chain_next_index[s[k]] = ItemAt(s, k + 1)
    BY DEF StandsFor, ForwardLinks
  <2>2. k < Len(s) => k + 1 \in 1 .. Len(s) /\ k < k + 1
    BY <1>2
  <2>3. ~(k < Len(s)) => k + 1 \notin 1 .. Len(s) /\ k = Len(s)
    BY <1>2
  <2> QED
    BY <1>1, <1>4, <2>1, <2>2, <2>3 DEF StandsFor, ForwardLinks, ItemAt
<1>5. cur_unit_index' # InvalidIndex => unit[cur_unit_index] < unit[cur_unit_index']
  <2>1. CASE cur_unit_index \in Range(s)
    BY <1>2, <1>4, <2>1
  <2>2. CASE cur_unit_index \notin Range(s)
    BY <1>1, <1>3, <2>2 DEF StandsFor, Outside
  <2> QED
    BY <2>1, <2>2
<1>6. Forward'
  <2> SUFFICES ASSUME cur_unit_index' # InvalidIndex, NEW u \in walk.stepped
               PROVE  u < unit[cur_unit_index']
    BY <1>1 DEF Forward
  <2>1. u < unit[cur_unit_index] \/ u = unit[cur_unit_index]
    BY <1>3 DEF StandsFor, Forward
  <2>2. cur_unit_index' \in Tokens
    BY <1>1, <1>3 DEF Index
  <2>3. /\ u \in Int /\ unit[cur_unit_index] \in Int /\ unit[cur_unit_index'] \in Int
        /\ unit[cur_unit_index] < unit[cur_unit_index']
    BY <1>3, <1>5, <2>2
  <2> QED
    BY <2>1, <2>3
<1>7. Reached(s)'
  <2> SUFFICES ASSUME ~walk.removed
               PROVE  Reached(s)'
    BY <1>1 DEF Reached
  <2>1. /\ call.op # "remove"
        /\ \A u \in walk.there : \E k \in 1 .. Len(s) : unit[s[k]] = u
        /\ cur_unit_index \in Range(s)
        /\ \A k \in 1 .. Len(s) :
              unit[s[k]] \in walk.there /\ Behind(s[k]) => unit[s[k]] \in walk.stepped
    BY <1>1, <1>3 DEF StandsFor, Reached
  <2>2. PICK k \in 1 .. Len(s) : s[k] = cur_unit_index
    BY <1>2, <2>1
  <2>3. cur_unit_index' # InvalidIndex => cur_unit_index' \in Range(s)
    BY <1>2, <1>4, <2>2
  <2>4. ASSUME NEW j \in 1 .. Len(s), Behind(s[j])'
        PROVE  Behind(s[j])
    <3>1. j < k \/ j = k
      <4> SUFFICES ASSUME k < j PROVE FALSE
        BY <1>2
      <4>1. k < Len(s)
        BY <1>2
      <4>2. cur_unit_index' = s[k + 1] /\ s[k + 1] \in Tokens
        BY <1>2, <1>4, <2>2, <4>1
      <4>3. unit[s[j]] < unit[s[k + 1]]
        BY <1>1, <2>4, <4>2, InvalidAssumption DEF Behind
      <4>4. j = k + 1 \/ k + 1 < j
        BY <1>2
      <4>5. unit[s[j]] \in Int /\ unit[s[k + 1]] \in Int /\ k + 1 \in 1 .. Len(s)
        BY <1>2, <1>3, <1>4, <2>2, <4>1
      <4> QED
        BY <4>3, <4>4, <4>5 DEF StandsFor, ForwardLinks
    <3> QED
      BY <1>1, <2>2, <3>1 DEF Behind, StandsFor, ForwardLinks
  <2> QED
    BY <1>1, <2>1, <2>3, <2>4 DEF Reached
<1> QED
  BY <1>1, <1>2, <1>6, <1>7, WalkLinks DEF StandsFor

-----------------------------------------------------------------------------
\* What a step does to the chain: nothing, or a unit comes at the end, or one
\* leaves from anywhere.
ChainGoes(s, t) ==
    \/ t = s
    \/ \E i \in Tokens : i \notin Range(s) /\ t = Append(s, i)
    \/ \E i \in Tokens, n \in 1 .. Len(s) : s[n] = i /\ t = RemoveAt(s, n)

LEMMA StepStandsFor ==
    ASSUME UnitInv, [UnitNext]_unitVars, NEW s, StandsFor(s)
    PROVE  \E t : StandsFor(t)' /\ ChainGoes(s, t)
<1>1. ASSUME StandsFor(s)'
      PROVE  \E t : StandsFor(t)' /\ ChainGoes(s, t)
  BY <1>1 DEF ChainGoes
<1>2. CASE UNCHANGED unitVars
  <2>1. StandsFor(s)'
    BY <1>2 DEF unitVars, networkVars, listVars, walkVars, StandsFor, ForwardLinks,
       BackLinks, Outside, Forward, Reached, Behind, ItemAt, InPush
  <2> QED
    BY <1>1, <2>1
<1>3. ASSUME NEW i \in Tokens, PushBegins(i)
      PROVE  \E t : StandsFor(t)' /\ ChainGoes(s, t)
  BY <1>1, <1>3, PushBeginsStands
<1>4. ASSUME NEW t, t = Append(s, call.index), call.op = "push", StandsFor(t)',
             call.index \notin Range(s)
      PROVE  \E u : StandsFor(u)' /\ ChainGoes(s, u)
  <2>1. call.index \in Tokens
    BY <1>4, CallKinds DEF UnitInv, UnitTypeOK
  <2> QED
    BY <1>4, <2>1 DEF ChainGoes
<1>5. CASE PushLinks
  <2>1. CASE chain_tail_index = InvalidIndex
    BY <1>1, <1>5, <2>1, PushFirstStands
  <2>2. CASE chain_tail_index # InvalidIndex
    <3>1. PICK t : t = Append(s, call.index)
      OBVIOUS
    <3>2. StandsFor(t)'
      BY <1>5, <2>2, <3>1, PushLinksStands
    <3>3. call.op = "push" /\ call.index \notin Range(s)
      BY <1>5 DEF PushLinks, InPush, StandsFor, Outside
    <3> QED
      BY <1>4, <3>1, <3>2, <3>3
  <2> QED
    BY <2>1, <2>2
<1>6. CASE PushEnds
  <2>1. CASE Len(s) # 0
    BY <1>1, <1>6, <2>1, PushEndsStands
  <2>2. CASE Len(s) = 0
    <3>1. PICK t : t = Append(s, call.index)
      OBVIOUS
    <3>2. StandsFor(t)'
      BY <1>6, <2>2, <3>1, PushFirstEndsStands
    <3>3. call.op = "push" /\ s \in Seq(Tokens)
      BY <1>6 DEF PushEnds, InPush, StandsFor
    <3>4. call.index \notin Range(s)
      <4>1. \A j \in Range(s) : \E k \in 1 .. Len(s) : s[k] = j
        BY <3>3, SeqFacts
      <4> QED
        BY <2>2, <4>1
    <3> QED
      BY <1>4, <3>1, <3>2, <3>3, <3>4
  <2> QED
    BY <2>1, <2>2
<1>7. CASE LocationWritten
  BY <1>1, <1>7, LocationWrittenStands
<1>8. ASSUME NEW i \in Tokens, RemoveBegins(i)
      PROVE  \E t : StandsFor(t)' /\ ChainGoes(s, t)
  <2>1. i \in Range(s) /\ s \in Seq(Tokens)
    BY <1>8 DEF RemoveBegins, find, StandsFor, Outside
  <2>2. PICK n \in 1 .. Len(s) : s[n] = i
    BY <2>1, SeqFacts
  <2>3. PICK t : t = RemoveAt(s, n)
    OBVIOUS
  <2>4. StandsFor(t)'
    BY <1>8, <2>2, <2>3, RemoveBeginsStands
  <2> QED
    BY <2>2, <2>3, <2>4 DEF ChainGoes
<1>9. CASE RemoveEnds
  BY <1>1, <1>9, RemoveEndsStands
<1>10. CASE WalkBegins
  BY <1>1, <1>10, WalkBeginsStands
<1>11. CASE WalkGoesOn
  BY <1>1, <1>11, WalkGoesOnStands
<1>12. CASE StepReads \/ StepWrites \/ WalkEnds
  BY <1>1, <1>12, StepStands
<1> QED
  BY <1>2, <1>3, <1>5, <1>6, <1>7, <1>8, <1>9, <1>10, <1>11, <1>12
  DEF UnitNext, Walking

\* There is a sequence that the links stand for.
ChainStands == \E s : StandsFor(s)

\* The links of the unit list stand for a sequence of units at every moment, in
\* the middle of chainPushBack and chainRemove too.
THEOREM ChainAlwaysStands == UnitSpec => [](UnitInv /\ ChainStands)
<1>1. UnitInit => ChainStands
  BY InitStands DEF ChainStands
<1>2. UnitInv /\ ChainStands /\ [UnitNext]_unitVars => ChainStands'
  BY StepStandsFor DEF ChainStands
<1> QED
  BY <1>1, <1>2, UnitListSafe, PTL DEF UnitSpec

\* At a unit that comes later than all before, and at the end of the chain.
LEMMA UnitOnceStep ==
    ASSUME UnitInv, ChainStands
    PROVE  /\ StepWrites => unit[cur_unit_index] \notin walk.stepped
           /\ WalkEnds /\ ~walk.removed => walk.there \subseteq walk.stepped
<1>1. PICK s : StandsFor(s)
  BY DEF ChainStands
<1>2. ASSUME StepWrites
      PROVE  unit[cur_unit_index] \notin walk.stepped
  <2>1. at = "write" /\ cur_unit_index \in Tokens /\ cur_unit_index # InvalidIndex
    BY <1>2 DEF StepWrites, UnitInv, UnitTypeOK, WalkSound, Index
  <2>2. unit[cur_unit_index] \in Int
    BY <2>1, SizesAssumption DEF UnitInv, UnitTypeOK
  <2>3. \A u \in walk.stepped : u < unit[cur_unit_index]
    BY <1>1, <2>1 DEF StandsFor, Forward
  <2> QED
    BY <2>2, <2>3
<1>3. ASSUME WalkEnds, ~walk.removed
      PROVE  walk.there \subseteq walk.stepped
  BY <1>1, <1>3 DEF WalkEnds, StandsFor, Reached, Behind
<1> QED
  BY <1>2, <1>3

\* run() calls gameStep at most once for a unit in a walk, and a walk during
\* which no unit leaves calls it for every unit that was there.
THEOREM UnitsMovedOnce == UnitSpec => EachUnitOnce
<1>1. UnitInv /\ ChainStands =>
        [/\ StepWrites => unit[cur_unit_index] \notin walk.stepped
         /\ WalkEnds /\ ~walk.removed => walk.there \subseteq walk.stepped]_unitVars
  BY UnitOnceStep
<1> QED
  BY <1>1, ChainAlwaysStands, PTL DEF EachUnitOnce

-----------------------------------------------------------------------------
\* Followed, step by step: what the first n steps find, from what the first
\* n - 1 find.
Further(f, g, n) ==
    [k \in Index |->
        IF n = 0 \/ k = InvalidIndex THEN <<>>
        ELSE <<k>> \o g[n - 1][f[k]]]

\* Numbers have a least one.
LEMMA LeastNumber ==
    ASSUME NEW S \in SUBSET Nat, S # {}
    PROVE  \E x \in S : \A y \in S : x <= y
<1>1. PICK x \in S : \A y \in S : ~(<<y, x>> \in OpToRel(<, Nat))
  BY WFMin, NatLessThanWellFounded, Zenon
<1>2. \A y \in S : x <= y
  <2> SUFFICES ASSUME NEW y \in S, y < x PROVE FALSE
    OBVIOUS
  <2>1. <<y, x>> \in OpToRel(<, Nat)
    BY DEF OpToRel
  <2> QED
    BY <1>1, <2>1
<1> QED
  BY <1>2

\* There is a function that follows f for as long as one likes: if not there
\* would be a least number of steps for which there is none.
LEMMA FollowingExists ==
    ASSUME NEW f, NEW m \in Nat
    PROVE  \E g : g = [n \in 0 .. m |-> Further(f, g, n)]
<1> DEFINE Has(l) == \E g : g = [n \in 0 .. l |-> Further(f, g, n)]
           S == {l \in Nat : ~Has(l)}
<1>1. Has(0)
  <2> DEFINE g == [n \in 0 .. 0 |-> Further(f, <<>>, n)]
  <2>1. \A n \in 0 .. 0 : Further(f, <<>>, n) = Further(f, g, n)
    BY DEF Further
  <2>2. g = [n \in 0 .. 0 |-> Further(f, g, n)]
    BY <2>1, Zenon
  <2> QED
    BY <2>2
<1>2. ASSUME NEW l \in Nat, Has(l)
      PROVE  Has(l + 1)
  <2>1. PICK g : g = [n \in 0 .. l |-> Further(f, g, n)]
    BY <1>2
  <2> DEFINE h == [n \in 0 .. l + 1 |-> Further(f, g, n)]
  <2>2. ASSUME NEW n \in 0 .. l
        PROVE  h[n] = g[n]
    <3>1. h[n] = Further(f, g, n)
      OBVIOUS
    <3>2. g[n] = Further(f, g, n)
      BY <2>1, Zenon
    <3> QED
      BY <3>1, <3>2, Zenon
  <2>3. ASSUME NEW n \in 0 .. l + 1
        PROVE  Further(f, g, n) = Further(f, h, n)
    <3>1. CASE n = 0
      BY <3>1 DEF Further
    <3>2. CASE n # 0
      <4>1. n - 1 \in 0 .. l
        BY <3>2
      <4>2. h[n - 1] = g[n - 1]
        BY <2>2, <4>1
      <4> HIDE DEF h
      <4> QED
        BY <4>2, Zenon DEF Further
    <3> QED
      BY <3>1, <3>2
  <2>4. h = [n \in 0 .. l + 1 |-> Further(f, h, n)]
    BY <2>3, Zenon
  <2> QED
    BY <2>4
<1> HIDE DEF Has
<1>3. S = {}
  <2> SUFFICES ASSUME S # {} PROVE FALSE
    OBVIOUS
  <2>1. PICK l \in S : \A y \in S : l <= y
    BY LeastNumber
  <2>2. l - 1 \in Nat /\ l - 1 \notin S /\ l = (l - 1) + 1
    BY <1>1, <2>1
  <2> QED
    BY <1>2, <2>1, <2>2
<1> QED
  BY <1>3 DEF Has

\* From the element at place k all that comes after it is found.
LEMMA FollowedIs ==
    ASSUME NEW f, NEW s \in Seq(Tokens), NEW i, i = ItemAt(s, 1),
           \A k \in 1 .. Len(s) : f[s[k]] = ItemAt(s, k + 1),
           \A j, k \in 1 .. Len(s) : s[j] = s[k] => j = k
    PROVE  Followed(f, i) = s
<1> DEFINE m == Cardinality(Tokens)
           from == CHOOSE g : g = [n \in 0 .. m |-> Further(f, g, n)]
           Found(n) == \A k \in 1 .. Len(s) :
                          k + n > Len(s) => from[n][s[k]] = SubSeq(s, k, Len(s))
<1>1. /\ Len(s) \in Nat /\ DOMAIN s = 1 .. Len(s)
      /\ \A k \in 1 .. Len(s) : s[k] \in Tokens /\ s[k] \in Index /\ s[k] # InvalidIndex
  BY SeqFacts, InvalidAssumption DEF Index
<1>2. m \in Nat /\ Len(s) <= m
  <2>1. s \in Injection(1 .. Len(s), Tokens)
    BY <1>1 DEF Injection, IsInjective
  <2>2. Cardinality(1 .. Len(s)) = Len(s)
    BY <1>1, FS_Interval
  <2> QED
    BY <2>1, <2>2, FS_Injection, FS_CardinalityType, TokensAssumption
<1>3. from = [n \in 0 .. m |-> Further(f, from, n)]
  BY <1>2, FollowingExists
<1>4. Followed(f, i) = from[m][i]
  BY DEF Followed, Further
<1> HIDE DEF m, from
<1>5. ASSUME NEW n \in 0 .. m, NEW k \in Index
      PROVE  from[n][k] = IF n = 0 \/ k = InvalidIndex THEN <<>>
                          ELSE <<k>> \o from[n - 1][f[k]]
  <2>1. from[n] = Further(f, from, n)
    BY <1>3
  <2> QED
    BY <2>1 DEF Further
<1>6. ASSUME NEW n \in Nat, n + 1 <= m, Found(n)
      PROVE  Found(n + 1)
  <2> SUFFICES ASSUME NEW k \in 1 .. Len(s), k + (n + 1) > Len(s)
               PROVE  from[n + 1][s[k]] = SubSeq(s, k, Len(s))
    OBVIOUS
  <2>1. from[n + 1][s[k]] = <<s[k]>> \o from[n][f[s[k]]]
    <3>1. n + 1 \in 0 .. m /\ n + 1 # 0 /\ (n + 1) - 1 = n
      BY <1>2, <1>6
    <3>2. s[k] \in Index /\ s[k] # InvalidIndex
      BY <1>1
    <3>3. from[n + 1][s[k]] = IF n + 1 = 0 \/ s[k] = InvalidIndex THEN <<>>
                              ELSE <<s[k]>> \o from[(n + 1) - 1][f[s[k]]]
      BY <1>5, <3>1, <3>2, Zenon
    <3> QED
      BY <3>1, <3>2, <3>3, Zenon
  <2>2. f[s[k]] = ItemAt(s, k + 1)
    OBVIOUS
  <2>3. from[n][ItemAt(s, k + 1)] = SubSeq(s, k + 1, Len(s))
    <3>1. CASE k < Len(s)
      <4>1. k + 1 \in 1 .. Len(s) /\ (k + 1) + n > Len(s)
        BY <1>1, <3>1
      <4>2. ItemAt(s, k + 1) = s[k + 1]
        BY <4>1 DEF ItemAt
      <4> QED
        BY <1>6, <4>1, <4>2
    <3>2. CASE ~(k < Len(s))
      <4>1. k = Len(s) /\ k + 1 \notin 1 .. Len(s)
        <5>1. Len(s) \in Nat
          BY <1>1
        <5> QED
          BY <3>2, <5>1
      <4>1a. n \in 0 .. m
        BY <1>2, <1>6
      <4>2. ItemAt(s, k + 1) = InvalidIndex
        BY <4>1 DEF ItemAt
      <4>3. from[n][InvalidIndex] = <<>>
        <5>1. InvalidIndex \in Index
          BY DEF Index
        <5> QED
          BY <1>5, <4>1a, <5>1, Zenon
      <4>4. SubSeq(s, k + 1, Len(s)) = <<>>
        BY <1>1, <4>1, SubSeqEmpty
      <4> QED
        BY <4>2, <4>3, <4>4
    <3> QED
      BY <3>1, <3>2
  <2>4. SubSeq(s, k, Len(s)) = <<s[k]>> \o SubSeq(s, k + 1, Len(s))
    <3>1. Len(s) \in k .. Len(s)
      BY <1>1
    <3> QED
      BY <3>1, SubSeqRecursiveFirst
  <2> QED
    BY <2>1, <2>2, <2>3, <2>4
<1>7. Found(0)
  BY <1>1
<1> HIDE DEF Found
<1>8. Found(m)
  <2> DEFINE S == {n \in Nat : n <= m /\ ~Found(n)}
  <2> SUFFICES ASSUME S # {} PROVE FALSE
    BY <1>2
  <2>1. PICK l \in S : \A y \in S : l <= y
    BY LeastNumber
  <2>2. /\ l \in Nat /\ l <= m /\ ~Found(l) /\ l # 0
        /\ l - 1 \in Nat /\ l - 1 <= m /\ l - 1 \notin S
    BY <1>2, <1>7, <2>1
  <2>3. Found(l - 1) /\ (l - 1) + 1 = l
    BY <2>2
  <2> QED
    BY <1>6, <2>2, <2>3
<1>9. CASE Len(s) = 0
  <2>1. i = InvalidIndex /\ s = <<>>
    BY <1>9, EmptySeq DEF ItemAt
  <2>2. from[m][InvalidIndex] = <<>>
    <3>1. InvalidIndex \in Index /\ m \in 0 .. m
      BY <1>2 DEF Index
    <3> QED
      BY <1>5, <3>1, Zenon
  <2> QED
    BY <1>4, <2>1, <2>2
<1>10. CASE Len(s) # 0
  <2>1. i = s[1] /\ 1 \in 1 .. Len(s) /\ 1 + m > Len(s)
    BY <1>1, <1>2, <1>10 DEF ItemAt
  <2>2. from[m][s[1]] = SubSeq(s, 1, Len(s))
    BY <1>8, <2>1 DEF Found
  <2> QED
    BY <1>4, <2>1, <2>2, SubSeqFull
<1> QED
  BY <1>9, <1>10

\* What is found from the head is what the links stand for.
LEMMA ChainIs ==
    ASSUME UnitInv, NEW s, StandsFor(s)
    PROVE  chain = s
<1>1. /\ s \in Seq(Tokens) /\ chain_head_index = ItemAt(s, 1)
      /\ \A k \in 1 .. Len(s) : chain_next_index[s[k]] = ItemAt(s, k + 1)
  BY DEF StandsFor, ForwardLinks
<1> QED
  BY <1>1, StandsDistinct, FollowedIs DEF chain

\* A behavior of the unit list is, for who follows the links from the head, a
\* behavior of a sequence.
THEOREM ChainIsSequence == UnitSpec => ImplementsSequence
<1>1. UnitInit => chain = <<>>
  <2> SUFFICES ASSUME UnitInit PROVE chain = <<>>
    OBVIOUS
  <2> QED
    BY InitStands, InitKeeps, ChainIs
<1>2. ASSUME UnitInv, ChainStands, UnitInv', [UnitNext]_unitVars
      PROVE  [\E i \in Tokens : Sequence!PushBack(i) \/ Sequence!Leave(i)]_chain
  <2>1. PICK s : StandsFor(s)
    BY <1>2 DEF ChainStands
  <2>2. PICK t : StandsFor(t)' /\ ChainGoes(s, t)
    BY <1>2, <2>1, StepStandsFor
  <2>3. chain = s
    BY <1>2, <2>1, ChainIs
  <2>4. chain' = t
    <3>1. /\ t \in Seq(Tokens) /\ chain_head_index' = ItemAt(t, 1)
          /\ \A k \in 1 .. Len(t) : chain_next_index'[t[k]] = ItemAt(t, k + 1)
          /\ \A j, k \in 1 .. Len(t) : j < k => unit'[t[j]] < unit'[t[k]]
      BY <2>2 DEF StandsFor, ForwardLinks, ItemAt
    <3>2. /\ Len(t) \in Nat
          /\ \A k \in 1 .. Len(t) : unit'[t[k]] \in 0 .. spawned'
      BY <1>2, <3>1, SeqFacts DEF UnitInv, UnitTypeOK
    <3>3. \A j, k \in 1 .. Len(t) : t[j] = t[k] => j = k
      <4> SUFFICES ASSUME NEW j \in 1 .. Len(t), NEW k \in 1 .. Len(t), t[j] = t[k]
                   PROVE  ~(j < k) /\ ~(k < j)
        BY <3>2
      <4> QED
        BY <3>1, <3>2
    <3>4. Followed(chain_next_index', chain_head_index') = t
      BY <3>1, <3>3, FollowedIs
    <3> QED
      BY <3>4 DEF chain
  <2>5. s \in Seq(Tokens) /\ DOMAIN s = 1 .. Len(s)
        /\ \A k \in 1 .. Len(s) : s[k] \in Range(s)
    BY <2>1, SeqFacts DEF StandsFor
  <2>6. CASE \E i \in Tokens : i \notin Range(s) /\ t = Append(s, i)
    <3>1. PICK i \in Tokens : i \notin Range(s) /\ t = Append(s, i)
      BY <2>6
    <3>2. Sequence!PushBack(i)
      BY <2>3, <2>4, <2>5, <3>1 DEF Sequence!PushBack
    <3> QED
      BY <3>2
  <2>7. CASE \E i \in Tokens, n \in 1 .. Len(s) : s[n] = i /\ t = RemoveAt(s, n)
    <3>1. PICK i \in Tokens, n \in 1 .. Len(s) : s[n] = i /\ t = RemoveAt(s, n)
      BY <2>7
    <3>2. Sequence!Leave(i)
      BY <2>3, <2>4, <2>5, <3>1 DEF Sequence!Leave, Sequence!RemoveAt, RemoveAt
    <3> QED
      BY <3>2
  <2> QED
    BY <2>2, <2>3, <2>4, <2>6, <2>7 DEF ChainGoes
<1> QED
  BY <1>1, <1>2, ChainAlwaysStands, UnitListSafe, PTL
  DEF UnitSpec, ImplementsSequence, Sequence!ChainSpec

\* The chain reversed is what is found from the tail.
LEMMA BothWays ==
    ASSUME UnitInv, NEW s, StandsFor(s), call = NoCall
    PROVE  /\ chain = Reverse(Followed(chain_previous_index, chain_tail_index))
           /\ ToSet(chain) = allocated
<1> DEFINE r == Reverse(s)
<1>1. /\ s \in Seq(Tokens) /\ Len(s) \in Nat /\ DOMAIN s = 1 .. Len(s)
      /\ \A k \in 1 .. Len(s) : s[k] \in Tokens
      /\ \A j, k \in 1 .. Len(s) : s[j] = s[k] => j = k
  BY SeqFacts, StandsDistinct DEF StandsFor
<1>2. chain = s
  BY ChainIs
<1>3. /\ r = [k \in 1 .. Len(s) |-> s[(Len(s) - k) + 1]]
      /\ \A k \in 1 .. Len(s) : (Len(s) - k) + 1 \in 1 .. Len(s)
  BY <1>1 DEF Reverse
<1>4. /\ r \in Seq(Tokens) /\ Len(r) = Len(s)
      /\ \A k \in 1 .. Len(s) : r[k] = s[(Len(s) - k) + 1]
  BY <1>1, <1>3
<1> HIDE DEF r
<1>5. Reverse(r) = s
  <2>1. Reverse(r) = [k \in 1 .. Len(s) |-> r[(Len(s) - k) + 1]]
    BY <1>4 DEF Reverse
  <2>2. \A k \in 1 .. Len(s) : r[(Len(s) - k) + 1] = s[k]
    BY <1>1, <1>3, <1>4
  <2> QED
    BY <1>1, <2>1, <2>2
<1>6. \A j, k \in 1 .. Len(r) : r[j] = r[k] => j = k
  BY <1>1, <1>3, <1>4
<1>7. ~InPush("tail")
  BY DEF NoCall, InPush
<1>8. chain_tail_index = ItemAt(r, 1)
  BY <1>1, <1>4, <1>7 DEF StandsFor, BackLinks, ItemAt
<1>9. ASSUME NEW k \in 1 .. Len(r)
      PROVE  chain_previous_index[r[k]] = ItemAt(r, k + 1)
  <2>1. /\ r[k] = s[(Len(s) - k) + 1] /\ (Len(s) - k) + 1 \in 1 .. Len(s)
        /\ ((Len(s) - k) + 1) - 1 = Len(s) - k
    BY <1>1, <1>3, <1>4
  <2>2. chain_previous_index[r[k]] = ItemAt(s, Len(s) - k)
    BY <2>1 DEF StandsFor, BackLinks
  <2>3. CASE k < Len(s)
    <3>1. /\ k + 1 \in 1 .. Len(s) /\ (Len(s) - (k + 1)) + 1 = Len(s) - k
          /\ Len(s) - k \in 1 .. Len(s)
      BY <1>1, <1>4, <2>3
    <3> QED
      BY <1>4, <2>2, <3>1 DEF ItemAt
  <2>4. CASE ~(k < Len(s))
    BY <1>1, <1>4, <2>2, <2>4 DEF ItemAt
  <2> QED
    BY <2>3, <2>4
<1>10. Followed(chain_previous_index, chain_tail_index) = r
  BY <1>4, <1>6, <1>8, <1>9, FollowedIs
<1>11. ToSet(s) = allocated
  <2>1. Range(s) \subseteq allocated /\ \A i \in Tokens \ Range(s) : i \notin allocated
    BY DEF StandsFor, Outside
  <2> QED
    BY <2>1 DEF ToSet, Range, UnitInv, UnitTypeOK
<1> QED
  BY <1>2, <1>5, <1>10, <1>11

\* Between two calls who follows the links back from the tail finds the chain
\* the other way round, and it holds exactly the units that are registered.
THEOREM LinksAlwaysAgree == UnitSpec => []LinksAgree
<1>1. UnitInv /\ ChainStands => LinksAgree
  BY BothWays DEF ChainStands, LinksAgree
<1> QED
  BY <1>1, ChainAlwaysStands, PTL
=============================================================================
