---------------------------- MODULE LoggerProofs ----------------------------
(***************************************************************************)
(* The registry, and the logger that stands on it.                         *)
(*                                                                         *)
(* The free list of FastIndex is well formed in every reachable state, for *)
(* every Capacity and PageSize, and FastIndex implements IndexAllocator.   *)
(* The argument: FreeListInv describes the list through its links alone    *)
(* and is inductive.  Taking the head removes one returned index, to which *)
(* no link led; returning an index adds one, to which no link leads but    *)
(* the new one.  When the head is the frontier, the links would map the    *)
(* returned indices into themselves, which LinksAcyclic forbids unless     *)
(* there are none: so a fresh index is opened only when nothing can be     *)
(* reused.                                                                 *)
(*                                                                         *)
(* The logger writes every message once and in order, and its queue holds  *)
(* exactly what it should, for any number of messages and any size of the  *)
(* registry that gives the places of the queue.  The queue is always the   *)
(* last messages reported (LogInv): the first few of them are the ones     *)
(* that were written.  So a report, which takes the marked ones off as it  *)
(* goes along, always finds them at the head.  That a place is given to    *)
(* one message only rests on the invariant of the registry (IInv).         *)
(***************************************************************************)
EXTENDS Logger, SequenceTheorems, WellFoundedInduction, TLAPS

IInv == RegistryTypeOK /\ FreeListInv

\* If the head of the list is the frontier then no index waits for reuse.
LEMMA FrontierHeadMeansEmpty ==
    ASSUME IInv, next_available_index = Frontier
    PROVE  Returned = {}
<1>1. SUFFICES ASSUME Returned # {} PROVE FALSE
  OBVIOUS
<1>2. PICK i \in Returned : link[i] \notin Returned
  BY <1>1 DEF IInv, FreeListInv, LinksAcyclic
<1>3. link[i] = Frontier
  BY <1>2 DEF IInv, FreeListInv, LinksOnList
<1>4. link[i] # next_available_index
  BY <1>2 DEF IInv, FreeListInv, LinksOnList
<1> QED
  BY <1>3, <1>4

\* The frontier is a number up to Capacity + 1 and bounds what is held.
LEMMA FrontierRange ==
    ASSUME IInv
    PROVE  /\ Frontier \in 0 .. Capacity + 1
           /\ Returned \subseteq Index
           /\ \A i \in Returned : i < Frontier
           /\ \A i \in allocated : i < Frontier
BY CapacityAssumption
   DEF IInv, FreeListInv, FreshUntouched, RegistryTypeOK, Index, Frontier, Returned

\* allocate(i) gives the head: a returned index, or the frontier if nothing
\* was returned; in both cases the list loses exactly that index.
LEMMA AllocateGives ==
    ASSUME IInv, NEW i \in Index, allocate(i)
    PROVE  /\ i = next_available_index
           /\ \/ /\ i \in Returned
                 /\ Frontier' = Frontier
                 /\ Returned' = Returned \ {i}
                 /\ next_available_index' = link[i]
              \/ /\ i = Frontier
                 /\ Returned = {}
                 /\ Frontier' = Frontier + 1
                 /\ Returned' = {}
                 /\ next_available_index' = Frontier + 1
           /\ allocated' = allocated \union {i}
           /\ link' = link
<1> USE CapacityAssumption
<1>0. /\ i = next_available_index
      /\ allocated' = allocated \union {i}
      /\ link' = link
      /\ pages' = pages \union {PageOf(i)}
      /\ max_allocated_index' = IF i > max_allocated_index
                                THEN i ELSE max_allocated_index
  BY DEF allocate, allocateIndex, allocateBlock
<1>1. i \in Returned \/ i = Frontier
  BY <1>0 DEF IInv, FreeListInv, HeadOnList
<1>2. Frontier' = max_allocated_index' + 1
  BY <1>0 DEF Frontier
<1>3. CASE i \in Returned
  <2>1. i < Frontier /\ pages # {}
    BY <1>3, FrontierRange DEF Frontier, Returned
  <2>2. Frontier' = Frontier
    BY <1>0, <1>2, <2>1 DEF Frontier, IInv, RegistryTypeOK, Index
  <2>3. Returned' = Returned \ {i}
    BY <1>0, <2>2 DEF Returned
  <2>4. next_available_index' = link[i]
    BY <1>3, <2>1 DEF allocate, allocateIndex, IInv, FreeListInv,
                      PagesOfGiven, LinksOnList
  <2> QED
    BY <1>0, <1>3, <2>2, <2>3, <2>4
<1>4. CASE i = Frontier
  <2>1. Returned = {}
    BY <1>0, <1>4, FrontierHeadMeansEmpty
  <2>2. Frontier' = Frontier + 1
    <3>1. CASE pages = {}
      BY <1>0, <1>2, <1>4, <3>1 DEF Frontier, IInv, FreeListInv, PagesOfGiven
    <3>2. CASE pages # {}
      <4>1. i = max_allocated_index + 1 /\ max_allocated_index \in Nat
        BY <1>4, <3>2 DEF Frontier, IInv, RegistryTypeOK, Index
      <4> QED
        BY <1>0, <1>2, <1>4, <4>1
    <3> QED
      BY <3>1, <3>2
  <2>3. Returned' = {}
    <3>1. 0 .. Frontier' - 1 = (0 .. Frontier - 1) \union {i}
      BY <1>4, <2>2, FrontierRange DEF Index
    <3> QED
      BY <1>0, <2>1, <3>1 DEF Returned
  <2>4. link[i] = 0
    BY <1>4, FrontierRange DEF IInv, FreeListInv, FreshUntouched, Index
  <2>5. next_available_index' = Frontier + 1
    BY <1>4, <2>4 DEF allocate, allocateIndex
  <2> QED
    BY <1>0, <1>4, <2>1, <2>2, <2>3, <2>5
<1> QED
  BY <1>0, <1>1, <1>3, <1>4

\* deallocate(i) puts an index that is in use on the list.
LEMMA DeallocateReturns ==
    ASSUME IInv, NEW i \in Index, deallocate(i)
    PROVE  /\ i \in allocated /\ i < Frontier /\ i # next_available_index
           /\ i \notin Returned
           /\ Frontier' = Frontier
           /\ Returned' = Returned \union {i}
           /\ allocated' = allocated \ {i}
           /\ \/ /\ i < next_available_index
                 /\ next_available_index' = i
                 /\ link' = [link EXCEPT ![i] = next_available_index]
              \/ /\ i > next_available_index
                 /\ next_available_index \in Returned
                 /\ next_available_index' = next_available_index
                 /\ link' = [link EXCEPT ![i] = link[next_available_index],
                                         ![next_available_index] = i]
<1> USE CapacityAssumption
<1>1. /\ i \in allocated
      /\ allocated' = allocated \ {i}
      /\ Frontier' = Frontier
  BY DEF deallocate, find, deallocateBlock, Frontier
<1>2. i < Frontier /\ i \notin Returned
  BY <1>1, FrontierRange DEF Returned
<1>3. Returned' = Returned \union {i}
  BY <1>1, <1>2, FrontierRange DEF Returned, Index
<1>4. next_available_index \in Returned \union {Frontier}
  BY DEF IInv, FreeListInv, HeadOnList
<1>5. i # next_available_index
  BY <1>2, <1>4, FrontierRange DEF Index
<1>6. CASE i < next_available_index
  <2>1. ~(i > next_available_index)
    BY <1>6 DEF IInv, RegistryTypeOK, Index
  <2>2. /\ next_available_index' = i
        /\ link' = [link EXCEPT ![i] = next_available_index]
    BY <1>6, <2>1 DEF deallocate, deallocateIndex
  <2> QED
    BY <1>1, <1>2, <1>3, <1>5, <1>6, <2>2
<1>7. CASE i > next_available_index
  <2>1. next_available_index \in Returned
    BY <1>2, <1>4, <1>7, FrontierRange DEF Index
  <2>2. /\ next_available_index' = next_available_index
        /\ link' = [link EXCEPT ![i] = link[next_available_index],
                                ![next_available_index] = i]
    BY <1>7, FrontierRange DEF deallocate, deallocateIndex, Index, IInv, RegistryTypeOK
  <2> QED
    BY <1>1, <1>2, <1>3, <1>5, <1>7, <2>1, <2>2
<1>8. i < next_available_index \/ i > next_available_index
  BY <1>5 DEF IInv, RegistryTypeOK, Index
<1> QED
  BY <1>6, <1>7, <1>8
-----------------------------------------------------------------------------

LEMMA InitInv == RegistryInit => IInv
<1> SUFFICES ASSUME RegistryInit PROVE IInv
  OBVIOUS
<1> USE CapacityAssumption
<1>1. RegistryTypeOK
  BY DEF RegistryInit, RegistryTypeOK, Index
<1>2. Frontier = 0 /\ Returned = {}
  BY DEF RegistryInit, Frontier, Returned
<1>3. FreshUntouched /\ HeadOnList /\ LinksOnList /\ LinksDistinct
  BY <1>2 DEF RegistryInit, FreshUntouched, HeadOnList, LinksOnList,
              LinksDistinct, Index
<1>4. LinksAcyclic /\ PagesOfGiven
  BY <1>2 DEF RegistryInit, LinksAcyclic, PagesOfGiven, Index
<1> QED
  BY <1>1, <1>3, <1>4 DEF IInv, FreeListInv

LEMMA AllocateInv ==
    ASSUME IInv, NEW i \in Index, allocate(i)
    PROVE  IInv'
<1> USE CapacityAssumption
<1>1. RegistryTypeOK'
  <2>1. next_available_index' \in 0 .. Capacity + 1
    BY AllocateGives DEF IInv, RegistryTypeOK, Index
  <2> QED
    BY <2>1 DEF IInv, RegistryTypeOK, Index, allocate, allocateIndex, allocateBlock
<1>2. FreshUntouched'
  BY AllocateGives, FrontierRange DEF IInv, FreeListInv, FreshUntouched, Index
<1>3. ASSUME i \in Returned
      PROVE  HeadOnList' /\ LinksOnList' /\ LinksDistinct' /\ LinksAcyclic'
  <2>1. /\ Frontier' = Frontier /\ Returned' = Returned \ {i}
        /\ next_available_index' = link[i] /\ link' = link
        /\ i = next_available_index
    BY <1>3, AllocateGives, FrontierRange DEF Index
  <2>2. HeadOnList'
    BY <1>3, <2>1 DEF IInv, FreeListInv, HeadOnList, LinksOnList
  <2>3. LinksOnList'
    BY <1>3, <2>1 DEF IInv, FreeListInv, LinksOnList, LinksDistinct
  <2>4. LinksDistinct' /\ LinksAcyclic'
    BY <2>1 DEF IInv, FreeListInv, LinksDistinct, LinksAcyclic
  <2> QED
    BY <2>2, <2>3, <2>4
<1>4. ASSUME i \notin Returned
      PROVE  HeadOnList' /\ LinksOnList' /\ LinksDistinct' /\ LinksAcyclic'
  <2>1. Returned' = {} /\ next_available_index' = Frontier'
    BY <1>4, AllocateGives
  <2> QED
    BY <2>1 DEF HeadOnList, LinksOnList, LinksDistinct, LinksAcyclic
<1>5. PagesOfGiven'
  <2>1. pages' = pages \union {PageOf(i)}
    BY DEF allocate, allocateBlock
  <2>2. \A j \in Index : j < Frontier' => j < Frontier \/ j = i
    BY AllocateGives, FrontierRange DEF Index
  <2> QED
    BY <2>1, <2>2 DEF IInv, FreeListInv, PagesOfGiven, pageAllocated
<1>6. HeadOnList' /\ LinksOnList' /\ LinksDistinct' /\ LinksAcyclic'
  BY <1>3, <1>4
<1> QED
  BY <1>1, <1>2, <1>5, <1>6 DEF IInv, FreeListInv

LEMMA DeallocateInv ==
    ASSUME IInv, NEW i \in Index, deallocate(i)
    PROVE  IInv'
<1> USE CapacityAssumption
<1> DEFINE head == next_available_index
<1>0. /\ i \in allocated /\ i < Frontier /\ i # head /\ i \notin Returned
      /\ Frontier' = Frontier
      /\ Returned' = Returned \union {i}
      /\ allocated' = allocated \ {i}
      /\ pages' = pages /\ max_allocated_index' = max_allocated_index
  BY DeallocateReturns DEF deallocate, deallocateBlock
<1>1. link \in [Index -> 0 .. Capacity + 1] /\ head \in 0 .. Capacity + 1
  BY DEF IInv, RegistryTypeOK
<1>2. Returned \subseteq Index /\ Frontier \in 0 .. Capacity + 1
      /\ Frontier \notin Returned /\ Frontier # i
  BY <1>0, FrontierRange DEF Index
<1>3. /\ head \in Returned \union {Frontier}
      /\ \A j \in Returned :
            /\ link[j] \in (Returned \union {Frontier}) \ {head}
            /\ link[j] # 0
      /\ \A j, k \in Returned : link[j] = link[k] => j = k
  BY DEF IInv, FreeListInv, HeadOnList, LinksOnList, LinksDistinct
<1>3a. \A S \in SUBSET Returned : S # {} => \E j \in S : link[j] \notin S
  BY DEF IInv, FreeListInv, LinksAcyclic
<1>4. ASSUME i < head
      PROVE  /\ RegistryTypeOK' /\ FreshUntouched' /\ HeadOnList'
             /\ LinksOnList' /\ LinksDistinct' /\ LinksAcyclic'
  <2>1. next_available_index' = i /\ link' = [link EXCEPT ![i] = head]
    BY <1>4, DeallocateReturns, <1>1 DEF Index
  <2>2. /\ link'[i] = head
        /\ \A j \in Returned : link'[j] = link[j]
    BY <1>0, <1>1, <1>2, <2>1
  <2>3. RegistryTypeOK'
    BY <1>0, <1>1, <2>1 DEF IInv, RegistryTypeOK, Index
  <2>4. head # 0
    BY <1>1, <1>4 DEF Index
  <2>5. HeadOnList' /\ LinksOnList' /\ LinksDistinct'
    BY <1>0, <1>2, <1>3, <2>1, <2>2, <2>4 DEF HeadOnList, LinksOnList, LinksDistinct
  <2>6. LinksAcyclic'
    <3> SUFFICES ASSUME NEW S \in SUBSET Returned', S # {}
                 PROVE  \E j \in S : link'[j] \notin S
      BY DEF LinksAcyclic
    <3>1. CASE S \ {i} = {}
      BY <1>0, <2>2, <3>1
    <3>2. CASE S \ {i} # {}
      <4>1. PICK j \in S \ {i} : link[j] \notin S \ {i}
        BY <1>0, <1>3a, <3>2
      <4>2. j \in Returned /\ link'[j] = link[j] /\ link[j] # i
        BY <1>0, <1>2, <1>3, <2>2, <4>1
      <4> QED
        BY <4>1, <4>2
    <3> QED
      BY <3>1, <3>2
  <2>7. FreshUntouched'
    BY <1>0, <1>1, <2>1 DEF IInv, FreeListInv, FreshUntouched, Index
  <2> QED
    BY <2>3, <2>5, <2>6, <2>7
<1>5. ASSUME ~(i < head)
      PROVE  /\ RegistryTypeOK' /\ FreshUntouched' /\ HeadOnList'
             /\ LinksOnList' /\ LinksDistinct' /\ LinksAcyclic'
  <2>1. /\ head \in Returned
        /\ next_available_index' = head
        /\ link' = [link EXCEPT ![i] = link[head], ![head] = i]
    BY <1>5, DeallocateReturns
  <2>2. /\ link'[i] = link[head]
        /\ link'[head] = i
        /\ \A j \in Returned \ {head} : link'[j] = link[j]
    BY <1>0, <1>1, <1>2, <2>1
  <2>3. RegistryTypeOK'
    BY <1>0, <1>1, <1>2, <2>1 DEF IInv, RegistryTypeOK, Index
  <2>4. i # 0
    BY <1>0, <1>1, <1>5 DEF Index
  <2>5a. HeadOnList'
    BY <1>0, <2>1 DEF HeadOnList
  <2>a. /\ link[head] \in (Returned \union {Frontier}) \ {head, 0}
        /\ link[head] # i
    BY <1>0, <1>2, <1>3, <2>1
  <2>b. ASSUME NEW j \in Returned, j # head
        PROVE  /\ link'[j] \in (Returned \union {Frontier}) \ {head, 0}
               /\ link'[j] # i /\ link'[j] # link[head]
    <3>1. link'[j] = link[j]
      BY <2>2, <2>b
    <3> QED
      BY <1>0, <1>2, <1>3, <2>1, <2>b, <3>1
  <2>5b. LinksOnList'
    <3> SUFFICES ASSUME NEW j \in Returned \union {i}
                 PROVE  /\ link'[j] \in (Returned \union {i, Frontier}) \ {head}
                        /\ link'[j] # 0
      BY <1>0, <2>1 DEF LinksOnList
    <3> QED
      BY <1>0, <2>1, <2>2, <2>4, <2>a, <2>b
  <2>5c. LinksDistinct'
    <3> SUFFICES ASSUME NEW j \in Returned \union {i}, NEW k \in Returned \union {i},
                        link'[j] = link'[k]
                 PROVE  j = k
      BY <1>0 DEF LinksDistinct
    <3>1. \A n \in Returned : n # head =>
             link'[n] # link'[i] /\ link'[n] # link'[head]
      BY <2>2, <2>b
    <3>2. link'[i] # link'[head]
      BY <2>2, <2>a
    <3>3. CASE j \in {i, head} \/ k \in {i, head}
      BY <3>1, <3>2, <3>3
    <3>4. CASE j \notin {i, head} /\ k \notin {i, head}
      BY <1>3, <2>2, <3>4
    <3> QED
      BY <3>3, <3>4
  <2>5. HeadOnList' /\ LinksOnList' /\ LinksDistinct'
    BY <2>5a, <2>5b, <2>5c
  <2>6. LinksAcyclic'
    <3> SUFFICES ASSUME NEW S \in SUBSET Returned', S # {}
                 PROVE  \E j \in S : link'[j] \notin S
      BY DEF LinksAcyclic
    <3>1. CASE i \notin S
      <4>1. PICK j \in S : link[j] \notin S
        BY <1>0, <1>3a, <3>1
      <4> QED
        BY <1>0, <2>2, <3>1, <4>1
    <3>2. CASE i \in S /\ S \ {i} = {}
      <4>1. link'[i] # i
        BY <1>0, <1>2, <1>3, <2>1, <2>2
      <4> QED
        BY <3>2, <4>1
    <3>3. CASE i \in S /\ S \ {i} # {}
      <4>1. PICK j \in S \ {i} : link[j] \notin S \ {i}
        BY <1>0, <1>3a, <3>3
      <4>2. j \in Returned /\ link[j] # i
        BY <1>0, <1>2, <1>3, <4>1
      <4>3. CASE j = head
        BY <2>2, <3>3, <4>1, <4>2, <4>3
      <4>4. CASE j # head
        BY <2>2, <4>1, <4>2, <4>4
      <4> QED
        BY <4>3, <4>4
    <3> QED
      BY <3>1, <3>2, <3>3
  <2>7. FreshUntouched'
    <3>1. head < Frontier /\ head \in Index
      BY <1>2, <2>1, FrontierRange
    <3> QED
      BY <1>0, <1>1, <1>2, <2>1, <3>1 DEF IInv, FreeListInv, FreshUntouched, Index
  <2> QED
    BY <2>3, <2>5, <2>6, <2>7
<1>6. PagesOfGiven'
  BY <1>0 DEF IInv, FreeListInv, PagesOfGiven, pageAllocated
<1>7. RegistryTypeOK' /\ HeadOnList' /\ LinksOnList' /\ LinksDistinct'
      /\ LinksAcyclic' /\ FreshUntouched'
  BY <1>4, <1>5
<1> QED
  BY <1>6, <1>7 DEF IInv, FreeListInv
-----------------------------------------------------------------------------

\* FreeListInv is preserved by every step, so that it holds for ever.
THEOREM FreeListCorrect == RegistrySpec => [](RegistryTypeOK /\ FreeListInv)
<1>1. ASSUME IInv, [RegistryNext]_registryVars
      PROVE  IInv'
  <2>1. CASE RegistryNext
    BY <1>1, <2>1, AllocateInv, DeallocateInv DEF RegistryNext
  <2>2. CASE UNCHANGED registryVars
    <3> USE DEF registryVars, IInv, RegistryTypeOK, FreeListInv, Frontier,
                Returned, pageAllocated
    <3>1. RegistryTypeOK' /\ FreshUntouched' /\ HeadOnList' /\ LinksOnList'
      BY <1>1, <2>2 DEF FreshUntouched, HeadOnList, LinksOnList
    <3>2. LinksDistinct' /\ LinksAcyclic' /\ PagesOfGiven'
      BY <1>1, <2>2 DEF LinksDistinct, LinksAcyclic, PagesOfGiven
    <3> QED
      BY <3>1, <3>2
  <2> QED
    BY <1>1, <2>1, <2>2
<1> QED
  BY <1>1, InitInv, PTL DEF RegistrySpec, IInv

\* No assert() of deallocateIndex can fail when a holder returns its index.
THEOREM AssertsNeverFail == RegistrySpec => []AssertsHold
<1>1. ASSUME IInv PROVE AssertsHold
  <2> SUFFICES ASSUME NEW i \in allocated
               PROVE  /\ pageAllocated(i)
                      /\ i > next_available_index =>
                           pageAllocated(next_available_index)
    BY DEF AssertsHold
  <2>1. /\ i \in Index /\ i < Frontier
        /\ next_available_index \in Int /\ next_available_index >= 0
        /\ Frontier \in 0 .. Capacity + 1
    BY <1>1, FrontierRange, CapacityAssumption DEF IInv, RegistryTypeOK, Index
  <2>2. \A j \in Index : j < Frontier => pageAllocated(j)
    BY <1>1 DEF IInv, FreeListInv, PagesOfGiven
  <2>3. i > next_available_index =>
          /\ next_available_index \in Index
          /\ next_available_index < Frontier
    BY <2>1, CapacityAssumption DEF Index
  <2> QED
    BY <2>1, <2>2, <2>3
<1> QED
  BY <1>1, FreeListCorrect, PTL DEF IInv

\* FastIndex implements IndexAllocator: no index has two holders, and none
\* is opened while a returned one waits for reuse.
THEOREM Refinement == RegistrySpec => ImplementsAllocator
<1>1. RegistryInit => Allocator!AllocInit
  BY DEF RegistryInit, Allocator!AllocInit, Frontier
<1>2. ASSUME IInv, [RegistryNext]_registryVars
      PROVE  [Allocator!AllocNext]_(Allocator!allocVars)
  <2>1. ASSUME NEW i \in Index, allocate(i)
        PROVE  Allocator!AllocNext
    <3>1. i \in 0 .. Frontier
      BY <1>2, <2>1, AllocateGives, FrontierRange DEF Index
    <3>2. Allocator!Returned = Returned
      BY DEF Allocator!Returned, Returned
    <3>3. Allocator!Give(i)
      BY <1>2, <2>1, <3>2, AllocateGives DEF Allocator!Give
    <3> QED
      BY <3>1, <3>3 DEF Allocator!AllocNext
  <2>2. ASSUME NEW i \in Index, deallocate(i)
        PROVE  Allocator!AllocNext
    <3>1. i \in 0 .. Frontier
      BY <1>2, <2>2, DeallocateReturns, FrontierRange DEF Index
    <3>2. Allocator!TakeBack(i)
      BY <1>2, <2>2, DeallocateReturns DEF Allocator!TakeBack
    <3> QED
      BY <3>1, <3>2 DEF Allocator!AllocNext
  <2>3. CASE UNCHANGED registryVars
    BY <2>3 DEF registryVars, Allocator!allocVars, Frontier
  <2> QED
    BY <1>2, <2>1, <2>2, <2>3 DEF RegistryNext
<1> QED
  BY <1>1, <1>2, FreeListCorrect, PTL
     DEF RegistrySpec, ImplementsAllocator, Allocator!AllocSpec, IInv

-----------------------------------------------------------------------------
\* The logger.

written_so_far == Len(log_file)

\* The number of the message before the first one on the queue.
before == reported - Len(message_queue)

LogTypeOK ==
    /\ message \in [Index -> [number : 0 .. reported, to_remove : BOOLEAN]]
    /\ reported \in 0 .. MaxMessages
    /\ running \in BOOLEAN
    /\ message_queue \in Seq(Index)
    /\ log_file \in Seq(Nat)
    /\ cur_index \in Index \union {InvalidIndex}

\* The messages on the queue are numbered as they were reported, those that
\* are gone from it were written, and a mark tells what was written.
QueueNumbered ==
    /\ 0 <= before /\ before <= written_so_far /\ written_so_far <= reported
    /\ \A k \in 1 .. Len(message_queue) :
          /\ message[message_queue[k]].number = before + k
          /\ message[message_queue[k]].to_remove <=> before + k <= written_so_far
    /\ \A k \in 1 .. written_so_far : log_file[k] = k

\* A place in use is on the queue, and a place on the queue is in use.
PlacesInUse ==
    /\ \A k \in 1 .. Len(message_queue) : message_queue[k] \in allocated
    /\ \A i \in allocated : \E k \in 1 .. Len(message_queue) : message_queue[k] = i

\* A report is at the head, or past all marks.
ReportAt ==
    InReport =>
        \E c \in 1 .. Len(message_queue) :
            message_queue[c] = cur_index /\ (c = 1 \/ before = written_so_far)

LogInv == IInv /\ LogTypeOK /\ QueueNumbered /\ PlacesInUse /\ ReportAt
-----------------------------------------------------------------------------
\* A set of numbers has a least one.
LEMMA LeastPlace ==
    ASSUME NEW S \in SUBSET Nat, S # {}
    PROVE  Min(S) \in S /\ \A n \in S : Min(S) <= n
<1>1. PICK x \in S : \A y \in S : ~(<<y, x>> \in OpToRel(<, Nat))
  BY WFMin, NatLessThanWellFounded, Zenon
<1>2. \A y \in S : x <= y
  <2> SUFFICES ASSUME NEW y \in S, y < x PROVE FALSE
    OBVIOUS
  <2>1. <<y, x>> \in OpToRel(<, Nat)
    BY DEF OpToRel
  <2> QED
    BY <1>1, <2>1
<1> QED
  BY <1>2 DEF Min

\* The numbers from w + 1 on, n of them.
Run(w, n) == [k \in 1 .. n |-> w + k]

LEMMA RunFacts ==
    ASSUME NEW w \in Nat, NEW n \in Nat
    PROVE  /\ Run(w, n) \in Seq(Nat) /\ Len(Run(w, n)) = n
           /\ Append(Run(w, n), w + n + 1) = Run(w, n + 1)
           /\ n > 0 => /\ Run(w, n) # << >>
                       /\ Head(Run(w, n)) = w + 1
                       /\ Tail(Run(w, n)) = Run(w + 1, n - 1)
<1>1. Run(w, n) \in Seq(Nat) /\ Len(Run(w, n)) = n
  BY DEF Run
<1>2. Append(Run(w, n), w + n + 1) = Run(w, n + 1)
  BY <1>1 DEF Run
<1>3. ASSUME n > 0
      PROVE  /\ Run(w, n) # << >>
             /\ Head(Run(w, n)) = w + 1
             /\ Tail(Run(w, n)) = Run(w + 1, n - 1)
  BY <1>1, <1>3 DEF Run
<1> QED
  BY <1>1, <1>2, <1>3

\* A queue of places, one more and one less.
LEMMA QueueFacts ==
    ASSUME NEW q \in Seq(Index)
    PROVE  /\ Len(q) \in Nat /\ DOMAIN q = 1 .. Len(q)
           /\ \A k \in 1 .. Len(q) : q[k] \in Index
<1> QED
  BY LenProperties, ElementOfSeq

LEMMA OneMore ==
    ASSUME NEW q \in Seq(Index), NEW i \in Index
    PROVE  LET t == Append(q, i)
           IN
           /\ t \in Seq(Index) /\ Len(t) = Len(q) + 1
           /\ \A k \in 1 .. Len(q) : t[k] = q[k]
           /\ t[Len(q) + 1] = i
           /\ Head(t) = t[1]
  BY AppendProperties, QueueFacts

LEMMA OneLess ==
    ASSUME NEW q \in Seq(Index), Len(q) > 0
    PROVE  LET t == RemoveAt(q, 1)
           IN
           /\ t \in Seq(Index) /\ Len(t) = Len(q) - 1
           /\ \A k \in 1 .. Len(q) - 1 : t[k] = q[k + 1]
<1> DEFINE b == SubSeq(q, 2, Len(q))
           t == RemoveAt(q, 1)
<1>1. Len(q) \in Nat /\ \A k \in 1 .. Len(q) : q[k] \in Index
  BY QueueFacts
<1>2. SubSeq(q, 1, 1 - 1) = << >>
  BY SubSeqEmpty
<1>3. /\ b \in Seq(Index)
      /\ Len(b) = Len(q) - 1
      /\ \A k \in 1 .. Len(q) - 1 : b[k] = q[k + 1]
  <2>1. \A k \in 2 .. Len(q) : q[k] \in Index
    BY <1>1
  <2>2. /\ b \in Seq(Index)
        /\ Len(b) = IF 2 <= Len(q) THEN Len(q) - 2 + 1 ELSE 0
        /\ \A k \in 1 .. Len(q) - 2 + 1 : b[k] = q[2 + k - 1]
    BY <1>1, <2>1, SubSeqProperties
  <2>3. ASSUME NEW k \in 1 .. Len(q) - 1
        PROVE  b[k] = q[k + 1]
    <3>1. k \in 1 .. Len(q) - 2 + 1 /\ 2 + k - 1 = k + 1
      BY <1>1
    <3>2. b[k] = q[2 + k - 1]
      BY <2>2, <3>1, Zenon
    <3> QED
      BY <3>1, <3>2
  <2>4. Len(b) = Len(q) - 1
    <3> DEFINE x == Len(b)
               y == Len(q)
    <3>1. y \in Nat /\ y > 0 /\ x = IF 2 <= y THEN y - 2 + 1 ELSE 0
      BY <1>1, <2>2, Zenon
    <3> HIDE DEF x, y
    <3>2. x = y - 1
      BY <3>1
    <3> QED
      BY <3>2 DEF x, y
  <2> QED
    BY <2>2, <2>3, <2>4, Zenon
<1>4. t = SubSeq(q, 1, 1 - 1) \o b
  BY DEF RemoveAt
<1>5. t = b
  BY <1>2, <1>3, <1>4, ConcatEmptySeq
<1> QED
  BY <1>3, <1>5

-----------------------------------------------------------------------------
\* On the queue every place is there once: it has one number.
LEMMA PlaceOnce ==
    ASSUME LogInv, NEW j \in 1 .. Len(message_queue), NEW k \in 1 .. Len(message_queue),
           message_queue[j] = message_queue[k]
    PROVE  j = k
<1>1. before \in Nat /\ before + j = before + k
  BY QueueFacts DEF LogInv, QueueNumbered, LogTypeOK, before
<1> QED
  BY <1>1

LEMMA PlaceFound ==
    ASSUME LogInv, NEW c \in 1 .. Len(message_queue)
    PROVE  placeOf(message_queue[c]) = c
<1>1. DOMAIN message_queue = 1 .. Len(message_queue)
  BY QueueFacts DEF LogInv, LogTypeOK
<1> QED
  BY <1>1, PlaceOnce DEF placeOf

\* The invariant of the registry is about its own variables only.
LEMMA RegistryStays ==
    ASSUME IInv, UNCHANGED registryVars
    PROVE  IInv'
<1> USE DEF registryVars, IInv, RegistryTypeOK, FreeListInv, Frontier, Returned,
            pageAllocated
<1>1. RegistryTypeOK' /\ FreshUntouched' /\ HeadOnList' /\ LinksOnList'
  BY DEF FreshUntouched, HeadOnList, LinksOnList
<1>2. LinksDistinct' /\ LinksAcyclic' /\ PagesOfGiven'
  BY DEF LinksDistinct, LinksAcyclic, PagesOfGiven
<1> QED
  BY <1>1, <1>2

\* The start state satisfies the invariant.
LEMMA LogInit == LoggerInit => LogInv
<1> SUFFICES ASSUME LoggerInit PROVE LogInv
  OBVIOUS
<1>1. IInv
  BY InitInv DEF LoggerInit
<1>2. Len(<< >>) = 0
  OBVIOUS
<1>3. LogTypeOK
  BY LoggerAssumption DEF LoggerInit, LogTypeOK
<1>4. QueueNumbered
  BY <1>2 DEF LoggerInit, QueueNumbered, before, written_so_far
<1>5. PlacesInUse /\ ReportAt
  BY <1>2 DEF LoggerInit, RegistryInit, PlacesInUse, ReportAt, InReport
<1> QED
  BY <1>1, <1>3, <1>4, <1>5 DEF LogInv

\* A report takes a place that no message has.
LEMMA ReportBeginsKeeps ==
    ASSUME LogInv, ReportBegins
    PROVE  LogInv'
<1>1. PICK i \in Index : chainPushBack(i) /\ message' = written(i)
  BY DEF ReportBegins
<1>2. /\ allocate(i)
      /\ message_queue' = Append(message_queue, i)
      /\ message' = [message EXCEPT ![i] = [number |-> reported + 1, to_remove |-> FALSE]]
      /\ cur_index' = Head(message_queue')
      /\ reported' = reported + 1 /\ reported < MaxMessages
      /\ log_file' = log_file /\ running' = running
  BY <1>1 DEF chainPushBack, written, ReportBegins
<1>3. IInv'
  BY <1>2, AllocateInv DEF LogInv
<1>4. i \notin allocated /\ allocated' = allocated \union {i}
  BY <1>2, AllocateGives, FrontierRange DEF LogInv, Returned
<1> DEFINE n == Len(message_queue)
           t == message_queue'
<1>5. n \in Nat /\ \A k \in 1 .. n : message_queue[k] \in Index
  BY QueueFacts DEF LogInv, LogTypeOK
<1>6. /\ t \in Seq(Index) /\ Len(t) = n + 1
      /\ \A k \in 1 .. n : t[k] = message_queue[k]
      /\ t[n + 1] = i
      /\ Head(t) = t[1]
  BY <1>2, OneMore DEF LogInv, LogTypeOK
<1>7. \A k \in 1 .. n : t[k] # i /\ message'[t[k]] = message[message_queue[k]]
  BY <1>2, <1>4, <1>5, <1>6 DEF LogInv, LogTypeOK, PlacesInUse
<1>8. message'[t[n + 1]] = [number |-> reported + 1, to_remove |-> FALSE]
  BY <1>2, <1>6 DEF LogInv, LogTypeOK
<1>9. /\ reported \in Nat /\ written_so_far \in Nat
      /\ before' = before /\ before = reported - n
      /\ written_so_far' = written_so_far
  BY <1>2, <1>5, <1>6, LoggerAssumption DEF LogInv, LogTypeOK, before, written_so_far
<1>10. \A k \in 1 .. n + 1 : k \in 1 .. n \/ k = n + 1
  BY <1>5
<1>11. 1 \in 1 .. Len(t)
  BY <1>5, <1>6
<1> HIDE DEF n, t
<1>12. LogTypeOK'
  <2>1. message' \in [Index -> [number : 0 .. reported', to_remove : BOOLEAN]]
    BY <1>2, <1>9 DEF LogInv, LogTypeOK
  <2>2. cur_index' \in Index
    BY <1>2, <1>6, <1>11, ElementOfSeq DEF t
  <2> QED
    BY <1>2, <1>6, <1>9, <2>1, <2>2, LoggerAssumption DEF LogInv, LogTypeOK, t
<1>13. QueueNumbered'
  <2>1. ASSUME NEW k \in 1 .. n + 1
        PROVE  /\ message'[t[k]].number = before + k
               /\ message'[t[k]].to_remove <=> before + k <= written_so_far
    <3>1. CASE k \in 1 .. n
      BY <1>7, <3>1 DEF LogInv, QueueNumbered, n
    <3>2. CASE k = n + 1
      <4>1. before + k = reported + 1 /\ ~(before + k <= written_so_far)
        BY <1>5, <1>9, <3>2 DEF LogInv, QueueNumbered
      <4> QED
        BY <1>8, <3>2, <4>1
    <3> QED
      BY <1>10, <3>1, <3>2
  <2> QED
    BY <1>2, <1>6, <1>9, <2>1 DEF LogInv, QueueNumbered, t
<1>14. PlacesInUse'
  <2>1. \A k \in 1 .. n + 1 : t[k] \in allocated'
    BY <1>4, <1>6, <1>10 DEF LogInv, PlacesInUse, n
  <2>2. \A j \in allocated : \E k \in 1 .. n : message_queue[k] = j
    BY DEF LogInv, PlacesInUse, n
  <2>2a. 1 .. n \subseteq 1 .. n + 1 /\ n + 1 \in 1 .. n + 1
    BY <1>5
  <2>3. \A j \in allocated' : \E k \in 1 .. n + 1 : t[k] = j
    BY <1>4, <1>6, <2>2, <2>2a
  <2> QED
    BY <1>6, <2>1, <2>3 DEF PlacesInUse, t
<1>15. ReportAt'
  BY <1>2, <1>6, <1>11 DEF ReportAt, t
<1> QED
  BY <1>3, <1>12, <1>13, <1>14, <1>15 DEF LogInv
\* A marked message is the first on the queue when the report gets to it.
LEMMA ReportGoesOnKeeps ==
    ASSUME LogInv, ReportGoesOn
    PROVE  LogInv'
<1> DEFINE n == Len(message_queue)
           t == message_queue'
<1>1. PICK c \in 1 .. n : /\ message_queue[c] = cur_index
                          /\ c = 1 \/ before = written_so_far
  BY DEF LogInv, ReportAt, ReportGoesOn
<1>2. /\ n \in Nat /\ c \in Nat /\ DOMAIN message_queue = 1 .. n
      /\ \A k \in 1 .. n : message_queue[k] \in Index
      /\ before = reported - n /\ reported \in Nat /\ written_so_far \in Nat
  BY <1>1, QueueFacts DEF LogInv, LogTypeOK, before, written_so_far
<1>3. cur_index' = IF c = n THEN InvalidIndex ELSE message_queue[c + 1]
  BY <1>1, PlaceFound DEF ReportGoesOn, getChainNextIndex
<1>3a. c # n => c + 1 \in 1 .. n
  <2>1. n \in Nat /\ c \in 1 .. n
    BY <1>2
  <2> HIDE DEF n
  <2> QED
    BY <2>1
<1>3b. cur_index' \in Index \union {InvalidIndex}
  <2>1. c # n => message_queue[c + 1] \in Index
    BY <1>2, <1>3a, Zenon
  <2> QED
    BY <1>3, <2>1, Zenon
<1>4. /\ message' = message /\ reported' = reported
      /\ log_file' = log_file /\ running' = running
      /\ written_so_far' = written_so_far
  BY DEF ReportGoesOn, written_so_far
<1>5. CASE message[cur_index].to_remove
  <2>1. /\ message_queue' = RemoveAt(message_queue, placeOf(cur_index))
        /\ deallocate(cur_index)
    BY <1>5 DEF ReportGoesOn, chainRemove
  <2>2. c = 1 /\ before + 1 <= written_so_far
    BY <1>1, <1>2, <1>5 DEF LogInv, QueueNumbered
  <2>3. t = RemoveAt(message_queue, 1) /\ n > 0
    BY <1>1, <1>2, <2>1, <2>2, PlaceFound
  <2>4. /\ t \in Seq(Index) /\ Len(t) = n - 1
        /\ \A k \in 1 .. n - 1 : t[k] = message_queue[k + 1]
    BY <2>3, OneLess DEF LogInv, LogTypeOK
  <2>5. IInv' /\ allocated' = allocated \ {cur_index}
    BY <1>1, <1>2, <2>1, DeallocateInv DEF LogInv, deallocate, deallocateBlock
  <2>6. before' = before + 1
    BY <1>2, <1>4, <2>4 DEF before
  <2>7. \A k \in 1 .. n - 1 : k + 1 \in 1 .. n /\ k + 1 # 1
    BY <1>2
  <2>8. cur_index' = IF n = 1 THEN InvalidIndex ELSE t[1]
    BY <1>2, <1>3, <2>2, <2>4
  <2> HIDE DEF n, t
  <2>9. LogTypeOK'
    BY <1>3b, <1>4, <2>4 DEF LogInv, LogTypeOK, t
  <2>10. QueueNumbered'
    <3>1. ASSUME NEW k \in 1 .. n - 1
          PROVE  /\ message[t[k]].number = (before + 1) + k
                 /\ message[t[k]].to_remove <=> (before + 1) + k <= written_so_far
      <4>1. /\ message[message_queue[k + 1]].number = before + (k + 1)
            /\ message[message_queue[k + 1]].to_remove
                 <=> before + (k + 1) <= written_so_far
        BY <2>7 DEF LogInv, QueueNumbered, n
      <4>2. before + (k + 1) = (before + 1) + k
        BY <1>2
      <4> QED
        BY <2>4, <4>1, <4>2
    <3>2. 0 <= before + 1 /\ before + 1 <= written_so_far
          /\ written_so_far <= reported
      BY <1>2, <2>2 DEF LogInv, QueueNumbered
    <3> QED
      BY <1>4, <2>4, <2>6, <3>1, <3>2 DEF LogInv, QueueNumbered, t
  <2>11. PlacesInUse'
    <3>1. \A k \in 1 .. n - 1 : t[k] \in allocated'
      <4> SUFFICES ASSUME NEW k \in 1 .. n - 1 PROVE t[k] \in allocated'
        OBVIOUS
      <4>1. message_queue[k + 1] \in allocated /\ message_queue[k + 1] # message_queue[1]
        BY <1>1, <2>2, <2>7, PlaceOnce DEF LogInv, PlacesInUse, n
      <4> QED
        BY <1>1, <2>2, <2>4, <2>5, <4>1
    <3>2. ASSUME NEW j \in allocated'
          PROVE  \E k \in 1 .. n - 1 : t[k] = j
      <4>1. PICK m \in 1 .. n : message_queue[m] = j
        BY <2>5, <3>2 DEF LogInv, PlacesInUse, n
      <4>2. m # 1
        BY <1>1, <2>2, <2>5, <3>2, <4>1
      <4>3. m - 1 \in 1 .. n - 1 /\ (m - 1) + 1 = m
        BY <1>2, <4>2
      <4> QED
        BY <2>4, <4>1, <4>3
    <3> QED
      BY <2>4, <3>1, <3>2 DEF PlacesInUse, t
  <2>12. ReportAt'
    <3> SUFFICES ASSUME cur_index' # InvalidIndex
                 PROVE  1 \in 1 .. Len(t) /\ t[1] = cur_index'
      BY DEF ReportAt, InReport, t
    <3> QED
      BY <1>2, <2>3, <2>4, <2>8
  <2> QED
    BY <2>5, <2>9, <2>10, <2>11, <2>12 DEF LogInv
<1>6. CASE ~message[cur_index].to_remove
  <2>1. UNCHANGED <<registryVars, message_queue>>
    BY <1>6 DEF ReportGoesOn
  <2>2. before = written_so_far
    <3>1. ~(before + c <= written_so_far)
      BY <1>1, <1>6 DEF LogInv, QueueNumbered
    <3>2. before <= written_so_far
      BY DEF LogInv, QueueNumbered
    <3> QED
      BY <1>1, <1>2, <3>1, <3>2
  <2>3. IInv'
    BY <2>1, RegistryStays DEF LogInv
  <2>5. LogTypeOK' /\ QueueNumbered' /\ PlacesInUse'
    BY <1>3b, <1>4, <2>1
    DEF LogInv, LogTypeOK, QueueNumbered, PlacesInUse, before, written_so_far,
        registryVars
  <2>6. ReportAt'
    <3> SUFFICES ASSUME cur_index' # InvalidIndex
                 PROVE  \E k \in 1 .. n : message_queue[k] = cur_index'
      BY <1>4, <2>1, <2>2 DEF ReportAt, InReport, before, written_so_far
    <3> QED
      BY <1>3, <1>3a
  <2> QED
    BY <2>3, <2>5, <2>6 DEF LogInv
<1> QED
  BY <1>5, <1>6

-----------------------------------------------------------------------------
\* The first message without a mark is the next one to be written.
LEMMA FirstUnmarked ==
    ASSUME LogInv
    PROVE  /\ unmarked = {k \in 1 .. Len(message_queue) : before + k > written_so_far}
           /\ unmarked = {} <=> written_so_far = reported
           /\ unmarked # {} => /\ Min(unmarked) = (written_so_far - before) + 1
                               /\ Min(unmarked) \in 1 .. Len(message_queue)
<1> DEFINE n == Len(message_queue)
           m == (written_so_far - before) + 1
<1>1. /\ n \in Nat /\ DOMAIN message_queue = 1 .. n
      /\ before = reported - n /\ reported \in Nat /\ written_so_far \in Nat
      /\ before \in Int /\ 0 <= before /\ before <= written_so_far
      /\ written_so_far <= reported
  BY QueueFacts DEF LogInv, LogTypeOK, QueueNumbered, before, written_so_far
<1>2. unmarked = {k \in 1 .. n : before + k > written_so_far}
  BY <1>1 DEF unmarked, LogInv, QueueNumbered
<1>3. m \in Nat /\ \A k \in 1 .. n : before + k > written_so_far <=> m <= k
  BY <1>1
<1>4. m \in 1 .. n <=> written_so_far # reported
  BY <1>1
<1>5. unmarked = {} <=> written_so_far = reported
  <2>1. \A k \in 1 .. n : m <= k => m \in 1 .. n
    BY <1>1, <1>3
  <2> QED
    BY <1>2, <1>3, <1>4, <2>1
<1>6. ASSUME unmarked # {}
      PROVE  Min(unmarked) = m /\ Min(unmarked) \in 1 .. n
  <2>1. m \in unmarked /\ unmarked \in SUBSET Nat /\ \A k \in unmarked : m <= k
    BY <1>2, <1>3, <1>4, <1>5, <1>6
  <2>2. Min(unmarked) \in unmarked /\ \A k \in unmarked : Min(unmarked) <= k
    BY <2>1, LeastPlace
  <2>3. Min(unmarked) \in Nat /\ Min(unmarked) <= m /\ m <= Min(unmarked)
    BY <2>1, <2>2
  <2> QED
    BY <1>2, <1>3, <2>2, <2>3
<1> QED
  BY <1>2, <1>5, <1>6

\* One message is written: it is marked, and nothing else changes.
LEMMA WriteKeeps ==
    ASSUME LogInv, processNextQueuedMessage
    PROVE  /\ LogInv'
           /\ written_so_far < reported
           /\ log_file' = Append(log_file, written_so_far + 1)
           /\ reported' = reported
<1> DEFINE n == Len(message_queue)
           m == (written_so_far - before) + 1
           i == message_queue[m]
<1>1. /\ m = Min(unmarked) /\ m \in 1 .. n
      /\ before + m = written_so_far + 1
      /\ n \in Nat /\ written_so_far \in Nat /\ reported \in Nat
      /\ before = reported - n
  <2>1. /\ message_queue \in Seq(Index) /\ reported \in 0 .. MaxMessages
        /\ log_file \in Seq(Nat) /\ unmarked # {}
    BY DEF processNextQueuedMessage, LogInv, LogTypeOK
  <2>2. n \in Nat /\ written_so_far \in Nat /\ reported \in Nat
    BY <2>1, LoggerAssumption, LenProperties DEF written_so_far
  <2>3. m = Min(unmarked) /\ m \in 1 .. n
    BY <2>1, FirstUnmarked
  <2>4. before = reported - n
    BY DEF before
  <2>5. before + m = written_so_far + 1
    BY <2>2, <2>4
  <2> QED
    BY <2>2, <2>3, <2>4, <2>5
<1>2. /\ message[i].number = written_so_far + 1
      /\ \A k \in 1 .. n : message_queue[k] = i => k = m
      /\ \A k \in 1 .. n : message_queue[k] \in Index
  BY <1>1, PlaceOnce, QueueFacts DEF LogInv, QueueNumbered, LogTypeOK
<1>3. /\ log_file' = Append(log_file, written_so_far + 1)
      /\ message' = [message EXCEPT ![i].to_remove = TRUE]
      /\ UNCHANGED <<registryVars, message_queue, cur_index, reported, running>>
  BY <1>1, <1>2 DEF processNextQueuedMessage
<1> HIDE DEF i
<1>4. /\ log_file' \in Seq(Nat) /\ Len(log_file') = written_so_far + 1
      /\ \A k \in 1 .. written_so_far : log_file'[k] = log_file[k]
      /\ log_file'[written_so_far + 1] = written_so_far + 1
  BY <1>1, <1>3, AppendProperties DEF LogInv, LogTypeOK, written_so_far
<1>5. written_so_far' = written_so_far + 1 /\ before' = before /\ written_so_far < reported
  BY <1>1, <1>3, <1>4 DEF before, written_so_far
<1>6. i \in Index /\ message \in [Index -> [number : 0 .. reported, to_remove : BOOLEAN]]
  BY <1>1, <1>2 DEF LogInv, LogTypeOK, i
<1>7. /\ message' \in [Index -> [number : 0 .. reported, to_remove : BOOLEAN]]
      /\ \A j \in Index : /\ message'[j].number = message[j].number
                          /\ message'[j].to_remove <=> j = i \/ message[j].to_remove
  BY <1>3, <1>6
<1>8. IInv'
  BY <1>3, RegistryStays DEF LogInv
<1>9. LogTypeOK'
  BY <1>3, <1>4, <1>7 DEF LogInv, LogTypeOK
<1>10. QueueNumbered'
  <2>1. ASSUME NEW k \in 1 .. n
        PROVE  /\ message'[message_queue[k]].number = before + k
               /\ message'[message_queue[k]].to_remove
                    <=> before + k <= written_so_far + 1
    <3>1. /\ message[message_queue[k]].number = before + k
          /\ message[message_queue[k]].to_remove <=> before + k <= written_so_far
      BY DEF LogInv, QueueNumbered
    <3>2. k = m <=> before + k = written_so_far + 1
      BY <1>1
    <3>3. message_queue[k] = i <=> k = m
      BY <1>2 DEF i
    <3>4. before + k <= written_so_far + 1
            <=> before + k <= written_so_far \/ before + k = written_so_far + 1
      BY <1>1
    <3> QED
      BY <1>2, <1>7, <3>1, <3>2, <3>3, <3>4
  <2>2. \A k \in 1 .. written_so_far + 1 : log_file'[k] = k
    <3>1. \A k \in 1 .. written_so_far + 1 : k \in 1 .. written_so_far \/ k = written_so_far + 1
      BY <1>1
    <3> QED
      BY <1>4, <3>1 DEF LogInv, QueueNumbered
  <2>3. 0 <= before /\ before <= written_so_far + 1 /\ written_so_far + 1 <= reported
    BY <1>1, <1>5 DEF LogInv, QueueNumbered
  <2> QED
    BY <1>3, <1>5, <2>1, <2>2, <2>3 DEF QueueNumbered
<1>11. PlacesInUse' /\ ReportAt'
  BY <1>3 DEF LogInv, PlacesInUse, ReportAt, InReport, processNextQueuedMessage,
     registryVars
<1> QED
  BY <1>3, <1>5, <1>8, <1>9, <1>10, <1>11 DEF LogInv

LEMMA LogStays ==
    ASSUME LogInv,
           UNCHANGED <<registryVars, message_queue, message, cur_index, reported, log_file>>,
           running' \in BOOLEAN
    PROVE  LogInv'
<1>1. IInv'
  BY RegistryStays DEF LogInv
<1> QED
  BY <1>1
  DEF LogInv, LogTypeOK, QueueNumbered, PlacesInUse, ReportAt, InReport, before,
      written_so_far, registryVars

LEMMA LogKeeps == LogInv /\ [LoggerNext]_loggerVars => LogInv'
<1> SUFFICES ASSUME LogInv, [LoggerNext]_loggerVars PROVE LogInv'
  OBVIOUS
<1>1. CASE UNCHANGED loggerVars
  BY <1>1, LogStays DEF loggerVars, LogInv, LogTypeOK
<1>2. CASE onQuit
  BY <1>2, LogStays DEF onQuit
<1> QED
  BY <1>1, <1>2, ReportBeginsKeeps, ReportGoesOnKeeps, WriteKeeps DEF LoggerNext

\* What is on the queue without a mark is what was reported and not written.
LEMMA PendingIs ==
    ASSUME LogInv
    PROVE  pending = Run(written_so_far, reported - written_so_far)
<1> DEFINE n == Len(message_queue)
           m == (written_so_far - before) + 1
           q == SubSeq(message_queue, m, n)
<1>1. /\ n \in Nat /\ written_so_far \in Nat /\ reported \in Nat
      /\ before = reported - n /\ before <= written_so_far
      /\ written_so_far <= reported
      /\ \A k \in 1 .. n : message_queue[k] \in Index
  BY QueueFacts DEF LogInv, LogTypeOK, QueueNumbered, before, written_so_far
<1>2. CASE unmarked = {}
  <2>1. reported - written_so_far = 0 /\ 1 .. 0 = {}
    BY <1>1, <1>2, FirstUnmarked
  <2> QED
    BY <1>2, <2>1 DEF pending, Run
<1>3. CASE unmarked # {}
  <2>1. m = Min(unmarked) /\ m \in 1 .. n
    BY <1>3, FirstUnmarked
  <2>2. pending = numbers(q)
    BY <1>3, <2>1 DEF pending
  <2>3. /\ q \in Seq(Index) /\ Len(q) = (n - m) + 1
        /\ \A k \in 1 .. (n - m) + 1 : q[k] = message_queue[(m + k) - 1]
    <3>1. m \in Int /\ n \in Int /\ \A k \in m .. n : message_queue[k] \in Index
      BY <1>1, <2>1
    <3>2. /\ q \in Seq(Index)
          /\ Len(q) = IF m <= n THEN (n - m) + 1 ELSE 0
          /\ \A k \in 1 .. (n - m) + 1 : q[k] = message_queue[(m + k) - 1]
      BY <3>1, SubSeqProperties
    <3> QED
      BY <2>1, <3>2
  <2>4. DOMAIN q = 1 .. reported - written_so_far
    BY <1>1, <2>1, <2>3, QueueFacts
  <2>5. ASSUME NEW k \in 1 .. reported - written_so_far
        PROVE  message[q[k]].number = written_so_far + k
    <3>1. /\ k \in 1 .. (n - m) + 1 /\ (m + k) - 1 \in 1 .. n
          /\ before + ((m + k) - 1) = written_so_far + k
      BY <1>1, <2>1
    <3>2. message[message_queue[(m + k) - 1]].number = before + ((m + k) - 1)
      BY <3>1 DEF LogInv, QueueNumbered
    <3> QED
      BY <2>3, <3>1, <3>2
  <2> HIDE DEF q
  <2> QED
    BY <2>2, <2>4, <2>5 DEF numbers, Run
<1> QED
  BY <1>2, <1>3

\* The marks and the log say the same, and no mark is left where a report has
\* passed.
LEMMA ExactWhenInv ==
    ASSUME LogInv
    PROVE  QueueExact
<1> DEFINE n == Len(message_queue)
<1>1. /\ n \in Nat /\ DOMAIN message_queue = 1 .. n
      /\ before \in Int /\ 0 <= before /\ written_so_far \in Nat
      /\ DOMAIN log_file = 1 .. written_so_far
      /\ \A k \in 1 .. n : message_queue[k] \in Index
  BY QueueFacts, LenProperties
  DEF LogInv, LogTypeOK, QueueNumbered, before, written_so_far
<1>2. \A k \in 1 .. n :
         /\ message[message_queue[k]].number = before + k
         /\ message[message_queue[k]].to_remove <=> before + k <= written_so_far
  BY DEF LogInv, QueueNumbered
<1> HIDE DEF n
<1>3. IsInjective(message_queue)
  BY <1>1, PlaceOnce DEF IsInjective, n
<1>4. ToSet(message_queue) = allocated
  BY <1>1 DEF ToSet, LogInv, PlacesInUse, n
<1>5. InReport => cur_index \in allocated
  BY DEF LogInv, ReportAt, PlacesInUse
<1>6. \A j, k \in 1 .. n :
         j < k /\ message[message_queue[k]].to_remove
           => message[message_queue[j]].to_remove
  BY <1>1, <1>2
<1>7. ToSet(log_file) = 1 .. written_so_far
  BY <1>1 DEF ToSet, LogInv, QueueNumbered
<1>8. \A k \in 1 .. n :
         message[message_queue[k]].to_remove
           <=> message[message_queue[k]].number \in 1 .. written_so_far
  <2>1. \A k \in 1 .. n : before + k <= written_so_far <=> before + k \in 1 .. written_so_far
    BY <1>1
  <2> QED
    BY <1>2, <2>1
<1>9. InReport /\ ~message[cur_index].to_remove
        => \A k \in 1 .. n : ~message[message_queue[k]].to_remove
  <2> SUFFICES ASSUME InReport, ~message[cur_index].to_remove
               PROVE  \A k \in 1 .. n : ~message[message_queue[k]].to_remove
    OBVIOUS
  <2>1. PICK c \in 1 .. n : message_queue[c] = cur_index
                            /\ (c = 1 \/ before = written_so_far)
    BY DEF LogInv, ReportAt, n
  <2>2. before = written_so_far \/ ~(before + 1 <= written_so_far)
    BY <1>2, <2>1
  <2> QED
    BY <1>1, <1>2, <2>2
<1>10. InReport /\ ~message[cur_index].to_remove
         => \A i \in ToSet(message_queue) : ~message[i].to_remove
  BY <1>1, <1>9 DEF ToSet
<1> QED
  BY <1>1, <1>3, <1>4, <1>5, <1>6, <1>7, <1>8, <1>10
  DEF QueueExact, LogInv, LogTypeOK, IInv

\* The queue of the logger is exact for every number of messages and places:
\* each place in use is on it once, the marked messages come first and are
\* those that are in the file, and reportMessage leaves none behind it.
THEOREM QueueAlwaysExact == LoggerSpec => [](LogInv /\ QueueExact)
  BY LogInit, LogKeeps, ExactWhenInv, PTL DEF LoggerSpec

-----------------------------------------------------------------------------
PendingExact == pending = Run(written_so_far, reported - written_so_far)

\* A report adds its number at the end of what is pending, and a write takes
\* the first number off; a report that goes on changes nothing that counts.
LEMMA LogStep ==
    ASSUME LogInv, LogInv', PendingExact, PendingExact', [LoggerNext]_loggerVars
    PROVE  [Log!Report \/ Log!Write]_<<reported, pending, log_file>>
<1> DEFINE w == written_so_far
           n == reported - written_so_far
<1>1. w \in Nat /\ n \in Nat /\ reported \in Nat /\ w + n = reported
  BY LenProperties DEF LogInv, LogTypeOK, QueueNumbered, written_so_far
<1>2. CASE ReportBegins
  <2>1. reported' = reported + 1 /\ log_file' = log_file /\ w' = w
    BY <1>2 DEF ReportBegins, written_so_far
  <2>2. pending = Run(w, n) /\ pending' = Run(w, n + 1)
    <3>1. pending = Run(w, n) /\ pending' = Run(w', reported' - w')
      BY DEF PendingExact
    <3>2. reported' - w' = n + 1
      BY <1>1, <2>1
    <3> QED
      BY <2>1, <3>1, <3>2
  <2>3. Append(Run(w, n), w + n + 1) = Run(w, n + 1)
    BY <1>1, RunFacts
  <2>4. pending' = Append(pending, reported')
    BY <1>1, <2>1, <2>2, <2>3
  <2>5. Log!Report
    BY <2>1, <2>4 DEF Log!Report
  <2> QED
    BY <2>5
<1>3. CASE processNextQueuedMessage
  <2>1. /\ w < reported /\ log_file' = Append(log_file, w + 1)
        /\ reported' = reported
    BY <1>3, WriteKeeps
  <2>2. w' = w + 1
    <3>1. Len(log_file') = Len(log_file) + 1
      BY <2>1, AppendProperties DEF LogInv, LogTypeOK, written_so_far
    <3> QED
      BY <3>1 DEF written_so_far
  <2>3. pending = Run(w, n) /\ pending' = Run(w + 1, n - 1)
    <3>1. reported - (w + 1) = n - 1
      BY <1>1
    <3> QED
      BY <2>1, <2>2, <3>1 DEF PendingExact
  <2>4. /\ Run(w, n) # << >> /\ Head(Run(w, n)) = w + 1
        /\ Tail(Run(w, n)) = Run(w + 1, n - 1)
    <3>1. n > 0
      BY <1>1, <2>1
    <3> QED
      BY <1>1, <3>1, RunFacts
  <2>5. /\ pending # << >> /\ log_file' = Append(log_file, Head(pending))
        /\ pending' = Tail(pending)
    BY <2>1, <2>3, <2>4
  <2>6. Log!Write
    BY <2>1, <2>5 DEF Log!Write
  <2> QED
    BY <2>6
<1>4. CASE ReportGoesOn \/ onQuit \/ UNCHANGED loggerVars
  <2>1. reported' = reported /\ log_file' = log_file
    BY <1>4 DEF ReportGoesOn, onQuit, loggerVars
  <2>2. pending' = pending
    BY <2>1 DEF PendingExact, written_so_far
  <2> QED
    BY <2>1, <2>2
<1> QED
  BY <1>2, <1>3, <1>4 DEF LoggerNext

\* To who reads the file the logger is a MessageLog: every message is written
\* once, in the order of the reports.
THEOREM LogImplemented == LoggerSpec => ImplementsLog
<1>1. LogInv => PendingExact
  BY PendingIs DEF PendingExact
<1>2. LoggerInit => reported = 0 /\ pending = << >> /\ log_file = << >>
  BY DEF LoggerInit, pending, unmarked
<1>3. LogInv /\ LogInv' /\ PendingExact /\ PendingExact' /\ [LoggerNext]_loggerVars
        => [Log!Report \/ Log!Write]_<<reported, pending, log_file>>
  BY LogStep
<1> QED
  BY <1>1, <1>2, <1>3, QueueAlwaysExact, PTL DEF LoggerSpec, ImplementsLog, Log!LogSpec
=============================================================================
