------------------------------ MODULE FastIndex ------------------------------
(***************************************************************************)
(* The index registry of fast_index.h (Memory::FastIndexRegistry): storage *)
(* elements live in pages that are created on first use; the indices that  *)
(* were given back form a list threaded through the elements, headed by    *)
(* next_available_index and ending in the first index never given.  A link *)
(* of 0 means "no link: the next index is the following one".              *)
(*                                                                         *)
(* The list is not sorted and a link is never cleared when an index is     *)
(* taken, so that the whole structure rests on where 0 may occur.          *)
(***************************************************************************)
EXTENDS Integers

CONSTANTS
    Capacity,   \* bound: the largest index the model hands out
    PageSize    \* number of elements in a page

ASSUME CapacityAssumption == Capacity \in Nat
ASSUME PageSizeAssumption == PageSize \in Nat \ {0}

Index == 0 .. Capacity

VARIABLES
    allocated,              \* indices whose element has its allocated flag set
    link,                   \* element -> next_available_index of the element
    next_available_index,   \* head of the list of returned indices
    max_allocated_index,
    pages                   \* pages that have been created

registryVars ==
    <<allocated, link, next_available_index, max_allocated_index, pages>>

PageOf(i) == i \div PageSize

pageAllocated(i) == PageOf(i) \in pages

find(i) == i \in allocated

RegistryTypeOK ==
    /\ allocated \subseteq Index
    /\ link \in [Index -> 0 .. Capacity + 1]
    /\ next_available_index \in 0 .. Capacity + 1
    /\ max_allocated_index \in Index
    /\ pages \subseteq {PageOf(i) : i \in Index}

RegistryInit ==
    /\ allocated = {}
    /\ link = [i \in Index |-> 0]
    /\ next_available_index = 0
    /\ max_allocated_index = 0
    /\ pages = {}

-----------------------------------------------------------------------------

\* allocateIndex() returns index i.
allocateIndex(i) ==
    /\ i = next_available_index
    /\ next_available_index' =
         IF pageAllocated(i) /\ link[i] # 0 THEN link[i] ELSE i + 1
    /\ UNCHANGED link

\* MUTANT of allocateBlock: the page of the element is not created.
MutantNoPage(i) ==
    /\ allocated' = allocated \union {i}
    /\ max_allocated_index' =
         IF i > max_allocated_index THEN i ELSE max_allocated_index
    /\ pages' = IF i = 0 THEN {0} ELSE pages

allocateBlock(i) ==
    /\ allocated' = allocated \union {i}
    /\ max_allocated_index' =
         IF i > max_allocated_index THEN i ELSE max_allocated_index
    /\ pages' = pages \union {PageOf(i)}

\* MUTANTS of deallocateIndex.  Every returned index becomes the head, as in
\* a plain stack.
MutantAlwaysPush(i) ==
    /\ link' = [link EXCEPT ![i] = next_available_index]
    /\ next_available_index' = i

\* The old link of the head is lost when an index is put behind it.
MutantInsertCut(i) ==
    IF i < next_available_index
    THEN /\ link' = [link EXCEPT ![i] = next_available_index]
         /\ next_available_index' = i
    ELSE /\ link' = [link EXCEPT ![next_available_index] = i]
         /\ UNCHANGED next_available_index

deallocateIndex(i) ==
    /\ next_available_index' =
         IF i < next_available_index THEN i ELSE next_available_index
    /\ link' =
         CASE i < next_available_index ->
                [link EXCEPT ![i] = next_available_index]
           [] i > next_available_index ->
                [link EXCEPT ![i] = link[next_available_index],
                             ![next_available_index] = i]
           [] OTHER -> link

deallocateBlock(i) ==
    /\ allocated' = allocated \ {i}
    /\ UNCHANGED <<max_allocated_index, pages>>

\* FastIndexRegistry::allocate.  The guard i \in Index is the bound.
allocate(i) ==
    /\ i \in Index
    /\ allocateIndex(i)
    /\ allocateBlock(i)

\* FastIndexRegistry::deallocate: a caller returns an index that it holds.
deallocate(i) ==
    /\ find(i)
    /\ deallocateBlock(i)
    /\ deallocateIndex(i)

RegistryNext == \E i \in Index : allocate(i) \/ deallocate(i)

RegistrySpec == RegistryInit /\ [][RegistryNext]_registryVars

-----------------------------------------------------------------------------

\* The indices below Frontier were all given at least once.
Frontier == IF pages = {} THEN 0 ELSE max_allocated_index + 1

Returned == (0 .. Frontier - 1) \ allocated

(***************************************************************************)
(* The list of returned indices, without walking it: the head is a         *)
(* returned index or the frontier; so is every link of a returned index,   *)
(* which is neither 0 (the "no link" mark) nor the head; no two returned   *)
(* indices share a link; and there is no cycle, since every set of         *)
(* returned indices has one whose link leaves the set.  Every index below  *)
(* the frontier has its page.                                              *)
(***************************************************************************)
FreshUntouched ==
    \A i \in Index : i >= Frontier => i \notin allocated /\ link[i] = 0

HeadOnList == next_available_index \in Returned \union {Frontier}

LinksOnList ==
    \A i \in Returned :
        /\ link[i] \in (Returned \union {Frontier}) \ {next_available_index}
        /\ link[i] # 0

LinksDistinct ==
    \A i, j \in Returned : link[i] = link[j] => i = j

LinksAcyclic ==
    \A S \in SUBSET Returned :
        S # {} => \E i \in S : link[i] \notin S

PagesOfGiven ==
    /\ \A i \in Index : i < Frontier => pageAllocated(i)
    /\ pages = {} => max_allocated_index = 0

\* The free list of fast_index.h is well formed in every reachable state:
\* without it allocateIndex would hand out an index that is in use, or never
\* hand out again one that was returned.
FreeListInv ==
    /\ FreshUntouched
    /\ HeadOnList
    /\ LinksOnList
    /\ LinksDistinct
    /\ LinksAcyclic
    /\ PagesOfGiven

\* The two assert()s of deallocateIndex: whenever an index in use is
\* returned, its page exists, and so does the page of the list's head when
\* the index is put behind it (the head may be a page that was never made).
AssertsHold ==
    \A i \in allocated :
        /\ pageAllocated(i)
        /\ i > next_available_index => pageAllocated(next_available_index)

\* Two holders never share an index, a returned index is always reused
\* before a fresh one is opened, and fresh ones open in order: the registry
\* is an IndexAllocator.
Allocator == INSTANCE IndexAllocator WITH
    live <- allocated, frontier <- Frontier

ImplementsAllocator == Allocator!AllocSpec
=============================================================================
