----------------------------- MODULE BalanceTree -----------------------------
(***************************************************************************)
(* The balancer's tree of zones (balance_tree.cpp) and the requests of a   *)
(* monitor that split a leaf of it in four or merge a subtree into one     *)
(* leaf.  Every leaf keeps a table of its neighbors, which both update.    *)
(*                                                                         *)
(* Trees are known by the token that their place in the registry           *)
(* uuid_to_tree has.  The place of a destroyed tree keeps its contents     *)
(* until the token is given again, and the pointers that are left to it    *)
(* read and write them: tree is defined on every token ever given.         *)
(*                                                                         *)
(* No node server is started (the call of startNodeServers is commented    *)
(* out), so that isAnyNodeServerRunning is FALSE throughout.               *)
(***************************************************************************)
EXTENDS Zones

CONSTANTS
    World,         \* global_bounding_box
    MaxRequests    \* bound: so many requests are granted

ASSUME WorldAssumption == World \in Square
ASSUME BoundAssumption == MaxRequests \in Nat

VARIABLES
    tree,           \* token -> what is stored at its place
    allocated,      \* the tokens in use
    free,           \* the returned tokens in the order they are given again
    frontier,       \* the tokens ever given are 1 .. frontier - 1
    asserts_hold,   \* no assert of setNeighbor has failed so far
    requests,       \* the requests granted so far
    orderly         \* each was about a tree of the tree

treeVars ==
    <<tree, allocated, free, frontier, asserts_hold, requests, orderly>>

\* nullptr: the constructor of the balancer gives token 0 away, no tree has it.
NoTree == 0

Root == 1

-----------------------------------------------------------------------------
\* Reading and writing the neighbor tables of the trees tr.

getNeighbor(tr, t, cell) == tr[t].neighbors[getNeighborIndex(tr[t].box, cell)]

setNeighbor(tr, t, cell, n) ==
    [tr EXCEPT ![t].neighbors[getNeighborIndex(tr[t].box, cell)] = n]

\* The cells of a box that touch its neighbors.
edge(box) == {pair[2] : pair \in ToSet(border(box))}

\* Every neighbor of t is told that who[c] is behind the cell c of t that
\* touches it (setBottomLeftMe, ..., setRightMe).
tellNeighbors(tr, t, who) ==
    FoldLeft(LAMBDA acc, pair :
                 LET n == getNeighbor(acc, t, pair[1])
                 IN  IF n = NoTree THEN acc
                     ELSE setNeighbor(acc, n, pair[2], who[pair[2]]),
             tr, border(tr[t].box))

\* The asserts that tellNeighbors meets.
tellsOutside(tr, t) ==
    \A i \in 1 .. Len(border(tr[t].box)) :
        LET pair == border(tr[t].box)[i]
            n    == getNeighbor(tr, t, pair[1])
        IN  n # NoTree => ~inside(tr[n].box, pair[2])

\* The leaf below t that a walk towards the cell ends at: the cell may be
\* outside t, and the walk stays on its side.
leafTowards(tr, t, cell) ==
    LET right(u) == cell[1] - tr[u].box.x >= tr[u].box.size \div 2
        upper(u) == cell[2] - tr[u].box.y >= tr[u].box.size \div 2
        towards(u) == CASE ~right(u) /\ ~upper(u) -> 1
                        [] ~right(u) /\ upper(u)  -> 2
                        [] right(u)  /\ upper(u)  -> 3
                        [] right(u)  /\ ~upper(u) -> 4
        leaf[u \in DOMAIN tr] ==
            IF tr[u].leaf_node THEN u ELSE leaf[tr[u].children[towards(u)]]
    IN  leaf[t]

obtainNeighbor(tr, t, cell) == getNeighbor(tr, leafTowards(tr, t, cell), cell)
-----------------------------------------------------------------------------
\* The registry (FastIndex.tla): the list of returned tokens and the next
\* fresh one.

\* The token that the k-th tree made from now on has (createNewBalanceNode).
upcoming(k) == IF k <= Len(free) THEN free[k] ELSE frontier + k - Len(free) - 1

\* MUTANT of giveBack: the tail of the list is cut off.
MutantTailCut(list, t) ==
    IF list = << >> \/ t < Head(list) THEN <<t>> \o list
    ELSE <<Head(list), t>>

\* deallocateIndex: a token below the head of the list becomes its head, any
\* other goes behind the head.
giveBack(list, t) ==
    IF list = << >> \/ t < Head(list) THEN <<t>> \o list
    ELSE <<Head(list), t>> \o Tail(list)

newTree(box, parent) ==
    [box |-> box, parent |-> parent, leaf_node |-> TRUE,
     children |-> [k \in Child |-> NoTree],
     neighbors |-> [s \in Slot |-> NoTree]]

-----------------------------------------------------------------------------

\* MUTANT of behind: a child's sibling is still taken to be t.
MutantStillMe(tr, t, kids, cell) ==
    IF inside(tr[t].box, cell) THEN t ELSE getNeighbor(tr, t, cell)

\* What a child of t finds behind a cell: a sibling inside t, and what t had
\* there otherwise.
behind(tr, t, kids, cell) ==
    LET box == tr[t].box
    IN  IF inside(box, cell)
        THEN kids[CHOOSE k \in Child : inside(childBox(box, k), cell)]
        ELSE getNeighbor(tr, t, cell)

\* The trees after leaf t has the children kids.
withChildren(tr, t, kids) ==
    LET box == tr[t].box
        table(k) ==
            FoldLeft(LAMBDA acc, pair :
                         [acc EXCEPT ![getNeighborIndex(childBox(box, k),
                                                        pair[1])]
                            = behind(tr, t, kids, pair[1])],
                     [s \in Slot |-> NoTree], border(childBox(box, k)))
    IN  [u \in DOMAIN tr \union {kids[k] : k \in Child} |->
            IF \E k \in Child : kids[k] = u
            THEN LET k == CHOOSE j \in Child : kids[j] = u
                 IN  [newTree(childBox(box, k), t) EXCEPT !.neighbors = table(k)]
            ELSE IF u = t
            THEN [tr[t] EXCEPT !.leaf_node = FALSE, !.children = kids]
            ELSE tr[u]]

\* MUTANT of split: the neighbors are not told.
MutantNotTold(tr, t, kids) ==
    [withChildren(tr, t, kids)
       EXCEPT ![t].neighbors = [s \in Slot |-> NoTree]]

\* staticSplit() once it is allowed: make the children, tell the neighbors
\* which of them is behind each cell, and clear the own table.
split(tr, t, kids) ==
    LET made == withChildren(tr, t, kids)
        who  == [cell \in edge(tr[t].box) |->
                    behind(tr, t, kids, cell)]
    IN  [tellNeighbors(made, t, who)
           EXCEPT ![t].neighbors = [s \in Slot |-> NoTree]]

splittable(box) == box.size % 2 = 0 /\ box.size \div 2 >= NodeSizeMin

canSplit(t) == tree[t].leaf_node /\ splittable(tree[t].box)

\* The table of t filled again from the leaves below it.  Both corners at the
\* top are left out: the bottom ones are fetched twice.
withTable(tr, t) ==
    FoldLeft(LAMBDA acc, pair :
                 setNeighbor(acc, t, pair[1], obtainNeighbor(acc, t, pair[1])),
             tr,
             LET c == corners(tr[t].box)
             IN  <<c[1], c[4], c[1], c[4]>> \o sides(tr[t].box))

\* MUTANT of destroyed: the last child is forgotten.
MutantLastChildKept(tr, t) ==
    LET below[u \in DOMAIN tr] ==
            FlattenSeq([k \in 1 .. 3 |->
                LET child == tr[u].children[k]
                IN  IF child = NoTree THEN << >>
                    ELSE IF tr[child].leaf_node THEN <<child>>
                    ELSE below[child]])
    IN  below[t]

\* destroyChildren: the tokens of the leaves below t, in the order in which
\* they are returned.  The inner trees below t keep their tokens.
destroyed(tr, t) ==
    LET below[u \in DOMAIN tr] ==
            FlattenSeq([k \in Child |->
                LET child == tr[u].children[k]
                IN  IF child = NoTree THEN << >>
                    ELSE IF tr[child].leaf_node THEN <<child>>
                    ELSE below[child]])
    IN  below[t]

\* staticMerge() once it is allowed.
merge(tr, t) ==
    LET filled == withTable(tr, t)
        told   == tellNeighbors(filled, t, [cell \in edge(tr[t].box) |-> t])
    IN  [told EXCEPT ![t].children = [k \in Child |-> NoTree],
                     ![t].leaf_node = TRUE]

-----------------------------------------------------------------------------

\* BalancerServer's constructor: the root, split once.  staticSplit(1) splits
\* every leaf above level 1, which is the root alone.  A world that is too small
\* stays in one piece.  So does an odd one here; the constructor refuses one
\* above NODE_SIZE_MIN, and a smaller one is too small anyway (with asserts, it
\* does not start).
rootAlone == [t \in {Root} |-> newTree(World, NoTree)]

rootSplit == split(rootAlone, Root, [k \in Child |-> Root + k])

firstFrontier == IF splittable(World) THEN 6 ELSE 2

Init ==
    /\ tree = IF splittable(World) THEN rootSplit ELSE rootAlone
    /\ allocated = 1 .. firstFrontier - 1
    /\ free = << >>
    /\ frontier = firstFrontier
    /\ asserts_hold = TRUE
    /\ requests = 0
    /\ orderly = TRUE

onMonitoringBalanceTreeStaticSplit(t) ==
    LET kids == [k \in Child |-> upcoming(k)]
    IN  /\ t \in allocated
        /\ canSplit(t)
        /\ tree' = split(tree, t, kids)
        /\ asserts_hold' = (asserts_hold
                             /\ tellsOutside(withChildren(tree, t, kids), t))
        /\ allocated' = allocated \union {kids[k] : k \in Child}
        /\ free' = SubSeq(free, 5, Len(free))
        /\ frontier' = IF Len(free) < 4 THEN frontier + 4 - Len(free)
                       ELSE frontier

onMonitoringBalanceTreeStaticMerge(t) ==
    LET gone == destroyed(tree, t)
    IN  /\ t \in allocated
        /\ ~tree[t].leaf_node
        /\ tree' = merge(tree, t)
        /\ asserts_hold' = (asserts_hold /\ tellsOutside(withTable(tree, t), t))
        /\ allocated' = allocated \ ToSet(gone)
        /\ free' = FoldLeft(giveBack, free, gone)
        /\ UNCHANGED frontier

\* The trees that a walk down from the root meets.  An inner tree below a merged
\* one is none of them, but the registry still finds its token.
InTree(t) ==
    LET above[u \in DOMAIN tree] ==
            \/ u = Root
            \/ /\ tree[u].parent # NoTree
               /\ u \in Range(tree[tree[u].parent].children)
               /\ above[tree[u].parent]
    IN  above[t]

\* Bound: the first request about a tree that a merge cut off is the last.  Its
\* merge returns tokens again that are returned already, and then the links of
\* the registry run in a circle, which no list stands for.
MayAsk == orderly /\ requests < MaxRequests

\* One more request is granted, about any tree that the registry finds.
Granted(t) ==
    /\ requests' = requests + 1
    /\ orderly' = InTree(t)

Next ==
    \E t \in allocated :
        /\ MayAsk
        /\ Granted(t)
        /\ \/ onMonitoringBalanceTreeStaticSplit(t)
           \/ onMonitoringBalanceTreeStaticMerge(t)

Spec == Init /\ [][Next]_treeVars

-----------------------------------------------------------------------------

zones == {t \in allocated : InTree(t) /\ tree[t].leaf_node}

\* The leaf that registerNewUser sends a unit at the cell to: the first child
\* whose box has the cell is asked, and so on.
registerNewUser(cell) ==
    LET ask[t \in DOMAIN tree] ==
            IF ~inside(tree[t].box, cell) THEN NoTree
            ELSE IF tree[t].leaf_node THEN t
            ELSE LET takes == {k \in Child : ask[tree[t].children[k]] # NoTree}
                 IN  IF takes = {} THEN NoTree
                     ELSE ask[tree[t].children[
                            CHOOSE k \in takes : \A j \in takes : k <= j]]
    IN  ask[Root]

\* The cells of the world and those around it.
cells == (World.x - 1 .. World.x + World.size)
           \X (World.y - 1 .. World.y + World.size)

-----------------------------------------------------------------------------

\* The registry's list has exactly the returned tokens, each once, and every
\* pointer is to a place that was given.
PlacesOK ==
    /\ DOMAIN tree = 1 .. frontier - 1
    /\ allocated \subseteq DOMAIN tree
    /\ ToSet(free) = DOMAIN tree \ allocated
    /\ IsInjective(free)
    /\ \A t \in DOMAIN tree :
          tree[t] \in [box : Square, parent : {NoTree} \union DOMAIN tree,
                       leaf_node : BOOLEAN,
                       children : [Child -> {NoTree} \union DOMAIN tree],
                       neighbors : [Slot -> {NoTree} \union DOMAIN tree]]

\* As long as each request was about a tree of the tree, destroyed trees and the
\* inner trees a merge leaves behind do no harm to the registry.
TreeTypeOK ==
    /\ asserts_hold \in BOOLEAN
    /\ requests \in 0 .. MaxRequests
    /\ orderly \in BOOLEAN
    /\ orderly => PlacesOK

\* A unit anywhere in the world is sent to the one zone that has its cell,
\* and to none outside the world, whatever was split and merged before, as long
\* as it was a tree of the tree.
ZonesTile ==
    orderly =>
        \A cell \in cells :
            LET t == registerNewUser(cell)
            IN  IF inside(World, cell)
                THEN /\ t \in zones
                     /\ \A u \in zones : inside(tree[u].box, cell) <=> u = t
                ELSE t = NoTree

\* A merge of a tree of the tree destroys every leaf below: no zone stays behind
\* with a token that nothing in the tree refers to.  Inner trees do; a merge of
\* one of them, which the registry still finds, makes it such a zone.
NoZoneLeftBehind ==
    orderly => \A t \in allocated : tree[t].leaf_node => InTree(t)

\* Every request granted so far was a split: each took four fresh tokens.
NeverMerged == frontier = firstFrontier + 4 * requests

\* As long as nothing was merged, a zone knows which zone is behind each cell
\* along its sides, and that none is behind the border of the world.
SidesKnown ==
    NeverMerged =>
        \A t \in zones :
            LET s == sides(tree[t].box)
            IN  \A i \in 1 .. Len(s) :
                    getNeighbor(tree, t, s[i][1]) = registerNewUser(s[i][1])

\* As long as nothing was merged, no assert of setNeighbor fails, in whatever
\* order zones of different sizes are split.
SplitsKeepAsserts == NeverMerged => asserts_hold

-----------------------------------------------------------------------------
\* assert(!inside(bounding_box, neighbor_cell)) in setNeighbor: a tree is
\* never told of a neighbor inside its own box.
AssertsHold == asserts_hold
=============================================================================
