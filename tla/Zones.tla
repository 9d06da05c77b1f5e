-------------------------------- MODULE Zones --------------------------------
(***************************************************************************)
(* The geometry of the balancer's zones (coordinate_2d.h, balance_tree.cpp):*)
(* a zone is a square of cells, and its neighbor table has one slot for    *)
(* each stretch of NodeSizeMin along its sides and one for each corner.    *)
(* A cell here is one coordinate unit; cells are pairs <<x, y>>.           *)
(***************************************************************************)
EXTENDS Integers, Sequences, SequencesExt

CONSTANTS
    NodeSizeMin,   \* NODE_SIZE_MIN
    NodeSizeMax    \* NODE_SIZE_MAX

ASSUME SizesAssumption ==
    /\ NodeSizeMin \in Nat \ {0}
    /\ NodeSizeMax \in Nat
    /\ NodeSizeMax >= NodeSizeMin
    /\ NodeSizeMax % NodeSizeMin = 0

NeighborCountAtSide == NodeSizeMax \div NodeSizeMin

Slot == 0 .. 4 * (NeighborCountAtSide + 1) - 1

Square == [x : Int, y : Int, size : 1 .. NodeSizeMax]

\* EChildIndex, counted from 1: lower left, upper left, upper right, lower right.
Child == 1 .. 4

inside(box, cell) ==
    /\ cell[1] >= box.x /\ cell[1] < box.x + box.size
    /\ cell[2] >= box.y /\ cell[2] < box.y + box.size

\* The slot for a cell outside the box: clockwise from the lower left corner.
getNeighborIndex(box, cell) ==
    LET N  == NeighborCountAtSide
        dx == cell[1] - box.x
        dy == cell[2] - box.y
    IN  CASE dx < 0 /\ dy < 0 -> 0
          [] dx < 0 /\ dy >= 0 /\ dy < box.size -> 1 + dy \div NodeSizeMin
          [] dx < 0 /\ dy >= box.size -> 1 + N
          [] dx >= 0 /\ dx < box.size /\ dy >= box.size
               -> 2 + N + dx \div NodeSizeMin
          [] dx >= box.size /\ dy >= box.size -> 2 * (N + 1)
          [] dx >= box.size /\ dy >= 0 /\ dy < box.size
               -> 3 + 2 * N + dy \div NodeSizeMin
          [] dx >= box.size /\ dy < 0 -> 3 * (N + 1)
          [] OTHER -> 4 + 3 * N + dx \div NodeSizeMin

\* The cells around a box, each with the cell of the box that touches it:
\* the corners, then the sides cell by cell.
corners(box) ==
    LET last == box.size - 1
        at(dx, dy, ix, iy) == << <<box.x + dx, box.y + dy>>,
                                 <<box.x + ix, box.y + iy>> >>
    IN  << at(-1, -1, 0, 0), at(-1, box.size, 0, last),
           at(box.size, box.size, last, last), at(box.size, -1, last, 0) >>

sides(box) ==
    LET last == box.size - 1
        at(dx, dy, ix, iy) == << <<box.x + dx, box.y + dy>>,
                                 <<box.x + ix, box.y + iy>> >>
    IN  FlattenSeq([i \in 1 .. box.size |->
            << at(i - 1, -1, i - 1, 0), at(i - 1, box.size, i - 1, last),
               at(-1, i - 1, 0, i - 1), at(box.size, i - 1, last, i - 1) >>])

border(box) == corners(box) \o sides(box)

\* MUTANT of childBox: a child is one cell too large.
MutantBoxTooLarge(box, k) ==
    LET half == box.size \div 2
    IN  [x |-> IF k \in {3, 4} THEN box.x + half ELSE box.x,
         y |-> IF k \in {2, 3} THEN box.y + half ELSE box.y,
         size |-> half + 1]

\* The quarter of the box that child k gets.
childBox(box, k) ==
    LET half == box.size \div 2
    IN  [x |-> IF k \in {3, 4} THEN box.x + half ELSE box.x,
         y |-> IF k \in {2, 3} THEN box.y + half ELSE box.y,
         size |-> half]
=============================================================================
