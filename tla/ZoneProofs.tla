----------------------------- MODULE ZoneProofs -----------------------------
(***************************************************************************)
(* The balancer's zones, for any sizes the constructor of BalancerServer   *)
(* accepts and any number of requests; for any world too, but for          *)
(* SidesAlwaysKnown, which needs one whose halves stay whole.              *)
(*                                                                         *)
(* The neighbor table is large enough and its slots are not shared.        *)
(*                                                                         *)
(* OrderlyInv is the inductive invariant of BalanceTree: TreeInv holds as  *)
(* long as each request was about a tree of the tree.  The places of       *)
(* destroyed trees and of the inner trees a merge leaves behind keep       *)
(* pointers, so that every recursion over the registry has to end on them  *)
(* too: each place has a height, and children are lower (Heights).  Walks  *)
(* down and up are recursions along it, and so are the functions that the  *)
(* code's recursions are modelled by.  What a walk from the root meets     *)
(* (Below) is determined by its equation alone (ReachOnly): that is how    *)
(* the trees after a split and after a merge are compared with those       *)
(* before.                                                                 *)
(*                                                                         *)
(* AssertInv says why no assert fails before the first merge: no table     *)
(* names a tree in the box of its own, inner trees and stale corner slots  *)
(* included.  The first reuse of a token ends that.                        *)
(*                                                                         *)
(* SidesInv says why every zone knows what is behind its sides, as long as *)
(* nothing was merged.  A slot of the table stands for a stretch of        *)
(* NODE_SIZE_MIN cells, and the boxes are aligned to stretches: what one   *)
(* cell of a stretch shows holds for all of them (SameSlotKnows).  A split *)
(* then writes the slots of a leaf that lead into the tree that was split, *)
(* and no others (SplitWrites).                                            *)
(***************************************************************************)
EXTENDS BalanceTree, SequenceTheorems, FiniteSetTheorems, WellFoundedInduction, TLAPS

N == NeighborCountAtSide

\* Where a cell is: left of the box, level with it or right of it; and below,
\* level or above.
across(box, cell) == IF cell[1] < box.x THEN -1
                     ELSE IF cell[1] < box.x + box.size THEN 0 ELSE 1
along(box, cell) == IF cell[2] < box.y THEN -1
                    ELSE IF cell[2] < box.y + box.size THEN 0 ELSE 1

\* The stretch of the side that the cell touches.
stretch(box, cell) ==
    IF across(box, cell) = 0 THEN (cell[1] - box.x) \div NodeSizeMin
    ELSE IF along(box, cell) = 0 THEN (cell[2] - box.y) \div NodeSizeMin
    ELSE 0

LEMMA Quotient ==
    ASSUME NEW a \in Nat
    PROVE  /\ a \div NodeSizeMin \in Nat
           /\ NodeSizeMin * (a \div NodeSizeMin) <= a
           /\ a < NodeSizeMin * (a \div NodeSizeMin) + NodeSizeMin
BY SizesAssumption, Z3

LEMMA SideLength == N \in Nat /\ NodeSizeMin * N = NodeSizeMax
BY SizesAssumption, Z3 DEF N, NeighborCountAtSide

\* A side of the largest node has N stretches.
LEMMA StretchInSide ==
    ASSUME NEW a \in 0 .. NodeSizeMax - 1
    PROVE  a \div NodeSizeMin \in 0 .. N - 1
<1> DEFINE q == a \div NodeSizeMin
<1>1. q \in Nat /\ NodeSizeMin * q <= a
  BY Quotient
<1>2. NodeSizeMin * q < NodeSizeMin * N
  BY <1>1, SideLength, SizesAssumption
<1>3. q < N
  BY <1>1, <1>2, SideLength, SizesAssumption
<1> QED
  BY <1>1, <1>3, SideLength

Cells == Int \X Int

\* The value of getNeighborIndex by the place of the cell.
LEMMA IndexByPlace ==
    ASSUME NEW box \in Square, NEW cell \in Cells, ~inside(box, cell)
    PROVE  LET q == stretch(box, cell)
           IN  /\ across(box, cell) = -1 /\ along(box, cell) = -1
                    => getNeighborIndex(box, cell) = 0
               /\ across(box, cell) = -1 /\ along(box, cell) = 0
                    => getNeighborIndex(box, cell) = 1 + q
               /\ across(box, cell) = -1 /\ along(box, cell) = 1
                    => getNeighborIndex(box, cell) = 1 + N
               /\ across(box, cell) = 0 /\ along(box, cell) = 1
                    => getNeighborIndex(box, cell) = 2 + N + q
               /\ across(box, cell) = 1 /\ along(box, cell) = 1
                    => getNeighborIndex(box, cell) = 2 * (N + 1)
               /\ across(box, cell) = 1 /\ along(box, cell) = 0
                    => getNeighborIndex(box, cell) = 3 + 2 * N + q
               /\ across(box, cell) = 1 /\ along(box, cell) = -1
                    => getNeighborIndex(box, cell) = 3 * (N + 1)
               /\ across(box, cell) = 0 /\ along(box, cell) = -1
                    => getNeighborIndex(box, cell) = 4 + 3 * N + q
<1> DEFINE dx == cell[1] - box.x
           dy == cell[2] - box.y
<1>1. /\ box.size \in Int /\ box.size > 0
      /\ box.x \in Int /\ box.y \in Int /\ cell[1] \in Int /\ cell[2] \in Int
  BY SizesAssumption DEF Square, Cells
<1>2. /\ across(box, cell) = -1 <=> dx < 0
      /\ across(box, cell) = 0 <=> dx >= 0 /\ dx < box.size
      /\ across(box, cell) = 1 <=> dx >= box.size
      /\ along(box, cell) = -1 <=> dy < 0
      /\ along(box, cell) = 0 <=> dy >= 0 /\ dy < box.size
      /\ along(box, cell) = 1 <=> dy >= box.size
  BY <1>1 DEF across, along
<1>3. /\ across(box, cell) = 0 => stretch(box, cell) = dx \div NodeSizeMin
      /\ across(box, cell) # 0 /\ along(box, cell) = 0
           => stretch(box, cell) = dy \div NodeSizeMin
  BY DEF stretch
<1> HIDE DEF dx, dy
<1>4. dx \in Int /\ dy \in Int
  BY <1>1 DEF dx, dy
<1>5. across(box, cell) # 0 \/ along(box, cell) # 0
  BY <1>1, <1>2 DEF inside, dx, dy
<1> DEFINE i == getNeighborIndex(box, cell)
<1>6. /\ dx < 0 /\ dy < 0 => i = 0
      /\ dx < 0 /\ dy >= 0 /\ dy < box.size => i = 1 + dy \div NodeSizeMin
      /\ dx < 0 /\ dy >= box.size => i = 1 + N
      /\ dx >= 0 /\ dx < box.size /\ dy >= box.size
           => i = 2 + N + dx \div NodeSizeMin
      /\ dx >= box.size /\ dy >= box.size => i = 2 * (N + 1)
      /\ dx >= box.size /\ dy >= 0 /\ dy < box.size
           => i = 3 + 2 * N + dy \div NodeSizeMin
      /\ dx >= box.size /\ dy < 0 => i = 3 * (N + 1)
      /\ dx >= 0 /\ dx < box.size /\ dy < 0
           => i = 4 + 3 * N + dx \div NodeSizeMin
  BY <1>1, <1>4 DEF getNeighborIndex, dx, dy, N
<1> HIDE DEF i
<1> QED
  BY <1>1, <1>2, <1>3, <1>4, <1>5, <1>6 DEF i

LEMMA Stretches ==
    ASSUME NEW box \in Square, NEW cell \in Cells, ~inside(box, cell)
    PROVE  /\ across(box, cell) \in {-1, 0, 1} /\ along(box, cell) \in {-1, 0, 1}
           /\ across(box, cell) # 0 \/ along(box, cell) # 0
           /\ across(box, cell) = 0 \/ along(box, cell) = 0
                => stretch(box, cell) \in 0 .. N - 1
<1>1. /\ box.size \in Int /\ box.size > 0 /\ box.size <= NodeSizeMax
      /\ box.x \in Int /\ box.y \in Int /\ cell[1] \in Int /\ cell[2] \in Int
  BY SizesAssumption DEF Square, Cells
<1>2. across(box, cell) = 0 => cell[1] - box.x \in 0 .. NodeSizeMax - 1
  BY <1>1, SizesAssumption DEF across
<1>3. along(box, cell) = 0 => cell[2] - box.y \in 0 .. NodeSizeMax - 1
  BY <1>1, SizesAssumption DEF along
<1>4. across(box, cell) = 0 \/ along(box, cell) = 0
        => stretch(box, cell) \in 0 .. N - 1
  BY <1>2, <1>3, StretchInSide DEF stretch
<1>5. across(box, cell) \in {-1, 0, 1} /\ along(box, cell) \in {-1, 0, 1}
  BY DEF across, along
<1>6. across(box, cell) # 0 \/ along(box, cell) # 0
  BY <1>1 DEF across, along, inside
<1> QED
  BY <1>4, <1>5, <1>6

\* setNeighbor and getNeighbor never reach outside the array neighbors, for
\* any cell outside the box, next to it or not.
THEOREM IndexInTable ==
    ASSUME NEW box \in Square, NEW cell \in Cells, ~inside(box, cell)
    PROVE  getNeighborIndex(box, cell) \in Slot
<1>1. Slot = 0 .. 4 * (N + 1) - 1 /\ N \in Nat
  BY SideLength DEF Slot, N
<1> QED
  BY <1>1, IndexByPlace, Stretches

\* A slot of the table belongs to one side or corner, and to one stretch of
\* that side: what is written for a neighbor never overwrites another's.
THEOREM SlotsApart ==
    ASSUME NEW box \in Square,
           NEW c \in Cells, ~inside(box, c), NEW d \in Cells, ~inside(box, d),
           getNeighborIndex(box, c) = getNeighborIndex(box, d)
    PROVE  /\ across(box, c) = across(box, d)
           /\ along(box, c) = along(box, d)
           /\ stretch(box, c) = stretch(box, d)
<1> DEFINE a1 == across(box, c)  a2 == across(box, d)
           b1 == along(box, c)   b2 == along(box, d)
           q1 == stretch(box, c) q2 == stretch(box, d)
           i1 == getNeighborIndex(box, c)
           i2 == getNeighborIndex(box, d)
<1>1. /\ a1 \in {-1, 0, 1} /\ b1 \in {-1, 0, 1} /\ (a1 # 0 \/ b1 # 0)
      /\ a2 \in {-1, 0, 1} /\ b2 \in {-1, 0, 1} /\ (a2 # 0 \/ b2 # 0)
      /\ a1 = 0 \/ b1 = 0 => q1 \in 0 .. N - 1
      /\ a2 = 0 \/ b2 = 0 => q2 \in 0 .. N - 1
  BY Stretches
<1>2. /\ a1 # 0 /\ b1 # 0 => q1 = 0
      /\ a2 # 0 /\ b2 # 0 => q2 = 0
  BY DEF stretch
<1>3. N \in Nat /\ N > 0
  BY SideLength, SizesAssumption
<1>4. /\ a1 = -1 /\ b1 = -1 => i1 = 0
      /\ a1 = -1 /\ b1 = 0 => i1 = 1 + q1
      /\ a1 = -1 /\ b1 = 1 => i1 = 1 + N
      /\ a1 = 0 /\ b1 = 1 => i1 = 2 + N + q1
      /\ a1 = 1 /\ b1 = 1 => i1 = 2 * (N + 1)
      /\ a1 = 1 /\ b1 = 0 => i1 = 3 + 2 * N + q1
      /\ a1 = 1 /\ b1 = -1 => i1 = 3 * (N + 1)
      /\ a1 = 0 /\ b1 = -1 => i1 = 4 + 3 * N + q1
  BY IndexByPlace
<1>5. /\ a2 = -1 /\ b2 = -1 => i2 = 0
      /\ a2 = -1 /\ b2 = 0 => i2 = 1 + q2
      /\ a2 = -1 /\ b2 = 1 => i2 = 1 + N
      /\ a2 = 0 /\ b2 = 1 => i2 = 2 + N + q2
      /\ a2 = 1 /\ b2 = 1 => i2 = 2 * (N + 1)
      /\ a2 = 1 /\ b2 = 0 => i2 = 3 + 2 * N + q2
      /\ a2 = 1 /\ b2 = -1 => i2 = 3 * (N + 1)
      /\ a2 = 0 /\ b2 = -1 => i2 = 4 + 3 * N + q2
  BY IndexByPlace
<1>6. i1 = i2
  OBVIOUS
<1> HIDE DEF a1, a2, b1, b2, q1, q2, i1, i2
<1>7. a1 = a2 /\ b1 = b2 /\ q1 = q2
  BY <1>1, <1>2, <1>3, <1>4, <1>5, <1>6
<1> QED
  BY <1>7 DEF a1, a2, b1, b2, q1, q2

-----------------------------------------------------------------------------
\* Recursive functions.

\* A set of numbers has a least one.
LEMMA LeastNumber ==
    ASSUME NEW S \in SUBSET Nat, S # {}
    PROVE  \E x \in S : \A y \in S : x <= y
<1>1. PICK x \in S : \A y \in S : ~(<<y, x>> \in OpToRel(<, Nat))
  BY WFMin, NatLessThanWellFounded, Zenon
<1>2. \A y \in S : x <= y
  <2> SUFFICES ASSUME NEW y \in S, y < x PROVE FALSE
    OBVIOUS
  <2>1. <<y, x>> \in OpToRel(<, Nat)
    BY DEF OpToRel
  <2> QED
    BY <1>1, <2>1
<1> QED
  BY <1>2

\* Of the elements of a set that have a number, one has the least.
LEMMA LeastElement ==
    ASSUME NEW S, NEW D, S \subseteq D, S # {}, NEW m \in [D -> Nat]
    PROVE  \E x \in S : \A y \in S : m[x] <= m[y]
<1>1. {m[x] : x \in S} \in SUBSET Nat /\ {m[x] : x \in S} # {}
  OBVIOUS
<1>2. PICK n \in {m[x] : x \in S} : \A k \in {m[x] : x \in S} : n <= k
  BY <1>1, LeastNumber
<1> QED
  BY <1>2

\* Elements of D are numbered by m, and what step makes of a function at one
\* of them depends on its values at those with smaller numbers alone.
Recursive(D, V, m, b, step) ==
    /\ b \in Nat /\ m \in [D -> Nat] /\ \A u \in D : m[u] < b
    /\ [D -> V] # {}
    /\ step \in [D -> [[D -> V] -> V]]
    /\ \A u \in D : \A f, g \in [D -> V] :
          (\A v \in D : m[v] < m[u] => f[v] = g[v]) => step[u][f] = step[u][g]

\* Then there is a function that is what step makes of it.
LEMMA Recursion ==
    ASSUME NEW D, NEW V, NEW m, NEW b, NEW step, Recursive(D, V, m, b, step)
    PROVE  \E f \in [D -> V] : \A u \in D : f[u] = step[u][f]
<1>0. /\ b \in Nat /\ m \in [D -> Nat] /\ \A u \in D : m[u] < b
      /\ [D -> V] # {}
      /\ step \in [D -> [[D -> V] -> V]]
      /\ \A u \in D : \A f, g \in [D -> V] :
          (\A v \in D : m[v] < m[u] => f[v] = g[v]) => step[u][f] = step[u][g]
  BY DEF Recursive
<1> DEFINE Upto(n) == \E f \in [D -> V] : \A u \in D : m[u] < n => f[u] = step[u][f]
<1>1. Upto(0)
  BY <1>0
<1>2. ASSUME NEW n \in Nat, Upto(n)
      PROVE  Upto(n + 1)
  <2>1. PICK f \in [D -> V] : \A u \in D : m[u] < n => f[u] = step[u][f]
    BY <1>2
  <2> DEFINE g == [u \in D |-> step[u][f]]
  <2>2. g \in [D -> V]
    BY <1>0
  <2>3. \A v \in D : m[v] < n => g[v] = f[v]
    BY <1>0, <2>1
  <2>4. \A u \in D : g[u] = step[u][f]
    OBVIOUS
  <2> HIDE DEF g
  <2>5. ASSUME NEW u \in D, m[u] < n + 1
        PROVE  g[u] = step[u][g]
    <3>1. \A v \in D : m[v] < m[u] => f[v] = g[v]
      BY <1>0, <2>3, <2>5
    <3> QED
      BY <1>0, <2>2, <2>4, <3>1
  <2> QED
    BY <2>2, <2>5
<1> HIDE DEF Upto
<1>3. Upto(b)
  <2> SUFFICES ASSUME ~Upto(b) PROVE FALSE
    OBVIOUS
  <2>0. b \in Nat
    BY <1>0
  <2>1. PICK n \in {k \in Nat : ~Upto(k)} : \A k \in {j \in Nat : ~Upto(j)} : n <= k
    <3>1. {k \in Nat : ~Upto(k)} \in SUBSET Nat /\ {k \in Nat : ~Upto(k)} # {}
      BY <2>0
    <3> QED
      BY <3>1, LeastNumber
  <2>2. n # 0 /\ n - 1 \in Nat
    BY <1>0, <1>1, <2>1
  <2>3. Upto(n - 1)
    BY <2>1, <2>2
  <2>4. Upto((n - 1) + 1)
    BY <1>2, <2>2, <2>3
  <2> QED
    BY <2>1, <2>2, <2>4
<1> QED
  BY <1>0, <1>3 DEF Upto

-----------------------------------------------------------------------------
\* Folds over sequences.

\* Max is the greatest of a set of places.
LEMMA MaxIsIn ==
    ASSUME NEW n \in Nat, NEW s \in SUBSET (1 .. n), s # {}
    PROVE  Max(s) \in s /\ \A x \in s : Max(s) >= x
<1> DEFINE m == [x \in 1 .. n |-> n - x]
<1>1. m \in [1 .. n -> Nat] /\ \A x \in s : m[x] = n - x
  OBVIOUS
<1> HIDE DEF m
<1>2. PICK x \in s : \A y \in s : m[x] <= m[y]
  BY <1>1, LeastElement
<1>3. \A y \in s : x >= y
  BY <1>1, <1>2
<1> QED
  BY <1>2, <1>3 DEF Max

\* A set of places is finite.
LEMMA CountedPlaces ==
    ASSUME NEW n \in Nat, NEW s \in SUBSET (1 .. n)
    PROVE  IsFiniteSet(s) /\ Cardinality(s) \in Nat /\ Cardinality(s) <= n
<1>1. IsFiniteSet(1 .. n) /\ Cardinality(1 .. n) = n
  BY FS_Interval
<1>2. IsFiniteSet(s) /\ Cardinality(s) <= Cardinality(1 .. n)
  BY <1>1, FS_Subset
<1>3. Cardinality(s) \in Nat
  BY <1>2, FS_CardinalityType
<1> QED
  BY <1>1, <1>2, <1>3

\* What holds of the empty set, and of a set when it holds of what is left
\* without the greatest element, holds of every set of places.
LEMMA SetsOfPlaces ==
    ASSUME NEW n \in Nat, NEW Good, {} \in Good,
           \A s \in SUBSET (1 .. n) : s # {} /\ s \ {Max(s)} \in Good => s \in Good
    PROVE  \A s \in SUBSET (1 .. n) : s \in Good
<1> DEFINE All == SUBSET (1 .. n)
           m == [s \in All |-> Cardinality(s)]
<1>1. \A s \in All : IsFiniteSet(s) /\ Cardinality(s) \in Nat
  BY CountedPlaces
<1>2. m \in [All -> Nat] /\ \A s \in All : m[s] = Cardinality(s)
  BY <1>1
<1> SUFFICES ASSUME \E s \in All : s \notin Good PROVE FALSE
  OBVIOUS
<1>3. {s \in All : s \notin Good} \subseteq All /\ {s \in All : s \notin Good} # {}
  OBVIOUS
<1> HIDE DEF All, m
<1>4. PICK s \in {t \in All : t \notin Good} : \A t \in {u \in All : u \notin Good} : m[s] <= m[t]
  BY <1>2, <1>3, LeastElement
<1>5. s # {} /\ s \in All /\ s \notin Good
  BY <1>4
<1>6. Max(s) \in s
  BY <1>5, MaxIsIn DEF All
<1>7. s \ {Max(s)} \in All /\ m[s \ {Max(s)}] < m[s]
  <2>1. s \ {Max(s)} \in All
    BY <1>5 DEF All
  <2>2. Cardinality(s \ {Max(s)}) = Cardinality(s) - 1
    BY <1>1, <1>5, <1>6, FS_RemoveElement
  <2> QED
    BY <1>1, <1>2, <1>5, <2>1, <2>2
<1>8. m[s] \in Nat /\ m[s \ {Max(s)}] \in Nat
  BY <1>2, <1>5, <1>7
<1>9. s \ {Max(s)} \in Good
  BY <1>4, <1>7, <1>8
<1> QED
  BY <1>5, <1>9 DEF All

\* A fold over the places 1 .. n starts from base and stays in V.
Folding(n, V, base, op) == n \in Nat /\ base \in V /\ op \in [1 .. n -> [V -> V]]

\* f is the fold, the greatest place last, of every set of places.
Folds(f, n, V, base, op) ==
    /\ f \in [SUBSET (1 .. n) -> V]
    /\ \A s \in SUBSET (1 .. n) :
          f[s] = IF s = {} THEN base ELSE op[Max(s)][f[s \ {Max(s)}]]

\* There is such a fold.
LEMMA FoldExists ==
    ASSUME NEW n, NEW V, NEW base, NEW op, Folding(n, V, base, op)
    PROVE  \E f : Folds(f, n, V, base, op)
<1> USE DEF Folding
<1> DEFINE D == SUBSET (1 .. n)
           m == [s \in D |-> Cardinality(s)]
           without == [s \in D |-> s \ {Max(s)}]
           step == [s \in D |-> [f \in [D -> V] |->
                      IF s = {} THEN base ELSE op[Max(s)][f[without[s]]]]]
<1>1. \A s \in D : m[s] \in Nat /\ m[s] < n + 1 /\ m[s] = Cardinality(s)
  BY CountedPlaces
<1>2. m \in [D -> Nat] /\ n + 1 \in Nat /\ [s \in D |-> base] \in [D -> V]
  BY CountedPlaces
<1>3. ASSUME NEW s \in D, s # {}
      PROVE  Max(s) \in 1 .. n /\ without[s] \in D /\ m[without[s]] < m[s]
  <2>1. Max(s) \in s /\ Max(s) \in 1 .. n
    BY <1>3, MaxIsIn
  <2>2. Cardinality(s \ {Max(s)}) = Cardinality(s) - 1
    BY <2>1, CountedPlaces, FS_RemoveElement
  <2>3. without[s] = s \ {Max(s)} /\ without[s] \in D
    BY DEF without
  <2> HIDE DEF m, without
  <2>4. m[without[s]] = m[s] - 1
    BY <1>1, <2>2, <2>3
  <2> QED
    BY <1>1, <2>1, <2>3, <2>4
<1> HIDE DEF m
<1>4. \A s \in D : \A f \in [D -> V] :
         step[s][f] = IF s = {} THEN base ELSE op[Max(s)][f[without[s]]]
  BY DEF step
<1>5. step \in [D -> [[D -> V] -> V]]
  <2> SUFFICES ASSUME NEW s \in D, NEW f \in [D -> V]
               PROVE  (IF s = {} THEN base ELSE op[Max(s)][f[without[s]]]) \in V
    BY DEF step
  <2> HIDE DEF D, without, step
  <2> QED
    BY <1>3
<1>6. \A s \in D : without[s] = s \ {Max(s)}
  OBVIOUS
<1> HIDE DEF D, step, without
<1>7. ASSUME NEW s \in D, NEW f \in [D -> V], NEW g \in [D -> V],
             \A t \in D : m[t] < m[s] => f[t] = g[t]
      PROVE  step[s][f] = step[s][g]
  <2>1. CASE s = {}
    BY <1>4, <2>1
  <2>2. CASE s # {}
    <3>1. f[without[s]] = g[without[s]]
      BY <1>3, <1>7, <2>2
    <3> QED
      BY <1>4, <2>2, <3>1
  <2> QED
    BY <2>1, <2>2
<1>8. \A s \in D : m[s] < n + 1
  BY <1>1
<1>9. \A s \in D : \A f, g \in [D -> V] :
         (\A t \in D : m[t] < m[s] => f[t] = g[t]) => step[s][f] = step[s][g]
  BY <1>7
<1>10. PICK f \in [D -> V] : \A s \in D : f[s] = step[s][f]
  <2>1. Recursive(D, V, m, n + 1, step)
    BY <1>2, <1>5, <1>8, <1>9 DEF Recursive
  <2> QED
    BY <2>1, Recursion
<1>11. ASSUME NEW s \in D
       PROVE  f[s] = IF s = {} THEN base ELSE op[Max(s)][f[s \ {Max(s)}]]
  <2>1. f[s] = step[s][f]
    BY <1>10
  <2>2. step[s][f] = IF s = {} THEN base ELSE op[Max(s)][f[without[s]]]
    BY <1>4
  <2> QED
    BY <1>6, <2>1, <2>2
<1> QED
  BY <1>11 DEF D, Folds

\* What is in one of two sequences is in both behind each other.
LEMMA ConcatRange ==
    ASSUME NEW P, NEW a \in Seq(P), NEW c \in Seq(P)
    PROVE  Range(a) \subseteq Range(a \o c) /\ Range(c) \subseteq Range(a \o c)
<1>1. /\ DOMAIN a = 1 .. Len(a) /\ DOMAIN c = 1 .. Len(c) /\ Len(a) \in Nat /\ Len(c) \in Nat
      /\ DOMAIN (a \o c) = 1 .. Len(a) + Len(c)
  BY ConcatProperties, LenProperties
<1>2. /\ \A i \in 1 .. Len(a) : (a \o c)[i] = a[i]
      /\ \A i \in 1 .. Len(c) : (a \o c)[Len(a) + i] = c[i]
  OBVIOUS
<1>3. ASSUME NEW i \in 1 .. Len(a) PROVE a[i] \in Range(a \o c)
  BY <1>1, <1>2 DEF Range
<1>4. ASSUME NEW i \in 1 .. Len(c) PROVE c[i] \in Range(a \o c)
  <2>1. Len(a) + i \in 1 .. Len(a) + Len(c)
    BY <1>1
  <2> QED
    BY <1>1, <1>2, <2>1 DEF Range
<1> QED
  BY <1>1, <1>3, <1>4 DEF Range

\* FlattenSeq puts its parts behind each other.
LEMMA FlattenSteps ==
    ASSUME NEW P, NEW n \in Nat \ {0}, NEW s \in [1 .. n -> Seq(P)]
    PROVE  /\ FlattenSeq(s) \in Seq(P)
           /\ n = 4 => FlattenSeq(s) = ((s[1] \o s[2]) \o s[3]) \o s[4]
           /\ \A i \in 1 .. n : Range(s[i]) \subseteq Range(FlattenSeq(s))
<1> DEFINE D == 1 .. n
           V == Seq(P)
           step == [i \in D |-> [f \in [D -> V] |->
                      IF i = 1 THEN s[i] ELSE f[i - 1] \o s[i]]]
           m == [i \in D |-> i]
           part == CHOOSE f : f = [i \in 1 .. Len(s) |->
                                     IF i = 1 THEN s[i] ELSE f[i - 1] \o s[i]]
<1>1. Len(s) = n
  OBVIOUS
<1>2. m \in [D -> Nat] /\ (\A i \in D : m[i] < n + 1) /\ \A i \in D : m[i] = i
  OBVIOUS
<1>3. \A a, b \in V : a \o b \in V
  BY ConcatProperties
<1>4. \A i \in D : s[i] \in V /\ (i # 1 => i - 1 \in D)
  OBVIOUS
<1>5. \A i \in D : \A f \in [D -> V] :
         step[i][f] = IF i = 1 THEN s[i] ELSE f[i - 1] \o s[i]
  OBVIOUS
<1>6. step \in [D -> [[D -> V] -> V]]
  BY <1>3, <1>4
<1>7. s \in [D -> V]
  OBVIOUS
<1>8. FlattenSeq(s) = part[n]
  BY <1>1 DEF FlattenSeq
<1> HIDE DEF step, m, V, part
<1>9. ASSUME NEW i \in D, NEW f \in [D -> V], NEW g \in [D -> V],
             \A j \in D : m[j] < m[i] => f[j] = g[j]
      PROVE  step[i][f] = step[i][g]
  <2>1. i # 1 => f[i - 1] = g[i - 1]
    BY <1>2, <1>4, <1>9
  <2>2. /\ step[i][f] = IF i = 1 THEN s[i] ELSE f[i - 1] \o s[i]
        /\ step[i][g] = IF i = 1 THEN s[i] ELSE g[i - 1] \o s[i]
    BY <1>5
  <2> QED
    BY <2>1, <2>2, Zenon
<1>10. n + 1 \in Nat
  OBVIOUS
<1>11. PICK f \in [D -> V] : \A i \in D : f[i] = step[i][f]
  <2>1. \A i \in D : m[i] < n + 1
    BY <1>2
  <2>2. m \in [D -> Nat]
    BY <1>2
  <2> HIDE DEF D
  <2>3. \A i \in D : \A f, g \in [D -> V] :
           (\A j \in D : m[j] < m[i] => f[j] = g[j]) => step[i][f] = step[i][g]
    BY <1>9
  <2> QED
    <3>1. Recursive(D, V, m, n + 1, step)
      BY <2>1, <2>2, <2>3, <1>6, <1>7, <1>10 DEF Recursive
    <3> QED
      BY <3>1, Recursion
<1>12. f = [i \in 1 .. Len(s) |-> IF i = 1 THEN s[i] ELSE f[i - 1] \o s[i]]
  <2>1. \A i \in 1 .. Len(s) : f[i] = IF i = 1 THEN s[i] ELSE f[i - 1] \o s[i]
    BY <1>1, <1>5, <1>11, Zenon
  <2>2. f = [i \in 1 .. Len(s) |-> f[i]]
    BY <1>1
  <2> HIDE DEF D
  <2> QED
    BY <2>1, <2>2, Zenon
<1>13. part = [i \in 1 .. Len(s) |-> IF i = 1 THEN s[i] ELSE part[i - 1] \o s[i]]
  BY <1>12 DEF part
<1>14. \A i \in D : part[i] = IF i = 1 THEN s[i] ELSE part[i - 1] \o s[i]
  BY <1>1, <1>13
<1>15. \A i \in D : part[i] \in V
  <2> SUFFICES ASSUME \E i \in D : part[i] \notin V PROVE FALSE
    OBVIOUS
  <2> DEFINE Bad == {i \in D : part[i] \notin V}
  <2>1. Bad \in SUBSET Nat /\ Bad # {}
    <3>1. \A i \in Bad : i \in Nat
      BY DEF Bad
    <3> QED
      BY <3>1 DEF Bad
  <2> HIDE DEF Bad
  <2>2a. PICK i \in Bad : \A j \in Bad : i <= j
    BY <2>1, LeastNumber
  <2>2. i \in D /\ part[i] \notin V /\ \A j \in D : part[j] \notin V => i <= j
    BY <2>2a DEF Bad
  <2>3. i \in D /\ part[i] \notin V /\ i # 1
    BY <1>4, <1>14, <2>2
  <2>4. i - 1 \in D /\ part[i - 1] \in V
    BY <2>2, <2>3
  <2> QED
    BY <1>3, <1>4, <1>14, <2>3, <2>4
<1>16. n = 4 => part[n] = ((s[1] \o s[2]) \o s[3]) \o s[4]
  <2> SUFFICES ASSUME n = 4 PROVE part[4] = ((s[1] \o s[2]) \o s[3]) \o s[4]
    OBVIOUS
  <2>1. part[1] = s[1]
    BY <1>14
  <2>2. part[2] = part[1] \o s[2]
    BY <1>14
  <2>3. part[3] = part[2] \o s[3]
    BY <1>14
  <2>4. part[4] = part[3] \o s[4]
    BY <1>14
  <2> QED
    BY <2>1, <2>2, <2>3, <2>4
<1>17. ASSUME NEW i \in D
       PROVE  Range(s[i]) \subseteq Range(part[n])
  <2> DEFINE Bad == {j \in i .. n : ~(Range(s[i]) \subseteq Range(part[j]))}
  <2>1. \A a, c \in V : Range(a) \subseteq Range(a \o c) /\ Range(c) \subseteq Range(a \o c)
    BY ConcatRange DEF V
  <2>2. Bad = {}
    <3> SUFFICES ASSUME Bad # {} PROVE FALSE
      OBVIOUS
    <3>1. Bad \in SUBSET Nat
      OBVIOUS
    <3>2. PICK j \in Bad : \A k \in Bad : j <= k
      <4> HIDE DEF Bad
      <4> QED
        BY <3>1, LeastNumber
    <3>3. j \in D /\ j >= i /\ ~(Range(s[i]) \subseteq Range(part[j]))
      OBVIOUS
    <3>4. CASE j = i
      <4>1. j # 1 => j - 1 \in D
        BY <1>4, <3>3
      <4>2. part[j] = IF j = 1 THEN s[j] ELSE part[j - 1] \o s[j]
        BY <1>14, <3>3
      <4>3. s[j] \in V /\ (j # 1 => part[j - 1] \in V)
        BY <1>4, <1>15, <3>3, <4>1
      <4>4. CASE j = 1
        BY <3>3, <3>4, <4>2, <4>4
      <4>5. CASE j # 1
        <5>1. part[j] = part[j - 1] \o s[j]
          BY <4>2, <4>5
        <5>2. Range(s[j]) \subseteq Range(part[j - 1] \o s[j])
          BY <2>1, <4>3, <4>5
        <5> QED
          BY <3>3, <3>4, <5>1, <5>2
      <4> QED
        BY <4>4, <4>5
    <3>5. CASE j # i
      <4>1. j - 1 \in D /\ j - 1 \in i .. n /\ j # 1 /\ ~(j <= j - 1)
        BY <3>3, <3>5
      <4>2. j - 1 \notin Bad
        <5> HIDE DEF Bad
        <5> QED
          BY <3>2, <4>1
      <4>3. Range(s[i]) \subseteq Range(part[j - 1])
        BY <4>1, <4>2
      <4>4. part[j] = part[j - 1] \o s[j]
        BY <1>14, <3>3, <4>1
      <4>5. Range(part[j - 1]) \subseteq Range(part[j - 1] \o s[j])
        BY <1>4, <1>15, <2>1, <3>3, <4>1
      <4> QED
        BY <3>3, <4>3, <4>4, <4>5
    <3> QED
      BY <3>4, <3>5
  <2>3. n \in i .. n
    OBVIOUS
  <2> QED
    BY <2>2, <2>3
<1> QED
  <2>1. n \in D
    OBVIOUS
  <2>2. part[n] \in Seq(P)
    BY <1>15, <2>1, Zenon DEF V
  <2>3. \A i \in 1 .. n : Range(s[i]) \subseteq Range(FlattenSeq(s))
    BY <1>8, <1>17 DEF D
  <2> QED
    BY <1>8, <1>16, <2>2, <2>3, Zenon

-----------------------------------------------------------------------------
\* Boxes and the cells around them.

\* What the type of a box says.
LEMMA BoxFacts ==
    ASSUME NEW box \in Square
    PROVE  /\ box.x \in Int /\ box.y \in Int
           /\ box.size \in Nat /\ box.size > 0 /\ box.size <= NodeSizeMax
BY SizesAssumption DEF Square

\* The four quarters of a box of even size share no cell, and have each of its
\* cells.
LEMMA QuartersTile ==
    ASSUME NEW box \in Square, box.size % 2 = 0
    PROVE  /\ \A k \in Child : /\ childBox(box, k) \in Square
                               /\ 2 * childBox(box, k).size = box.size
           /\ \A cell \in Cells : inside(box, cell) =>
                 \E k \in Child : inside(childBox(box, k), cell)
           /\ \A cell \in Cells : \A k \in Child :
                 inside(childBox(box, k), cell) => inside(box, cell)
           /\ \A cell \in Cells : \A j, k \in Child :
                 inside(childBox(box, j), cell) /\ inside(childBox(box, k), cell)
                    => j = k
<1> DEFINE half == box.size \div 2
           b(k) == childBox(box, k)
<1>1. /\ box.x \in Int /\ box.y \in Int
      /\ box.size \in Nat /\ box.size > 0 /\ box.size <= NodeSizeMax
      /\ NodeSizeMax \in Nat
  BY BoxFacts, SizesAssumption
<1>2. half \in Nat /\ 2 * half = box.size /\ half > 0 /\ half <= NodeSizeMax
  BY <1>1, Z3
<1>3. \A k \in Child :
         /\ b(k).x = IF k \in {3, 4} THEN box.x + half ELSE box.x
         /\ b(k).y = IF k \in {2, 3} THEN box.y + half ELSE box.y
         /\ b(k).size = half
         /\ b(k) = [x |-> b(k).x, y |-> b(k).y, size |-> b(k).size]
  BY DEF childBox
<1> HIDE DEF half, b
<1>4. \A k \in Child : b(k) \in Square /\ 2 * b(k).size = box.size
  BY <1>1, <1>2, <1>3 DEF Square
<1>5. ASSUME NEW cell \in Cells
      PROVE  /\ inside(box, cell) => \E k \in Child : inside(b(k), cell)
             /\ \A k \in Child : inside(b(k), cell) => inside(box, cell)
             /\ \A j, k \in Child : inside(b(j), cell) /\ inside(b(k), cell) => j = k
  <2> DEFINE p == cell[1]
             q == cell[2]
  <2>1. p \in Int /\ q \in Int
    BY DEF Cells
  <2>2. inside(box, cell) <=>
           /\ p >= box.x /\ p < box.x + box.size
           /\ q >= box.y /\ q < box.y + box.size
    BY DEF inside
  <2>3. \A k \in Child : inside(b(k), cell) <=>
           /\ p >= b(k).x /\ p < b(k).x + b(k).size
           /\ q >= b(k).y /\ q < b(k).y + b(k).size
    BY DEF inside
  <2> HIDE DEF p, q
  <2>4. /\ inside(b(1), cell) <=> /\ p >= box.x /\ p < box.x + half
                                  /\ q >= box.y /\ q < box.y + half
        /\ inside(b(2), cell) <=> /\ p >= box.x /\ p < box.x + half
                                  /\ q >= box.y + half /\ q < box.y + half + half
        /\ inside(b(3), cell) <=> /\ p >= box.x + half /\ p < box.x + half + half
                                  /\ q >= box.y + half /\ q < box.y + half + half
        /\ inside(b(4), cell) <=> /\ p >= box.x + half /\ p < box.x + half + half
                                  /\ q >= box.y /\ q < box.y + half
    BY <1>3, <2>3 DEF Child
  <2>5. Child = {1, 2, 3, 4}
    BY DEF Child
  <2>6. inside(box, cell) => inside(b(1), cell) \/ inside(b(2), cell) \/ inside(b(3), cell) \/ inside(b(4), cell)
    BY <1>1, <1>2, <2>1, <2>2, <2>4
  <2>7. inside(b(1), cell) \/ inside(b(2), cell) \/ inside(b(3), cell) \/ inside(b(4), cell) => inside(box, cell)
    BY <1>1, <1>2, <2>1, <2>2, <2>4
  <2>8. /\ ~(inside(b(1), cell) /\ inside(b(2), cell)) /\ ~(inside(b(1), cell) /\ inside(b(3), cell))
        /\ ~(inside(b(1), cell) /\ inside(b(4), cell)) /\ ~(inside(b(2), cell) /\ inside(b(3), cell))
        /\ ~(inside(b(2), cell) /\ inside(b(4), cell)) /\ ~(inside(b(3), cell) /\ inside(b(4), cell))
    BY <1>1, <1>2, <2>1, <2>4
  <2> QED
    BY <2>5, <2>6, <2>7, <2>8
<1> QED
  BY <1>4, <1>5 DEF b

\* Also for a cell that is inside, getNeighborIndex names a slot: a stale
\* pointer has a tree told of a neighbor in its own box.
LEMMA IndexIsSlot ==
    ASSUME NEW box \in Square, NEW cell \in Cells
    PROVE  getNeighborIndex(box, cell) \in Slot
<1>1. CASE ~inside(box, cell)
  BY <1>1, IndexInTable
<1>2. CASE inside(box, cell)
  <2> DEFINE dx == cell[1] - box.x
             dy == cell[2] - box.y
  <2>1. dx \in 0 .. NodeSizeMax - 1 /\ dy \in Nat /\ dx < box.size /\ dy < box.size /\ box.size \in Nat
    BY <1>2, BoxFacts, SizesAssumption DEF inside, Cells
  <2>2. dx \div NodeSizeMin \in 0 .. N - 1
    BY <2>1, StretchInSide
  <2>3. getNeighborIndex(box, cell) = 4 + 3 * N + dx \div NodeSizeMin
    <3> HIDE DEF dx, dy
    <3> QED
      BY <2>1 DEF getNeighborIndex, N, dx, dy
  <2>4. Slot = 0 .. 4 * (N + 1) - 1 /\ N \in Nat
    BY SideLength DEF Slot, N
  <2> HIDE DEF dx
  <2> QED
    BY <2>2, <2>3, <2>4
<1> QED
  BY <1>1, <1>2

Pairs == Cells \X Cells

\* Four elements make a sequence.
LEMMA FourAreSeq ==
    ASSUME NEW S, NEW a \in S, NEW b \in S, NEW c \in S, NEW d \in S
    PROVE  <<a, b, c, d>> \in Seq(S)
OBVIOUS

\* Two cells are the same, or share a side or a corner.
Touch(c, e) == c[1] - e[1] \in {-1, 0, 1} /\ c[2] - e[2] \in {-1, 0, 1}

\* A pair of border: a cell outside the box and one inside that touches it.
Around(box) ==
    {pair \in Pairs : /\ ~inside(box, pair[1]) /\ inside(box, pair[2])
                      /\ Touch(pair[1], pair[2])}

\* Of the cells around a box each is outside, and is touched from inside.
LEMMA BorderAround ==
    ASSUME NEW box \in Square
    PROVE  corners(box) \in Seq(Around(box)) /\ sides(box) \in Seq(Around(box))
<1> DEFINE last == box.size - 1
           at(dx, dy, ix, iy) == << <<box.x + dx, box.y + dy>>,
                                    <<box.x + ix, box.y + iy>> >>
           P == Around(box)
<1>1. /\ box.x \in Int /\ box.y \in Int /\ last \in Int
      /\ box.size \in Nat \ {0}
  BY BoxFacts
<1>2. ASSUME NEW dx \in Int, NEW dy \in Int, NEW ix \in 0 .. last, NEW iy \in 0 .. last,
             dx \notin 0 .. last \/ dy \notin 0 .. last,
             dx - ix \in {-1, 0, 1}, dy - iy \in {-1, 0, 1}
      PROVE  at(dx, dy, ix, iy) \in P
  <2>1. at(dx, dy, ix, iy) \in Pairs
    BY <1>1, <1>2 DEF Pairs, Cells
  <2>2. inside(box, at(dx, dy, ix, iy)[2])
    BY <1>1 DEF inside
  <2>3. ~inside(box, at(dx, dy, ix, iy)[1])
    BY <1>1, <1>2 DEF inside
  <2>4. Touch(at(dx, dy, ix, iy)[1], at(dx, dy, ix, iy)[2])
    BY <1>1, <1>2 DEF Touch
  <2> QED
    BY <2>1, <2>2, <2>3, <2>4 DEF Around
<1>3. corners(box) = << at(-1, -1, 0, 0), at(-1, box.size, 0, last),
                        at(box.size, box.size, last, last), at(box.size, -1, last, 0) >>
  BY DEF corners
<1> DEFINE part == [i \in 1 .. box.size |->
            << at(i - 1, -1, i - 1, 0), at(i - 1, box.size, i - 1, last),
               at(-1, i - 1, 0, i - 1), at(box.size, i - 1, last, i - 1) >>]
<1>4. sides(box) = FlattenSeq(part)
  BY DEF sides
<1>4a. /\ -1 \in Int /\ -1 \notin 0 .. last /\ box.size \in Int /\ box.size \notin 0 .. last
       /\ 0 \in 0 .. last /\ last \in 0 .. last
       /\ -1 - 0 \in {-1, 0, 1} /\ box.size - last \in {-1, 0, 1}
  BY <1>1
<1>4b. \A i \in 1 .. box.size : /\ i - 1 \in 0 .. last /\ i - 1 \in Int
                               /\ (i - 1) - (i - 1) \in {-1, 0, 1}
  BY <1>1
<1> HIDE DEF at, last, P
<1>5. corners(box) \in Seq(P)
  <2>1. /\ at(-1, -1, 0, 0) \in P /\ at(-1, box.size, 0, last) \in P
        /\ at(box.size, box.size, last, last) \in P /\ at(box.size, -1, last, 0) \in P
    BY <1>2, <1>4a
  <2> QED
    BY <1>3, <2>1, FourAreSeq
<1>6. part \in [1 .. box.size -> Seq(P)]
  <2> SUFFICES ASSUME NEW i \in 1 .. box.size
               PROVE  << at(i - 1, -1, i - 1, 0), at(i - 1, box.size, i - 1, last),
                         at(-1, i - 1, 0, i - 1), at(box.size, i - 1, last, i - 1) >> \in Seq(P)
    BY DEF part
  <2>1. /\ at(i - 1, -1, i - 1, 0) \in P /\ at(i - 1, box.size, i - 1, last) \in P
        /\ at(-1, i - 1, 0, i - 1) \in P /\ at(box.size, i - 1, last, i - 1) \in P
    BY <1>2, <1>4a, <1>4b
  <2> QED
    BY <2>1, FourAreSeq
<1> HIDE DEF part
<1>7. sides(box) \in Seq(P)
  BY <1>1, <1>4, <1>6, FlattenSteps
<1> QED
  BY <1>5, <1>7 DEF P

\* The same of border, element by element.
LEMMA BorderPlaces ==
    ASSUME NEW box \in Square
    PROVE  /\ border(box) \in Seq(Around(box))
           /\ Len(border(box)) \in Nat /\ DOMAIN border(box) = 1 .. Len(border(box))
           /\ \A i \in 1 .. Len(border(box)) : border(box)[i] \in Around(box)
<1>1. border(box) \in Seq(Around(box))
  BY BorderAround, ConcatProperties DEF border
<1> QED
  BY <1>1, LenProperties, ElementOfSeq

\* The cells around a box are cells.
LEMMA BorderTyped ==
    ASSUME NEW box \in Square
    PROVE  corners(box) \in Seq(Pairs) /\ sides(box) \in Seq(Pairs) /\ border(box) \in Seq(Pairs)
<1>1. ASSUME NEW s \in Seq(Around(box))
      PROVE  s \in Seq(Pairs)
  BY DEF Around
<1> QED
  BY <1>1, BorderAround, BorderPlaces

\* The cells along the inside of a box are cells.
LEMMA EdgeCells ==
    ASSUME NEW box \in Square
    PROVE  edge(box) \subseteq Cells
<1> DEFINE b == border(box)
<1>1. b \in Seq(Pairs)
  BY BorderTyped
<1>2. edge(box) = {pair[2] : pair \in ToSet(b)}
  BY DEF edge
<1> HIDE DEF b
<1>3. \A pair \in ToSet(b) : pair \in Pairs
  BY <1>1, LenProperties, ElementOfSeq DEF ToSet
<1> QED
  BY <1>2, <1>3 DEF Pairs

-----------------------------------------------------------------------------
\* Reading and writing tables.

\* What is stored at a place, when the trees have the tokens D.
Node(D) == [box : Square, parent : {NoTree} \union D, leaf_node : BOOLEAN,
            children : [Child -> {NoTree} \union D],
            neighbors : [Slot -> {NoTree} \union D]]

\* The trees ur are the trees tr, but for what their tables say.
SameButTables(tr, ur) ==
    /\ DOMAIN ur = DOMAIN tr
    /\ \A u \in DOMAIN tr : /\ ur[u].box = tr[u].box
                            /\ ur[u].parent = tr[u].parent
                            /\ ur[u].leaf_node = tr[u].leaf_node
                            /\ ur[u].children = tr[u].children

\* What a table says is a tree or none.
LEMMA GetTyped ==
    ASSUME NEW D, NEW tr \in [D -> Node(D)], NEW t \in D, NEW cell \in Cells
    PROVE  /\ tr[t].box \in Square
           /\ getNeighbor(tr, t, cell) \in {NoTree} \union D
<1>1. tr[t] \in Node(D)
  OBVIOUS
<1>2. tr[t].box \in Square /\ tr[t].neighbors \in [Slot -> {NoTree} \union D]
  BY <1>1 DEF Node
<1> QED
  BY <1>2, IndexIsSlot DEF getNeighbor

\* setNeighbor writes tables and nothing else.
LEMMA SetTyped ==
    ASSUME NEW D, NEW tr \in [D -> Node(D)], NEW t \in D, NEW cell \in Cells,
           NEW n \in {NoTree} \union D
    PROVE  /\ setNeighbor(tr, t, cell, n) \in [D -> Node(D)]
           /\ SameButTables(tr, setNeighbor(tr, t, cell, n))
<1> DEFINE i == getNeighborIndex(tr[t].box, cell)
           ur == setNeighbor(tr, t, cell, n)
           table == [tr[t].neighbors EXCEPT ![i] = n]
<1>1. i \in Slot
  BY GetTyped, IndexIsSlot
<1>2. tr[t] \in Node(D) /\ tr[t].neighbors \in [Slot -> {NoTree} \union D]
  <2>1. tr[t] \in Node(D)
    OBVIOUS
  <2> QED
    BY <2>1 DEF Node
<1> HIDE DEF i
<1>3. table \in [Slot -> {NoTree} \union D]
  BY <1>1, <1>2
<1>4. ur = [tr EXCEPT ![t] = [tr[t] EXCEPT !.neighbors = table]]
  BY DEF setNeighbor, i
<1> HIDE DEF table, ur
<1>5. DOMAIN ur = D /\ \A u \in D : u # t => ur[u] = tr[u]
  BY <1>4
<1>6. ur[t] = [tr[t] EXCEPT !.neighbors = table]
  BY <1>4
<1>7. /\ ur[t] \in Node(D) /\ ur[t].box = tr[t].box /\ ur[t].parent = tr[t].parent
      /\ ur[t].leaf_node = tr[t].leaf_node /\ ur[t].children = tr[t].children
  BY <1>2, <1>3, <1>6 DEF Node
<1>8. ur \in [D -> Node(D)]
  <2>1. ur = [u \in D |-> ur[u]]
    BY <1>4
  <2>2. \A u \in D : ur[u] \in Node(D)
    BY <1>5, <1>7
  <2> QED
    BY <2>1, <2>2
<1>9. SameButTables(tr, ur)
  BY <1>5, <1>7 DEF SameButTables
<1> QED
  BY <1>8, <1>9 DEF ur

\* Differing in tables only is transitive.
LEMMA SameTwice ==
    ASSUME NEW tr, NEW ur, NEW vr, SameButTables(tr, ur), SameButTables(ur, vr)
    PROVE  SameButTables(tr, vr)
BY DEF SameButTables

\* A fold whose steps stay in a set ends in it.
Folded(it, n, V, base, op) ==
    \A s \in SUBSET (1 .. n) :
        /\ s = {} => it[s] = base
        /\ s # {} /\ it[s \ {Max(s)}] \in V
             => it[s] = op[Max(s)][it[s \ {Max(s)}]]

\* Such a fold stays in V.
LEMMA FoldStays ==
    ASSUME NEW n, NEW V, NEW base, NEW op, Folding(n, V, base, op),
           NEW it, Folded(it, n, V, base, op)
    PROVE  it[1 .. n] \in V
<1> USE DEF Folding, Folded
<1> DEFINE Good == {s \in SUBSET (1 .. n) : it[s] \in V}
<1>1. {} \in Good
  OBVIOUS
<1>2. ASSUME NEW s \in SUBSET (1 .. n), s # {}, s \ {Max(s)} \in Good
      PROVE  s \in Good
  <2>1. Max(s) \in 1 .. n
    BY <1>2, MaxIsIn
  <2>2. it[s \ {Max(s)}] \in V
    BY <1>2
  <2>3. it[s] = op[Max(s)][it[s \ {Max(s)}]]
    BY <1>2, <2>2
  <2>4. it[s] \in V
    BY <2>1, <2>2, <2>3
  <2> QED
    BY <2>4
<1> HIDE DEF Good
<1>3. \A s \in SUBSET (1 .. n) : s \in Good
  BY <1>1, <1>2, SetsOfPlaces
<1>4. (1 .. n) \in Good
  BY <1>3
<1> QED
  BY <1>4 DEF Good

\* A fold whose round i takes G[i - 1] to G[i] ends in the last of them.
LEMMA FoldReaches ==
    ASSUME NEW n, NEW V, NEW base, NEW op, Folding(n, V, base, op),
           NEW it, Folded(it, n, V, base, op),
           NEW G, \A i \in 0 .. n : G[i] \subseteq V, base \in G[0],
           \A i \in 1 .. n : \A x \in G[i - 1] : op[i][x] \in G[i]
    PROVE  it[1 .. n] \in G[n]
<1>1. n \in Nat
  BY DEF Folding
<1> DEFINE Bad == {i \in 0 .. n : it[1 .. i] \notin G[i]}
<1>2. Bad = {}
  <2> SUFFICES ASSUME Bad # {} PROVE FALSE
    OBVIOUS
  <2>1. Bad \in SUBSET Nat
    BY <1>1
  <2>2. PICK i \in Bad : \A j \in Bad : i <= j
    <3> HIDE DEF Bad
    <3> QED
      BY <2>1, LeastNumber
  <2>3. i \in 0 .. n /\ i \in Nat /\ it[1 .. i] \notin G[i]
    BY <1>1
  <2>4. CASE i = 0
    <3>1. 1 .. i = {} /\ {} \in SUBSET (1 .. n)
      BY <2>4
    <3>2. it[1 .. i] = base
      BY <3>1 DEF Folded
    <3> QED
      BY <2>3, <2>4, <3>2
  <2>5. CASE i # 0
    <3>1. i \in 1 .. n /\ i - 1 \in 0 .. n /\ ~(i <= i - 1)
      BY <1>1, <2>3, <2>5
    <3>2. i - 1 \notin Bad
      <4> HIDE DEF Bad
      <4> QED
        BY <2>2, <3>1
    <3>3. it[1 .. i - 1] \in G[i - 1] /\ G[i - 1] \subseteq V
      BY <3>1, <3>2
    <3>4. (1 .. i) \in SUBSET (1 .. n) /\ 1 .. i # {}
      BY <1>1, <3>1
    <3>5. Max(1 .. i) = i
      <4>1. Max(1 .. i) \in 1 .. i /\ \A x \in 1 .. i : Max(1 .. i) >= x
        BY <1>1, <3>4, MaxIsIn
      <4>2. i \in 1 .. i
        BY <3>1
      <4> HIDE DEF Bad
      <4> QED
        BY <2>3, <4>1, <4>2
    <3>6. (1 .. i) \ {i} = 1 .. i - 1
      BY <2>3, <3>1
    <3> HIDE DEF Bad
    <3>7. it[1 .. i] = op[i][it[1 .. i - 1]]
      BY <3>3, <3>4, <3>5, <3>6 DEF Folded
    <3> QED
      BY <2>3, <3>1, <3>3, <3>7
  <2> QED
    BY <2>4, <2>5
<1>3. n \in 0 .. n
  BY <1>1
<1> QED
  BY <1>2, <1>3

\* One round of tellNeighbors.
Told(tr, t, who, pair) ==
    LET n == getNeighbor(tr, t, pair[1])
    IN  IF n = NoTree THEN tr ELSE setNeighbor(tr, n, pair[2], who[pair[2]])

\* The rounds of tellNeighbors, one for each pair of b.
telling(V, t, who, b) == [i \in 1 .. Len(b) |-> [ur \in V |-> Told(ur, t, who, b[i])]]

\* trees are what is left of tr after these rounds.
IsTold(trees, V, tr, t, who, b) ==
    /\ Folding(Len(b), V, tr, telling(V, t, who, b))
    /\ \E it : /\ Folded(it, Len(b), V, tr, telling(V, t, who, b))
               /\ trees = it[1 .. Len(b)]

\* tellNeighbors is the fold of its rounds.
LEMMA TellsFold ==
    ASSUME NEW V, NEW tr \in V, NEW t, NEW who, tr[t].box \in Square,
           \A ur \in V : \A pair \in Around(tr[t].box) :
              pair[2] \in edge(tr[t].box) => Told(ur, t, who, pair) \in V
    PROVE  IsTold(tellNeighbors(tr, t, who), V, tr, t, who, border(tr[t].box))
<1> DEFINE b == border(tr[t].box)
           n == Len(b)
           tells(ur, i) == LET m == getNeighbor(ur, t, b[i][1])
                           IN  IF m = NoTree THEN ur
                               ELSE setNeighbor(ur, m, b[i][2], who[b[i][2]])
           op == telling(V, t, who, b)
           it == CHOOSE iter : iter = [s \in SUBSET DOMAIN b |->
                     IF s = {} THEN tr
                     ELSE LET x == Max(s) IN tells(iter[s \ {x}], x)]
<1>1. tellNeighbors(tr, t, who) = it[DOMAIN b]
  BY DEF tellNeighbors, FoldLeft, MapThenFoldSet
<1>2. n \in Nat /\ DOMAIN b = 1 .. n /\ \A i \in 1 .. n : b[i] \in Around(tr[t].box)
  BY BorderPlaces
<1>3. \A i \in 1 .. n : b[i][2] \in edge(tr[t].box)
  BY <1>2 DEF edge, ToSet
<1>4. \A ur, i : tells(ur, i) = Told(ur, t, who, b[i])
  BY DEF Told
<1> HIDE DEF tells, b, n
<1>5. \A i \in 1 .. n : \A ur \in V : tells(ur, i) \in V
  BY <1>2, <1>3, <1>4
<1>6. op \in [1 .. n -> [V -> V]] /\ \A i \in 1 .. n : \A ur \in V : op[i][ur] = tells(ur, i)
  BY <1>4, <1>5 DEF telling, n
<1> HIDE DEF op
<1>7. PICK f : Folds(f, n, V, tr, op)
  <2>1. Folding(n, V, tr, op)
    BY <1>2, <1>6 DEF Folding
  <2> QED
    BY <2>1, FoldExists
<1>8. ASSUME NEW s \in SUBSET (1 .. n)
      PROVE  f[s] = IF s = {} THEN tr ELSE tells(f[s \ {Max(s)}], Max(s))
  <2>1. s # {} => Max(s) \in 1 .. n
    BY <1>2, MaxIsIn
  <2>2. f[s \ {Max(s)}] \in V
    BY <1>7 DEF Folds
  <2> QED
    BY <1>6, <1>7, <2>1, <2>2 DEF Folds
<1>9. f = [s \in SUBSET DOMAIN b |-> IF s = {} THEN tr
                                    ELSE LET x == Max(s) IN tells(f[s \ {x}], x)]
  BY <1>2, <1>7, <1>8 DEF Folds
<1>10. it = [s \in SUBSET DOMAIN b |-> IF s = {} THEN tr
                                      ELSE LET x == Max(s) IN tells(it[s \ {x}], x)]
  BY <1>9
<1> HIDE DEF it
<1>11. \A s \in SUBSET (1 .. n) :
          /\ s = {} => it[s] = tr
          /\ s # {} /\ it[s \ {Max(s)}] \in V
                => it[s] = op[Max(s)][it[s \ {Max(s)}]]
  <2> SUFFICES ASSUME NEW s \in SUBSET (1 .. n)
               PROVE  /\ s = {} => it[s] = tr
                      /\ s # {} /\ it[s \ {Max(s)}] \in V
                            => it[s] = op[Max(s)][it[s \ {Max(s)}]]
    OBVIOUS
  <2>1. it[s] = IF s = {} THEN tr ELSE tells(it[s \ {Max(s)}], Max(s))
    BY <1>2, <1>10
  <2>2. s # {} => Max(s) \in 1 .. n
    BY <1>2, MaxIsIn
  <2> QED
    BY <1>6, <2>1, <2>2
<1>12. Folding(n, V, tr, op) /\ Folded(it, n, V, tr, op)
  BY <1>2, <1>6, <1>11 DEF Folding, Folded
<1> QED
  BY <1>1, <1>2, <1>12 DEF IsTold, op, n, b

\* What every round of tellNeighbors keeps, it keeps.
LEMMA TellsStay ==
    ASSUME NEW V, NEW tr \in V, NEW t, NEW who, tr[t].box \in Square,
           \A ur \in V : \A pair \in Around(tr[t].box) :
              pair[2] \in edge(tr[t].box) => Told(ur, t, who, pair) \in V
    PROVE  tellNeighbors(tr, t, who) \in V
<1>1. IsTold(tellNeighbors(tr, t, who), V, tr, t, who, border(tr[t].box))
  BY TellsFold
<1> QED
  BY <1>1, FoldStays DEF IsTold

\* The same when round i takes G[i - 1] to G[i].
LEMMA TellsReach ==
    ASSUME NEW V, NEW tr \in V, NEW t, NEW who, tr[t].box \in Square,
           \A ur \in V : \A pair \in Around(tr[t].box) :
              pair[2] \in edge(tr[t].box) => Told(ur, t, who, pair) \in V,
           NEW b, b = border(tr[t].box), NEW G, tr \in G[0],
           \A i \in 0 .. Len(b) : G[i] \subseteq V,
           \A i \in 1 .. Len(b) : \A ur \in G[i - 1] : Told(ur, t, who, b[i]) \in G[i]
    PROVE  tellNeighbors(tr, t, who) \in G[Len(b)]
<1>1. IsTold(tellNeighbors(tr, t, who), V, tr, t, who, b)
  BY TellsFold
<1> DEFINE n == Len(b)
           op == telling(V, t, who, b)
<1>2. PICK it : Folded(it, n, V, tr, op) /\ tellNeighbors(tr, t, who) = it[1 .. n]
  BY <1>1 DEF IsTold
<1>3. Folding(n, V, tr, op)
  BY <1>1 DEF IsTold
<1>4. \A i \in 1 .. n : \A ur \in G[i - 1] : op[i][ur] \in G[i]
  <2> SUFFICES ASSUME NEW i \in 1 .. n, NEW ur \in G[i - 1] PROVE op[i][ur] \in G[i]
    OBVIOUS
  <2>1. n \in Nat
    BY <1>3 DEF Folding
  <2>2. i - 1 \in 0 .. n
    BY <2>1
  <2>3. ur \in V
    BY <2>2
  <2>4. op[i][ur] = Told(ur, t, who, b[i])
    BY <2>3 DEF telling
  <2> QED
    BY <2>4
<1> HIDE DEF op, n
<1>5. \A i \in 0 .. n : G[i] \subseteq V
  BY DEF n
<1>6. it[1 .. n] \in G[n]
  BY <1>2, <1>3, <1>4, <1>5, FoldReaches
<1> QED
  BY <1>2, <1>6 DEF n

\* tellNeighbors changes nothing but tables, and what it writes is a tree or
\* none.
LEMMA TellsTables ==
    ASSUME NEW D, NoTree \notin D, NEW tr \in [D -> Node(D)], NEW t \in D, NEW who,
           \A c \in edge(tr[t].box) : who[c] \in {NoTree} \union D
    PROVE  /\ tellNeighbors(tr, t, who) \in [D -> Node(D)]
           /\ SameButTables(tr, tellNeighbors(tr, t, who))
<1> DEFINE V == {ur \in [D -> Node(D)] : SameButTables(tr, ur)}
<1>1. tr \in V /\ tr[t].box \in Square
  <2>1. tr[t] \in Node(D)
    OBVIOUS
  <2> QED
    BY <2>1 DEF SameButTables, Node
<1>2. ASSUME NEW ur \in V, NEW pair \in Around(tr[t].box), pair[2] \in edge(tr[t].box)
      PROVE  Told(ur, t, who, pair) \in V
  <2> DEFINE m == getNeighbor(ur, t, pair[1])
             vr == setNeighbor(ur, m, pair[2], who[pair[2]])
  <2>1. ur \in [D -> Node(D)] /\ SameButTables(tr, ur)
    OBVIOUS
  <2>2. pair[1] \in Cells /\ pair[2] \in Cells /\ who[pair[2]] \in {NoTree} \union D
    BY <1>2 DEF Around, Pairs
  <2>3. m \in {NoTree} \union D
    BY <2>1, <2>2, GetTyped
  <2>4. Told(ur, t, who, pair) = IF m = NoTree THEN ur ELSE vr
    BY DEF Told
  <2> HIDE DEF m, V
  <2>5. m # NoTree => vr \in [D -> Node(D)] /\ SameButTables(ur, vr)
    BY <2>1, <2>2, <2>3, SetTyped
  <2> HIDE DEF vr
  <2>6. m # NoTree => SameButTables(tr, vr)
    BY <2>1, <2>5, SameTwice
  <2> QED
    BY <2>4, <2>5, <2>6 DEF V
<1> HIDE DEF V
<1>3. tellNeighbors(tr, t, who) \in V
  BY <1>1, <1>2, TellsStay
<1> QED
  BY <1>3 DEF V

-----------------------------------------------------------------------------
\* Giving a leaf its children.

\* What a child finds behind a cell is a tree or none.
LEMMA BehindTyped ==
    ASSUME NEW D, NEW tr \in [D -> Node(D)], NEW t \in D, tr[t].box.size % 2 = 0,
           NEW W, {NoTree} \union D \subseteq W, NEW kids \in [Child -> W],
           NEW cell \in Cells
    PROVE  behind(tr, t, kids, cell) \in W
<1> DEFINE box == tr[t].box
           k == CHOOSE j \in Child : inside(childBox(box, j), cell)
<1>1. box \in Square /\ getNeighbor(tr, t, cell) \in W
  BY GetTyped
<1>2. inside(box, cell) => k \in Child
  <2> HIDE DEF box
  <2>1. inside(box, cell) => \E j \in Child : inside(childBox(box, j), cell)
    BY <1>1, QuartersTile DEF box
  <2> QED
    BY <2>1
<1>3. behind(tr, t, kids, cell) = IF inside(box, cell) THEN kids[k]
                                  ELSE getNeighbor(tr, t, cell)
  BY DEF behind
<1> HIDE DEF box, k
<1> QED
  BY <1>1, <1>2, <1>3

\* The table that a new child gets.
childTable(tr, t, kids, k) ==
    FoldLeft(LAMBDA acc, pair :
                 [acc EXCEPT ![getNeighborIndex(childBox(tr[t].box, k), pair[1])]
                    = behind(tr, t, kids, pair[1])],
             [s \in Slot |-> NoTree], border(childBox(tr[t].box, k)))

\* The rounds in which the table of child k is filled.
filling(V, tr, t, kids, k) ==
    LET box == childBox(tr[t].box, k)
        b   == border(box)
    IN  [i \in 1 .. Len(b) |-> [a \in V |->
            [a EXCEPT ![getNeighborIndex(box, b[i][1])] = behind(tr, t, kids, b[i][1])]]]

\* The table is what is left of an empty one after these rounds.
IsFilled(table, W, tr, t, kids, k) ==
    LET n  == Len(border(childBox(tr[t].box, k)))
        V  == [Slot -> W]
        op == filling(V, tr, t, kids, k)
    IN  /\ Folding(n, V, [s \in Slot |-> NoTree], op)
        /\ \E it : /\ Folded(it, n, V, [s \in Slot |-> NoTree], op)
                   /\ table = it[1 .. n]

\* The table that a new child gets is the fold of these rounds.
LEMMA ChildTableFold ==
    ASSUME NEW D, NEW tr \in [D -> Node(D)], NEW t \in D, tr[t].box.size % 2 = 0,
           NEW W, NoTree \in W, NEW kids, NEW k \in Child,
           \A pair \in Around(childBox(tr[t].box, k)) : behind(tr, t, kids, pair[1]) \in W
    PROVE  IsFilled(childTable(tr, t, kids, k), W, tr, t, kids, k)
<1> DEFINE box == childBox(tr[t].box, k)
           b == border(box)
           n == Len(b)
           V == [Slot -> W]
           base == [s \in Slot |-> NoTree]
           puts(a, i) == [a EXCEPT ![getNeighborIndex(box, b[i][1])]
                                     = behind(tr, t, kids, b[i][1])]
           op == filling(V, tr, t, kids, k)
           it == CHOOSE iter : iter = [s \in SUBSET DOMAIN b |->
                     IF s = {} THEN base
                     ELSE LET x == Max(s) IN puts(iter[s \ {x}], x)]
<1>1. childTable(tr, t, kids, k) = it[DOMAIN b]
  BY DEF childTable, FoldLeft, MapThenFoldSet
<1>2. box \in Square
  <2>1. tr[t] \in Node(D)
    OBVIOUS
  <2>2. tr[t].box \in Square
    BY <2>1 DEF Node
  <2> QED
    BY <2>2, QuartersTile
<1>3. n \in Nat /\ DOMAIN b = 1 .. n /\ \A i \in 1 .. n : b[i] \in Around(box)
  BY <1>2, BorderPlaces
<1>3a. \A pair \in Around(box) : behind(tr, t, kids, pair[1]) \in W
  OBVIOUS
<1> HIDE DEF box
<1> HIDE DEF b
<1>4. \A i \in 1 .. n : /\ getNeighborIndex(box, b[i][1]) \in Slot
                        /\ behind(tr, t, kids, b[i][1]) \in W
  <2> SUFFICES ASSUME NEW i \in 1 .. n
               PROVE  /\ getNeighborIndex(box, b[i][1]) \in Slot
                      /\ behind(tr, t, kids, b[i][1]) \in W
    OBVIOUS
  <2>1. b[i] \in Around(box) /\ b[i][1] \in Cells
    BY <1>3 DEF Around, Pairs
  <2> QED
    BY <1>2, <1>3a, <2>1, IndexIsSlot
<1> HIDE DEF n
<1>5. base \in V
  OBVIOUS
<1>6. \A i \in 1 .. n : \A a \in V : puts(a, i) \in V
  BY <1>4
<1> HIDE DEF V, puts, base
<1>7. op \in [1 .. n -> [V -> V]] /\ \A i \in 1 .. n : \A a \in V : op[i][a] = puts(a, i)
  BY <1>6 DEF filling, puts, n, b, box
<1> HIDE DEF op
<1>8. Folding(n, V, base, op)
  BY <1>3, <1>5, <1>7 DEF Folding
<1>9. PICK f : Folds(f, n, V, base, op)
  BY <1>8, FoldExists
<1>10. ASSUME NEW s \in SUBSET (1 .. n)
       PROVE  f[s] = IF s = {} THEN base ELSE puts(f[s \ {Max(s)}], Max(s))
  <2>1. s # {} => Max(s) \in 1 .. n
    BY <1>3, MaxIsIn
  <2>2. f[s \ {Max(s)}] \in V
    BY <1>9 DEF Folds
  <2> QED
    BY <1>7, <1>9, <2>1, <2>2 DEF Folds
<1>11. f = [s \in SUBSET DOMAIN b |-> IF s = {} THEN base
                                     ELSE LET x == Max(s) IN puts(f[s \ {x}], x)]
  BY <1>3, <1>9, <1>10 DEF Folds
<1>12. it = [s \in SUBSET DOMAIN b |-> IF s = {} THEN base
                                      ELSE LET x == Max(s) IN puts(it[s \ {x}], x)]
  BY <1>11
<1> HIDE DEF it
<1>13. Folded(it, n, V, base, op)
  <2> SUFFICES ASSUME NEW s \in SUBSET (1 .. n)
               PROVE  /\ s = {} => it[s] = base
                      /\ s # {} /\ it[s \ {Max(s)}] \in V
                            => it[s] = op[Max(s)][it[s \ {Max(s)}]]
    BY DEF Folded
  <2>1. it[s] = IF s = {} THEN base ELSE puts(it[s \ {Max(s)}], Max(s))
    BY <1>3, <1>12
  <2>2. s # {} => Max(s) \in 1 .. n
    BY <1>3, MaxIsIn
  <2> QED
    BY <1>7, <2>1, <2>2
<1> QED
  BY <1>1, <1>3, <1>8, <1>13 DEF IsFilled, V, base, op, n, b, box

\* The table that a new child gets names none, or what is behind its border.
LEMMA ChildTable ==
    ASSUME NEW D, NEW tr \in [D -> Node(D)], NEW t \in D, tr[t].box.size % 2 = 0,
           NEW W, NoTree \in W, NEW kids, NEW k \in Child,
           \A pair \in Around(childBox(tr[t].box, k)) : behind(tr, t, kids, pair[1]) \in W
    PROVE  childTable(tr, t, kids, k) \in [Slot -> W]
<1>1. IsFilled(childTable(tr, t, kids, k), W, tr, t, kids, k)
  BY ChildTableFold
<1> QED
  BY <1>1, FoldStays DEF IsFilled

NoChildren == [k \in Child |-> NoTree]

\* ur is tr after leaf t has got the children kids, but for the tables.
Grown(tr, t, kids, ur) ==
    LET D == DOMAIN tr
        E == D \union {kids[k] : k \in Child}
    IN  /\ ur \in [E -> Node(E)]
        /\ \A k \in Child :
              /\ ur[kids[k]].box = childBox(tr[t].box, k)
              /\ ur[kids[k]].parent = t
              /\ ur[kids[k]].leaf_node = TRUE
              /\ ur[kids[k]].children = NoChildren
        /\ ur[t].box = tr[t].box /\ ur[t].parent = tr[t].parent
        /\ ur[t].leaf_node = FALSE /\ ur[t].children = kids
        /\ \A u \in D \ {t} : (\A k \in Child : kids[k] # u) =>
              /\ ur[u].box = tr[u].box /\ ur[u].parent = tr[u].parent
              /\ ur[u].leaf_node = tr[u].leaf_node
              /\ ur[u].children = tr[u].children

\* A place stays typed when there are more tokens.
LEMMA NodeGrows ==
    ASSUME NEW D, NEW E, D \subseteq E, NEW r \in Node(D)
    PROVE  r \in Node(E)
BY DEF Node

\* withChildren gives the leaf its children.
LEMMA WithChildrenGrown ==
    ASSUME NEW D, NoTree \notin D, NEW tr \in [D -> Node(D)], NEW t \in D,
           tr[t].box.size % 2 = 0,
           NEW W, NEW kids \in [Child -> W], NoTree \notin W, t \notin W,
           \A j, k \in Child : kids[j] = kids[k] => j = k
    PROVE  Grown(tr, t, kids, withChildren(tr, t, kids))
<1> DEFINE E == D \union {kids[k] : k \in Child}
           box == tr[t].box
           table(k) == childTable(tr, t, kids, k)
           made(k) == [newTree(childBox(box, k), t) EXCEPT !.neighbors = table(k)]
           parted == [tr[t] EXCEPT !.leaf_node = FALSE, !.children = kids]
           ur == withChildren(tr, t, kids)
<1>1. ASSUME NEW k \in Child
      PROVE  table(k) \in [Slot -> {NoTree} \union E]
  <2>1. {NoTree} \union D \subseteq {NoTree} \union E /\ kids \in [Child -> {NoTree} \union E]
    OBVIOUS
  <2> HIDE DEF E
  <2> DEFINE V == {NoTree} \union E
  <2>2. NoTree \in V /\ \A pair \in Around(childBox(tr[t].box, k)) : behind(tr, t, kids, pair[1]) \in V
    BY <2>1, BehindTyped DEF Around, Pairs
  <2> HIDE DEF V
  <2>3. table(k) \in [Slot -> V]
    BY <2>2, ChildTable
  <2> QED
    BY <2>3 DEF V
<1>2. tr[t] \in Node(D) /\ box \in Square
  <2>1. tr[t] \in Node(D)
    OBVIOUS
  <2> QED
    BY <2>1 DEF Node
<1>3. ur = [u \in DOMAIN tr \union {kids[k] : k \in Child} |->
            IF \E k \in Child : kids[k] = u
            THEN LET k == CHOOSE j \in Child : kids[j] = u
                 IN  made(k)
            ELSE IF u = t THEN parted ELSE tr[u]]
  BY DEF withChildren, childTable
<1> HIDE DEF table
<1>4. DOMAIN ur = E /\ ur = [u \in E |-> ur[u]]
  BY <1>3
<1>5. ASSUME NEW k \in Child
      PROVE  ur[kids[k]] = made(k)
  <2>1. kids[k] \in E /\ \E j \in Child : kids[j] = kids[k]
    OBVIOUS
  <2>2. (CHOOSE j \in Child : kids[j] = kids[k]) = k
    OBVIOUS
  <2> HIDE DEF made, parted
  <2> QED
    BY <1>3, <2>1, <2>2
<1>6. ASSUME NEW k \in Child
      PROVE  /\ made(k) \in Node(E) /\ made(k).box = childBox(box, k) /\ made(k).parent = t
             /\ made(k).leaf_node = TRUE /\ made(k).children = NoChildren
  <2>1. childBox(box, k) \in Square
    BY <1>2, QuartersTile
  <2>2. NoChildren \in [Child -> {NoTree} \union E]
    BY DEF NoChildren
  <2>3. t \in {NoTree} \union E
    OBVIOUS
  <2>4. made(k) = [box |-> childBox(box, k), parent |-> t, leaf_node |-> TRUE,
                   children |-> NoChildren, neighbors |-> table(k)]
    <3> DEFINE quarter == childBox(box, k)
               r == newTree(quarter, t)
    <3>1. r = [box |-> quarter, parent |-> t, leaf_node |-> TRUE,
               children |-> NoChildren, neighbors |-> [s \in Slot |-> NoTree]]
      BY DEF newTree, NoChildren
    <3>2. made(k) = [r EXCEPT !.neighbors = table(k)]
      OBVIOUS
    <3> HIDE DEF quarter, r, made
    <3> QED
      BY <3>1, <3>2 DEF quarter
  <2> HIDE DEF E, made, box
  <2> QED
    BY <1>1, <2>1, <2>2, <2>3, <2>4 DEF Node
<1> HIDE DEF made
<1>7. ur[t] = parted
  <2>1. t \in E /\ \A k \in Child : kids[k] # t
    OBVIOUS
  <2> HIDE DEF parted
  <2> QED
    BY <1>3, <2>1
<1>8. /\ parted \in Node(E) /\ parted.box = box /\ parted.parent = tr[t].parent
      /\ parted.leaf_node = FALSE /\ parted.children = kids
  <2>1. tr[t] \in Node(E)
    BY <1>2, NodeGrows
  <2>2. kids \in [Child -> {NoTree} \union E]
    OBVIOUS
  <2> HIDE DEF E
  <2> QED
    BY <2>1, <2>2 DEF Node
<1> HIDE DEF parted
<1>9. \A u \in D \ {t} : (\A k \in Child : kids[k] # u) => ur[u] = tr[u]
  BY <1>3
<1>10. \A u \in E : ur[u] \in Node(E)
  <2> SUFFICES ASSUME NEW u \in E PROVE ur[u] \in Node(E)
    OBVIOUS
  <2>1. CASE \E k \in Child : kids[k] = u
    <3>1. PICK k \in Child : kids[k] = u
      BY <2>1
    <3> QED
      BY <1>5, <1>6, <3>1
  <2>2. CASE u = t
    BY <1>7, <1>8, <2>2
  <2>3. CASE u # t /\ ~\E k \in Child : kids[k] = u
    <3>1. u \in D /\ tr[u] \in Node(D)
      BY <2>3
    <3>2. tr[u] \in Node(E)
      BY <3>1, NodeGrows
    <3> QED
      BY <1>9, <2>3, <3>1, <3>2
  <2> QED
    BY <2>1, <2>2, <2>3
<1> HIDE DEF ur
<1>11. ur \in [E -> Node(E)]
  BY <1>4, <1>10
<1> QED
  <2>1. DOMAIN tr = D
    OBVIOUS
  <2> HIDE DEF E
  <2>2. /\ ur \in [E -> Node(E)]
        /\ \A k \in Child :
              /\ ur[kids[k]].box = childBox(tr[t].box, k)
              /\ ur[kids[k]].parent = t
              /\ ur[kids[k]].leaf_node = TRUE
              /\ ur[kids[k]].children = NoChildren
    BY <1>5, <1>6, <1>11
  <2>3. /\ ur[t].box = tr[t].box /\ ur[t].parent = tr[t].parent
        /\ ur[t].leaf_node = FALSE /\ ur[t].children = kids
    BY <1>7, <1>8
  <2> HIDE DEF box
  <2> QED
    BY <1>9, <2>1, <2>2, <2>3 DEF Grown, ur, E

\* Writing tables after it changes nothing of that.
LEMMA GrownSame ==
    ASSUME NEW tr, NEW t, NEW kids, NEW ur, NEW vr,
           t \in DOMAIN tr, Grown(tr, t, kids, ur), SameButTables(ur, vr),
           vr \in [DOMAIN ur -> Node(DOMAIN ur)]
    PROVE  Grown(tr, t, kids, vr)
<1> DEFINE E == DOMAIN tr \union {kids[k] : k \in Child}
<1>1. DOMAIN ur = E /\ vr \in [E -> Node(E)]
  BY DEF Grown
<1> HIDE DEF E
<1>2. \A u \in E : /\ vr[u].box = ur[u].box /\ vr[u].parent = ur[u].parent
                   /\ vr[u].leaf_node = ur[u].leaf_node
                   /\ vr[u].children = ur[u].children
  BY <1>1 DEF SameButTables
<1>3. t \in E /\ (\A k \in Child : kids[k] \in E) /\ \A u \in DOMAIN tr : u \in E
  BY DEF E
<1>4. \A k \in Child : /\ vr[kids[k]].box = childBox(tr[t].box, k)
                       /\ vr[kids[k]].parent = t
                       /\ vr[kids[k]].leaf_node = TRUE
                       /\ vr[kids[k]].children = NoChildren
  BY <1>2, <1>3 DEF Grown
<1>5. /\ vr[t].box = tr[t].box /\ vr[t].parent = tr[t].parent
      /\ vr[t].leaf_node = FALSE /\ vr[t].children = kids
  BY <1>2, <1>3 DEF Grown
<1>6. \A u \in DOMAIN tr \ {t} : (\A k \in Child : kids[k] # u) =>
              /\ vr[u].box = tr[u].box /\ vr[u].parent = tr[u].parent
              /\ vr[u].leaf_node = tr[u].leaf_node
              /\ vr[u].children = tr[u].children
  BY <1>2, <1>3 DEF Grown
<1> QED
  BY <1>1, <1>4, <1>5, <1>6 DEF Grown, E

\* Clearing a table writes a table.
LEMMA TableCleared ==
    ASSUME NEW D, NEW tr \in [D -> Node(D)], NEW t \in D,
           NEW table \in [Slot -> {NoTree} \union D]
    PROVE  /\ [tr EXCEPT ![t].neighbors = table] \in [D -> Node(D)]
           /\ SameButTables(tr, [tr EXCEPT ![t].neighbors = table])
<1> DEFINE ur == [tr EXCEPT ![t].neighbors = table]
<1>1. tr[t] \in Node(D)
  OBVIOUS
<1>2. ur = [tr EXCEPT ![t] = [tr[t] EXCEPT !.neighbors = table]]
  OBVIOUS
<1> HIDE DEF ur
<1>3. ur[t] = [tr[t] EXCEPT !.neighbors = table]
  BY <1>2
<1>4. DOMAIN ur = D /\ ur = [u \in D |-> ur[u]] /\ \A u \in D : u # t => ur[u] = tr[u]
  BY <1>2
<1>5. /\ ur[t] \in Node(D) /\ ur[t].box = tr[t].box /\ ur[t].parent = tr[t].parent
      /\ ur[t].leaf_node = tr[t].leaf_node /\ ur[t].children = tr[t].children
  BY <1>1, <1>3 DEF Node
<1>6. \A u \in D : ur[u] \in Node(D)
  BY <1>4, <1>5
<1>7. SameButTables(tr, ur)
  BY <1>4, <1>5 DEF SameButTables
<1> QED
  BY <1>4, <1>6, <1>7 DEF ur

\* A split gives a leaf four children, and changes nothing else but tables.
LEMMA SplitGrows ==
    ASSUME NEW D, NoTree \notin D, NEW tr \in [D -> Node(D)], NEW t \in D,
           tr[t].box.size % 2 = 0,
           NEW W, NEW kids \in [Child -> W], NoTree \notin W, t \notin W,
           \A j, k \in Child : kids[j] = kids[k] => j = k
    PROVE  Grown(tr, t, kids, split(tr, t, kids))
<1> DEFINE E == D \union {kids[k] : k \in Child}
           made == withChildren(tr, t, kids)
           who == [cell \in edge(tr[t].box) |-> behind(tr, t, kids, cell)]
           told == tellNeighbors(made, t, who)
           empty == [s \in Slot |-> NoTree]
           ur == [told EXCEPT ![t].neighbors = empty]
<1>1. split(tr, t, kids) = ur
  BY DEF split
<1>2. Grown(tr, t, kids, made)
  BY WithChildrenGrown
<1> HIDE DEF made
<1>3. made \in [E -> Node(E)] /\ made[t].box = tr[t].box /\ t \in E /\ NoTree \notin E
  BY <1>2 DEF Grown
<1>4. tr[t].box \in Square
  <2>1. tr[t] \in Node(D)
    OBVIOUS
  <2> QED
    BY <2>1 DEF Node
<1>5. \A c \in edge(tr[t].box) : c \in Cells
  BY <1>4, EdgeCells
<1>6. \A c \in edge(tr[t].box) : behind(tr, t, kids, c) \in {NoTree} \union E
  <2>1. {NoTree} \union D \subseteq {NoTree} \union E /\ kids \in [Child -> {NoTree} \union E]
    OBVIOUS
  <2> HIDE DEF E
  <2> QED
    BY <1>5, <2>1, BehindTyped
<1>7. \A c \in edge(made[t].box) : who[c] \in {NoTree} \union E
  BY <1>3, <1>6
<1> HIDE DEF E, who, told
<1>8. told \in [E -> Node(E)] /\ SameButTables(made, told)
  BY <1>3, <1>7, TellsTables DEF told
<1>9. empty \in [Slot -> {NoTree} \union E]
  OBVIOUS
<1> HIDE DEF empty
<1>10. ur \in [E -> Node(E)] /\ SameButTables(told, ur)
  BY <1>3, <1>8, <1>9, TableCleared
<1> HIDE DEF ur
<1>11. SameButTables(made, ur)
  BY <1>8, <1>10, SameTwice
<1>12. DOMAIN made = E
  BY <1>3
<1> QED
  BY <1>1, <1>2, <1>10, <1>11, <1>12, GrownSame

\* A leaf has no children, another tree has four.
LeavesChildless(tr) ==
    \A u \in DOMAIN tr : IF tr[u].leaf_node THEN tr[u].children = NoChildren
                         ELSE \A k \in Child : tr[u].children[k] \in DOMAIN tr

\* Every place has a height, also a stale one: each child's is less.
Heights(tr, m, b) ==
    /\ b \in Nat /\ m \in [DOMAIN tr -> Nat]
    /\ \A u \in DOMAIN tr : m[u] < b
    /\ \A u \in DOMAIN tr : ~tr[u].leaf_node =>
          \A k \in Child : m[tr[u].children[k]] < m[u]

\* The walk of obtainNeighbor ends at a tree.
LEMMA WalkArrives ==
    ASSUME NEW D, NEW tr \in [D -> Node(D)], NEW t \in D, NEW cell,
           LeavesChildless(tr), NEW m, NEW b, Heights(tr, m, b)
    PROVE  leafTowards(tr, t, cell) \in D
<1> DEFINE right(u) == cell[1] - tr[u].box.x >= tr[u].box.size \div 2
           upper(u) == cell[2] - tr[u].box.y >= tr[u].box.size \div 2
           towards(u) == CASE ~right(u) /\ ~upper(u) -> 1
                           [] ~right(u) /\ upper(u)  -> 2
                           [] right(u)  /\ upper(u)  -> 3
                           [] right(u)  /\ ~upper(u) -> 4
           next == [u \in D |-> tr[u].children[towards(u)]]
           leaf == CHOOSE f : f = [u \in DOMAIN tr |->
                     IF tr[u].leaf_node THEN u ELSE f[tr[u].children[towards(u)]]]
           step == [u \in D |-> [f \in [D -> D] |->
                      IF tr[u].leaf_node THEN u ELSE f[next[u]]]]
<1>1. leafTowards(tr, t, cell) = leaf[t]
  BY DEF leafTowards
<1>2. \A u : towards(u) \in Child
  <2> SUFFICES ASSUME NEW u PROVE towards(u) \in Child
    OBVIOUS
  <2> HIDE DEF right, upper
  <2>1. 1 \in Child /\ 2 \in Child /\ 3 \in Child /\ 4 \in Child
    BY DEF Child
  <2> QED
    BY <2>1
<1> HIDE DEF towards
<1>3. DOMAIN tr = D
  OBVIOUS
<1>4. \A u \in D : next[u] = tr[u].children[towards(u)]
  OBVIOUS
<1> HIDE DEF next
<1>5. \A u \in D : ~tr[u].leaf_node => next[u] \in D /\ m[next[u]] < m[u]
  BY <1>2, <1>3, <1>4 DEF LeavesChildless, Heights
<1>6. \A u \in D : \A f \in [D -> D] :
         step[u][f] = IF tr[u].leaf_node THEN u ELSE f[next[u]]
  OBVIOUS
<1>7. step \in [D -> [[D -> D] -> D]]
  BY <1>5
<1> HIDE DEF step
<1>8. \A u \in D : \A f, g \in [D -> D] :
         (\A v \in D : m[v] < m[u] => f[v] = g[v]) => step[u][f] = step[u][g]
  BY <1>5, <1>6
<1>9. [D -> D] # {}
  <2>1. [u \in D |-> t] \in [D -> D]
    OBVIOUS
  <2> QED
    BY <2>1
<1>10. Recursive(D, D, m, b, step)
  BY <1>3, <1>7, <1>8, <1>9 DEF Recursive, Heights
<1>11. PICK f \in [D -> D] : \A u \in D : f[u] = step[u][f]
  BY <1>10, Recursion
<1>12. f = [u \in DOMAIN tr |->
              IF tr[u].leaf_node THEN u ELSE f[tr[u].children[towards(u)]]]
  BY <1>3, <1>4, <1>6, <1>11
<1>13. leaf = [u \in DOMAIN tr |->
                 IF tr[u].leaf_node THEN u ELSE leaf[tr[u].children[towards(u)]]]
  BY <1>12
<1> HIDE DEF leaf
<1>14. \A u \in D : leaf[u] = IF tr[u].leaf_node THEN u ELSE leaf[next[u]]
  BY <1>3, <1>4, <1>13
<1> DEFINE Bad == {u \in D : leaf[u] \notin D}
<1>15. Bad = {}
  <2> SUFFICES ASSUME Bad # {} PROVE FALSE
    OBVIOUS
  <2>1. Bad \subseteq D /\ m \in [D -> Nat]
    BY <1>3 DEF Heights
  <2>2. PICK u \in Bad : \A v \in Bad : m[u] <= m[v]
    <3> HIDE DEF Bad
    <3> QED
      BY <2>1, LeastElement
  <2>3. u \in D /\ leaf[u] \notin D
    OBVIOUS
  <2>4. ~tr[u].leaf_node /\ leaf[next[u]] \notin D
    BY <1>14, <2>3
  <2>5. next[u] \in Bad
    BY <1>5, <2>3, <2>4
  <2> QED
    BY <1>5, <2>1, <2>2, <2>3, <2>4, <2>5
<1> QED
  BY <1>1, <1>15

-----------------------------------------------------------------------------
\* Making a tree a leaf again.

\* Tables do not matter to children and heights.
LEMMA SameShape ==
    ASSUME NEW tr, NEW ur, SameButTables(tr, ur)
    PROVE  /\ LeavesChildless(tr) => LeavesChildless(ur)
           /\ \A m, b : Heights(tr, m, b) => Heights(ur, m, b)
<1>1. DOMAIN ur = DOMAIN tr
  BY DEF SameButTables
<1>2. \A u \in DOMAIN tr : ur[u].leaf_node = tr[u].leaf_node /\ ur[u].children = tr[u].children
  BY DEF SameButTables
<1>3. LeavesChildless(tr) => LeavesChildless(ur)
  BY <1>1, <1>2 DEF LeavesChildless
<1>4. ASSUME NEW m, NEW b, Heights(tr, m, b)
      PROVE  Heights(ur, m, b)
  BY <1>1, <1>2, <1>4 DEF Heights
<1> QED
  BY <1>3, <1>4

\* The table is filled from the walks, and nothing else changes.
LEMMA TableFilled ==
    ASSUME NEW D, NoTree \notin D, NEW tr \in [D -> Node(D)], NEW t \in D,
           LeavesChildless(tr), NEW m, NEW h, Heights(tr, m, h)
    PROVE  /\ withTable(tr, t) \in [D -> Node(D)]
           /\ SameButTables(tr, withTable(tr, t))
<1> DEFINE c == corners(tr[t].box)
           b == <<c[1], c[4], c[1], c[4]>> \o sides(tr[t].box)
           n == Len(b)
           V == {ur \in [D -> Node(D)] : SameButTables(tr, ur)}
           fills(ur, i) == setNeighbor(ur, t, b[i][1], obtainNeighbor(ur, t, b[i][1]))
           op == [i \in 1 .. n |-> [ur \in V |-> fills(ur, i)]]
           it == CHOOSE iter : iter = [s \in SUBSET DOMAIN b |->
                     IF s = {} THEN tr
                     ELSE LET x == Max(s) IN fills(iter[s \ {x}], x)]
<1>1. withTable(tr, t) = it[DOMAIN b]
  BY DEF withTable, FoldLeft, MapThenFoldSet
<1>2. tr[t].box \in Square
  <2>1. tr[t] \in Node(D)
    OBVIOUS
  <2> QED
    BY <2>1 DEF Node
<1>3. b \in Seq(Pairs) /\ n \in Nat /\ DOMAIN b = 1 .. n /\ \A i \in 1 .. n : b[i] \in Pairs
  <2>1. c \in Seq(Pairs) /\ sides(tr[t].box) \in Seq(Pairs)
    BY <1>2, BorderTyped
  <2>2. Len(c) = 4
    BY DEF corners
  <2> HIDE DEF c
  <2>3. c[1] \in Pairs /\ c[4] \in Pairs
    <3>1. 1 \in 1 .. Len(c) /\ 4 \in 1 .. Len(c)
      BY <2>2
    <3> QED
      BY <2>1, <3>1, ElementOfSeq
  <2>4. <<c[1], c[4], c[1], c[4]>> \in Seq(Pairs)
    BY <2>3, FourAreSeq
  <2>5. b \in Seq(Pairs)
    BY <2>1, <2>4, ConcatProperties
  <2> HIDE DEF b
  <2> QED
    BY <2>5, LenProperties, ElementOfSeq
<1> HIDE DEF b
<1>4. \A i \in 1 .. n : b[i][1] \in Cells
  BY <1>3 DEF Pairs
<1>5. tr \in V
  BY DEF SameButTables
<1>6. ASSUME NEW i \in 1 .. n, NEW ur \in V
      PROVE  fills(ur, i) \in V
  <2> DEFINE cell == b[i][1]
             leaf == leafTowards(ur, t, cell)
             found == getNeighbor(ur, leaf, cell)
             vr == setNeighbor(ur, t, cell, found)
  <2>1. ur \in [D -> Node(D)] /\ SameButTables(tr, ur)
    OBVIOUS
  <2>2. cell \in Cells
    BY <1>4
  <2>3. fills(ur, i) = vr
    BY DEF obtainNeighbor
  <2>4. \A wr : wr \in [D -> Node(D)] /\ SameButTables(tr, wr) => wr \in V
    OBVIOUS
  <2> HIDE DEF V, cell
  <2>5. LeavesChildless(ur) /\ Heights(ur, m, h)
    BY <2>1, SameShape
  <2>6. leaf \in D
    BY <2>1, <2>5, WalkArrives
  <2> HIDE DEF leaf
  <2>7. found \in {NoTree} \union D
    BY <2>1, <2>2, <2>6, GetTyped
  <2> HIDE DEF found
  <2>8. vr \in [D -> Node(D)] /\ SameButTables(ur, vr)
    BY <2>1, <2>2, <2>7, SetTyped
  <2> HIDE DEF vr, fills
  <2>9. SameButTables(tr, vr)
    BY <2>1, <2>8, SameTwice
  <2> QED
    BY <2>3, <2>4, <2>8, <2>9
<1> HIDE DEF V, fills
<1>7. op \in [1 .. n -> [V -> V]] /\ \A i \in 1 .. n : \A ur \in V : op[i][ur] = fills(ur, i)
  BY <1>6
<1> HIDE DEF op, n
<1>8. Folding(n, V, tr, op)
  BY <1>3, <1>5, <1>7 DEF Folding
<1>9. PICK f : Folds(f, n, V, tr, op)
  BY <1>8, FoldExists
<1>10. ASSUME NEW s \in SUBSET (1 .. n)
       PROVE  f[s] = IF s = {} THEN tr ELSE fills(f[s \ {Max(s)}], Max(s))
  <2>1. s # {} => Max(s) \in 1 .. n
    BY <1>3, MaxIsIn
  <2>2. f[s \ {Max(s)}] \in V
    BY <1>9 DEF Folds
  <2> QED
    BY <1>7, <1>9, <2>1, <2>2 DEF Folds
<1>11. f = [s \in SUBSET DOMAIN b |-> IF s = {} THEN tr
                                     ELSE LET x == Max(s) IN fills(f[s \ {x}], x)]
  BY <1>3, <1>9, <1>10 DEF Folds
<1>12. it = [s \in SUBSET DOMAIN b |-> IF s = {} THEN tr
                                      ELSE LET x == Max(s) IN fills(it[s \ {x}], x)]
  BY <1>11
<1> HIDE DEF it
<1>13. Folded(it, n, V, tr, op)
  <2> SUFFICES ASSUME NEW s \in SUBSET (1 .. n)
               PROVE  /\ s = {} => it[s] = tr
                      /\ s # {} /\ it[s \ {Max(s)}] \in V
                            => it[s] = op[Max(s)][it[s \ {Max(s)}]]
    BY DEF Folded
  <2>1. it[s] = IF s = {} THEN tr ELSE fills(it[s \ {Max(s)}], Max(s))
    BY <1>3, <1>12
  <2>2. s # {} => Max(s) \in 1 .. n
    BY <1>3, MaxIsIn
  <2> QED
    BY <1>7, <2>1, <2>2
<1>14. it[1 .. n] \in V
  BY <1>8, <1>13, FoldStays
<1> QED
  BY <1>1, <1>3, <1>14 DEF V

\* ur is tr with t a leaf, but for the tables.
Merged(tr, t, ur) ==
    /\ ur \in [DOMAIN tr -> Node(DOMAIN tr)]
    /\ ur[t].leaf_node = TRUE /\ ur[t].children = NoChildren
    /\ \A u \in DOMAIN tr : /\ ur[u].box = tr[u].box
                            /\ ur[u].parent = tr[u].parent
                            /\ u # t => /\ ur[u].leaf_node = tr[u].leaf_node
                                        /\ ur[u].children = tr[u].children

\* A merge makes t a leaf, and changes nothing else but tables.
LEMMA MergeShape ==
    ASSUME NEW D, NoTree \notin D, NEW tr \in [D -> Node(D)], NEW t \in D,
           LeavesChildless(tr), NEW m, NEW h, Heights(tr, m, h)
    PROVE  Merged(tr, t, merge(tr, t))
<1> DEFINE filled == withTable(tr, t)
           who == [cell \in edge(tr[t].box) |-> t]
           told == tellNeighbors(filled, t, who)
           ur == merge(tr, t)
<1>1. filled \in [D -> Node(D)] /\ SameButTables(tr, filled)
  BY TableFilled
<1> HIDE DEF filled
<1>2. filled[t].box = tr[t].box
  BY <1>1 DEF SameButTables
<1>3. \A c \in edge(filled[t].box) : who[c] \in {NoTree} \union D
  BY <1>2
<1>4. ur = [told EXCEPT ![t].children = NoChildren, ![t].leaf_node = TRUE]
  BY DEF merge, NoChildren, filled
<1> HIDE DEF who
<1>5. told \in [D -> Node(D)] /\ SameButTables(filled, told)
  BY <1>1, <1>3, TellsTables
<1> HIDE DEF told, ur
<1>6. SameButTables(tr, told)
  BY <1>1, <1>5, SameTwice
<1>7. told[t] \in Node(D)
  BY <1>5
<1>8. ur = [told EXCEPT ![t] = [told[t] EXCEPT !.children = NoChildren, !.leaf_node = TRUE]]
  BY <1>4, <1>5
<1>9. ur[t] = [told[t] EXCEPT !.children = NoChildren, !.leaf_node = TRUE]
  BY <1>5, <1>8
<1>10. NoChildren \in [Child -> {NoTree} \union D]
  BY DEF NoChildren
<1>11. /\ ur[t] \in Node(D) /\ ur[t].leaf_node = TRUE /\ ur[t].children = NoChildren
       /\ ur[t].box = told[t].box /\ ur[t].parent = told[t].parent
  <2> HIDE DEF NoChildren
  <2> QED
    BY <1>7, <1>9, <1>10 DEF Node
<1>12. DOMAIN ur = D /\ ur = [u \in D |-> ur[u]] /\ \A u \in D : u # t => ur[u] = told[u]
  BY <1>5, <1>8
<1>13. \A u \in D : ur[u] \in Node(D)
  BY <1>5, <1>11, <1>12
<1>14. ur \in [D -> Node(D)] /\ DOMAIN tr = D
  BY <1>12, <1>13
<1>15. \A u \in D : /\ told[u].box = tr[u].box /\ told[u].parent = tr[u].parent
                    /\ told[u].leaf_node = tr[u].leaf_node
                    /\ told[u].children = tr[u].children
  BY <1>6, <1>14 DEF SameButTables
<1> QED
  BY <1>11, <1>12, <1>14, <1>15 DEF Merged, ur

-----------------------------------------------------------------------------
\* What is below a tree.

\* The places of a registry, the stale ones included: each has a tree, and the
\* children lists have no cycle.
Sound(tr) ==
    /\ tr \in [DOMAIN tr -> Node(DOMAIN tr)]
    /\ NoTree \notin DOMAIN tr
    /\ LeavesChildless(tr)
    /\ \E m, b : Heights(tr, m, b)

\* u is one of the children of its parent.
Attached(tr, u) ==
    /\ tr[u].parent # NoTree
    /\ u \in Range(tr[tr[u].parent].children)

\* The trees that a walk down from w meets: the recursion of InTree, from w.
Reach(tr, w) ==
    CHOOSE above : above = [u \in DOMAIN tr |->
        \/ u = w
        \/ /\ tr[u].parent # NoTree
           /\ u \in Range(tr[tr[u].parent].children)
           /\ above[tr[u].parent]]

Below(tr, w, u) == Reach(tr, w)[u]

\* The parent of an attached tree is an inner tree and higher.
LEMMA AttachedUp ==
    ASSUME NEW tr, Sound(tr), NEW m, NEW b, Heights(tr, m, b),
           NEW u \in DOMAIN tr, Attached(tr, u)
    PROVE  /\ tr[u].parent \in DOMAIN tr /\ ~tr[tr[u].parent].leaf_node
           /\ m[u] < m[tr[u].parent]
           /\ \E k \in Child : tr[tr[u].parent].children[k] = u
<1> DEFINE D == DOMAIN tr
           p == tr[u].parent
<1>1. tr[u] \in Node(D) /\ NoTree \notin D /\ tr \in [D -> Node(D)]
  BY DEF Sound
<1>2. p \in D
  BY <1>1 DEF Node, Attached
<1>3. tr[p] \in Node(D)
  BY <1>1, <1>2
<1>4. DOMAIN tr[p].children = Child
  BY <1>3 DEF Node
<1>5. PICK k \in Child : tr[p].children[k] = u
  BY <1>4 DEF Attached, Range
<1>6. ~tr[p].leaf_node
  <2> SUFFICES ASSUME tr[p].leaf_node PROVE FALSE
    OBVIOUS
  <2>1. tr[p].children = NoChildren
    BY <1>2 DEF Sound, LeavesChildless
  <2>2. u = NoTree
    BY <1>5, <2>1 DEF NoChildren
  <2> QED
    BY <1>1, <2>2
<1>7. m[u] < m[p]
  <2>1. \A k1 \in Child : m[tr[p].children[k1]] < m[p]
    BY <1>2, <1>6 DEF Heights
  <2> QED
    BY <1>5, <2>1
<1> QED
  BY <1>2, <1>5, <1>6, <1>7

\* A child that knows its parent is attached.
LEMMA ChildAttached ==
    ASSUME NEW tr, Sound(tr), NEW w \in DOMAIN tr, NEW k \in Child,
           tr[w].children[k] \in DOMAIN tr, tr[tr[w].children[k]].parent = w
    PROVE  Attached(tr, tr[w].children[k])
<1>1. tr[w] \in Node(DOMAIN tr) /\ NoTree \notin DOMAIN tr
  BY DEF Sound
<1>2. DOMAIN tr[w].children = Child
  BY <1>1 DEF Node
<1> QED
  BY <1>1, <1>2 DEF Attached, Range

\* The recursion is defined: every walk up from a place ends, with yes or no.
LEMMA ReachDecided ==
    ASSUME NEW tr, Sound(tr), NEW w
    PROVE  \A u \in DOMAIN tr :
              /\ Below(tr, w, u) \in BOOLEAN
              /\ Below(tr, w, u) <=> \/ u = w
                                     \/ Attached(tr, u) /\ Below(tr, w, tr[u].parent)
<1> DEFINE D == DOMAIN tr
           up(u, f) == \/ u = w
                       \/ /\ tr[u].parent # NoTree
                          /\ u \in Range(tr[tr[u].parent].children)
                          /\ f[tr[u].parent]
           step == [u \in D |-> [f \in [D -> BOOLEAN] |-> up(u, f)]]
           above == CHOOSE f : f = [u \in DOMAIN tr |-> up(u, f)]
<1>0. PICK h, b : Heights(tr, h, b)
  BY DEF Sound
<1> DEFINE m == [u \in D |-> b - h[u]]
<1>1. b \in Nat /\ \A u \in D : h[u] \in Nat /\ h[u] < b
  BY <1>0 DEF Heights
<1>2. \A u \in D : m[u] = b - h[u] /\ m[u] \in Nat /\ m[u] < b + 1
  BY <1>1
<1>3. m \in [D -> Nat] /\ b + 1 \in Nat
  BY <1>1
<1>4. Reach(tr, w) = above
  BY DEF Reach
<1>5. \A u, f : up(u, f) <=> u = w \/ (Attached(tr, u) /\ f[tr[u].parent])
  BY DEF Attached
<1>6. \A u, f : up(u, f) \in BOOLEAN
  OBVIOUS
<1> HIDE DEF m, up
<1>7. step \in [D -> [[D -> BOOLEAN] -> BOOLEAN]]
      /\ \A u \in D : \A f \in [D -> BOOLEAN] : step[u][f] = up(u, f)
  BY <1>6
<1> HIDE DEF step
<1>8. ASSUME NEW u \in D, NEW f \in [D -> BOOLEAN], NEW g \in [D -> BOOLEAN],
             \A v \in D : m[v] < m[u] => f[v] = g[v]
      PROVE  step[u][f] = step[u][g]
  <2>1. Attached(tr, u) => f[tr[u].parent] = g[tr[u].parent]
    <3> SUFFICES ASSUME Attached(tr, u) PROVE f[tr[u].parent] = g[tr[u].parent]
      OBVIOUS
    <3>1. tr[u].parent \in D /\ h[u] < h[tr[u].parent]
      BY <1>0, AttachedUp
    <3>2. m[tr[u].parent] < m[u]
      BY <1>1, <1>2, <3>1
    <3> QED
      BY <1>8, <3>1, <3>2
  <2>2. up(u, f) <=> up(u, g)
    BY <1>5, <2>1
  <2>3. up(u, f) = up(u, g)
    BY <1>6, <2>2
  <2> QED
    BY <1>7, <2>3
<1>9. [D -> BOOLEAN] # {}
  <2>1. [u \in D |-> TRUE] \in [D -> BOOLEAN]
    OBVIOUS
  <2> QED
    BY <2>1
<1>10. Recursive(D, BOOLEAN, m, b + 1, step)
  BY <1>2, <1>3, <1>7, <1>8, <1>9 DEF Recursive
<1>11. PICK f \in [D -> BOOLEAN] : \A u \in D : f[u] = step[u][f]
  BY <1>10, Recursion
<1>12. f = [u \in DOMAIN tr |-> up(u, f)]
  BY <1>7, <1>11
<1>13. above = [u \in DOMAIN tr |-> up(u, above)]
  BY <1>12
<1> HIDE DEF above
<1>14. \A u \in D : above[u] = up(u, above)
  BY <1>13
<1>15. \A u \in D : above[u] \in BOOLEAN
  BY <1>6, <1>14
<1> QED
  BY <1>4, <1>5, <1>14, <1>15 DEF Below

\* Which trees it meets.
LEMMA ReachEquation ==
    ASSUME NEW tr, Sound(tr), NEW w
    PROVE  \A u \in DOMAIN tr :
              Below(tr, w, u) <=> \/ u = w
                                  \/ Attached(tr, u) /\ Below(tr, w, tr[u].parent)
BY ReachDecided

\* No other set solves the recursion.
LEMMA ReachOnly ==
    ASSUME NEW tr, Sound(tr), NEW w, NEW S,
           \A u \in DOMAIN tr : u \in S <=> \/ u = w
                                            \/ Attached(tr, u) /\ tr[u].parent \in S
    PROVE  \A u \in DOMAIN tr : Below(tr, w, u) <=> u \in S
<1> DEFINE D == DOMAIN tr
           Bad == {u \in D : ~(Below(tr, w, u) <=> u \in S)}
<1>0. PICK h, b : Heights(tr, h, b)
  BY DEF Sound
<1> DEFINE m == [u \in D |-> b - h[u]]
<1>1. b \in Nat /\ \A u \in D : h[u] \in Nat /\ h[u] < b
  BY <1>0 DEF Heights
<1>2. m \in [D -> Nat] /\ \A u \in D : m[u] = b - h[u]
  BY <1>1
<1> SUFFICES ASSUME Bad # {} PROVE FALSE
  OBVIOUS
<1>3. Bad \subseteq D
  OBVIOUS
<1> HIDE DEF m, Bad
<1>4. PICK u \in Bad : \A v \in Bad : m[u] <= m[v]
  BY <1>2, <1>3, LeastElement
<1>5. u \in D /\ ~(Below(tr, w, u) <=> u \in S)
  BY DEF Bad
<1>6. Attached(tr, u) => (Below(tr, w, tr[u].parent) <=> tr[u].parent \in S)
  <2> SUFFICES ASSUME Attached(tr, u) PROVE Below(tr, w, tr[u].parent) <=> tr[u].parent \in S
    OBVIOUS
  <2>1. tr[u].parent \in D /\ h[u] < h[tr[u].parent]
    BY <1>0, <1>5, AttachedUp
  <2>2. m[tr[u].parent] < m[u] /\ m[tr[u].parent] \in Nat /\ m[u] \in Nat
    BY <1>1, <1>2, <1>5, <2>1
  <2>3. tr[u].parent \notin Bad
    BY <1>4, <2>2
  <2> QED
    BY <2>1, <2>3 DEF Bad
<1> QED
  BY <1>5, <1>6, ReachEquation

\* w is in S, and so is what is below w with its parent in S.
Inherited(tr, w, S) ==
    /\ w \in S
    /\ \A u \in DOMAIN tr :
          (u # w /\ Attached(tr, u) /\ Below(tr, w, u) /\ tr[u].parent \in S)
             => u \in S

\* Then all that is below w is in S.
LEMMA DownFrom ==
    ASSUME NEW tr, Sound(tr), NEW w, NEW S, Inherited(tr, w, S)
    PROVE  \A u \in DOMAIN tr : Below(tr, w, u) => u \in S
<1> DEFINE D == DOMAIN tr
           Bad == {u \in D : Below(tr, w, u) /\ u \notin S}
<1>0. PICK h, b : Heights(tr, h, b)
  BY DEF Sound
<1> DEFINE m == [u \in D |-> b - h[u]]
<1>1. b \in Nat /\ \A u \in D : h[u] \in Nat /\ h[u] < b
  BY <1>0 DEF Heights
<1>2. m \in [D -> Nat] /\ \A u \in D : m[u] = b - h[u]
  BY <1>1
<1> SUFFICES ASSUME Bad # {} PROVE FALSE
  OBVIOUS
<1>3. Bad \subseteq D
  OBVIOUS
<1> HIDE DEF m, Bad
<1>4. PICK u \in Bad : \A v \in Bad : m[u] <= m[v]
  BY <1>2, <1>3, LeastElement
<1>5. u \in D /\ Below(tr, w, u) /\ u \notin S
  BY DEF Bad
<1>6. Attached(tr, u) /\ Below(tr, w, tr[u].parent)
  BY <1>5, ReachEquation DEF Inherited
<1>7. tr[u].parent \in D /\ h[u] < h[tr[u].parent]
  BY <1>0, <1>5, <1>6, AttachedUp
<1>8. m[tr[u].parent] < m[u] /\ m[tr[u].parent] \in Nat /\ m[u] \in Nat
  BY <1>1, <1>2, <1>5, <1>7
<1>9. tr[u].parent \notin Bad
  BY <1>4, <1>8
<1>10. tr[u].parent \in S
  BY <1>6, <1>7, <1>9 DEF Bad
<1> QED
  BY <1>5, <1>6, <1>10 DEF Inherited

\* What is below a tree is not higher.
LEMMA BelowLower ==
    ASSUME NEW tr, Sound(tr), NEW m, NEW b, Heights(tr, m, b),
           NEW w \in DOMAIN tr, NEW u \in DOMAIN tr, Below(tr, w, u)
    PROVE  m[u] <= m[w]
<1> DEFINE S == {v \in DOMAIN tr : m[v] <= m[w]}
<1>1. \A v \in DOMAIN tr : m[v] \in Nat
  BY DEF Heights
<1>2. w \in S
  BY <1>1
<1>3. ASSUME NEW v \in DOMAIN tr, Attached(tr, v), tr[v].parent \in S
      PROVE  v \in S
  <2>1. tr[v].parent \in DOMAIN tr /\ m[v] < m[tr[v].parent]
    BY <1>3, AttachedUp
  <2> QED
    BY <1>1, <1>3, <2>1
<1> HIDE DEF S
<1>4. \A v \in DOMAIN tr : Below(tr, w, v) => v \in S
  <2>1. Inherited(tr, w, S)
    BY <1>2, <1>3 DEF Inherited
  <2> QED
    BY <2>1, DownFrom
<1> QED
  BY <1>4 DEF S

\* Below is transitive.
LEMMA BelowBelow ==
    ASSUME NEW tr, Sound(tr), NEW w \in DOMAIN tr, NEW c \in DOMAIN tr, Below(tr, w, c)
    PROVE  \A u \in DOMAIN tr : Below(tr, c, u) => Below(tr, w, u)
<1> DEFINE S == {v \in DOMAIN tr : Below(tr, w, v)}
<1>1. ASSUME NEW v \in DOMAIN tr, Attached(tr, v), tr[v].parent \in S
      PROVE  v \in S
  BY <1>1, ReachEquation
<1>2. c \in S
  OBVIOUS
<1> HIDE DEF S
<1>3. \A v \in DOMAIN tr : Below(tr, c, v) => v \in S
  <2>1. Inherited(tr, c, S)
    BY <1>1, <1>2 DEF Inherited
  <2> QED
    BY <2>1, DownFrom
<1> QED
  BY <1>3 DEF S

\* The children of an inner tree: they are its quarters, and know it.
Quartered(tr, w) ==
    ~tr[w].leaf_node =>
        /\ tr[w].box.size % 2 = 0
        /\ \A k \in Child :
              /\ tr[w].children[k] \in DOMAIN tr
              /\ tr[tr[w].children[k]].parent = w
              /\ tr[tr[w].children[k]].box = childBox(tr[w].box, k)
        /\ \A j, k \in Child : tr[w].children[j] = tr[w].children[k] => j = k

\* What is below a tree is the tree itself and what is below its children.
LEMMA BelowChildren ==
    ASSUME NEW tr, Sound(tr), NEW w \in DOMAIN tr, Quartered(tr, w),
           NEW z \in DOMAIN tr
    PROVE  Below(tr, w, z) <=>
              \/ z = w
              \/ ~tr[w].leaf_node /\ \E k \in Child : Below(tr, tr[w].children[k], z)
<1>1. ASSUME ~tr[w].leaf_node, NEW k \in Child, Below(tr, tr[w].children[k], z)
      PROVE  Below(tr, w, z)
  <2> DEFINE c == tr[w].children[k]
  <2>1. c \in DOMAIN tr /\ tr[c].parent = w
    BY <1>1 DEF Quartered
  <2>2. Attached(tr, c)
    BY <2>1, ChildAttached
  <2> HIDE DEF c
  <2>3. Below(tr, w, w)
    BY ReachEquation
  <2>4. Below(tr, w, c)
    BY <2>1, <2>2, <2>3, ReachEquation
  <2>5. Below(tr, c, z)
    BY <1>1 DEF c
  <2> QED
    BY <2>1, <2>4, <2>5, BelowBelow
<1>2. ASSUME Below(tr, w, z), z # w
      PROVE  ~tr[w].leaf_node /\ \E k \in Child : Below(tr, tr[w].children[k], z)
  <2> DEFINE S == {v \in DOMAIN tr : v = w \/ (/\ ~tr[w].leaf_node
                      /\ \E k \in Child : Below(tr, tr[w].children[k], v))}
  <2>1. ASSUME NEW v \in DOMAIN tr, Attached(tr, v), tr[v].parent \in S
        PROVE  v \in S
    <3>0. PICK m, b : Heights(tr, m, b)
      BY DEF Sound
    <3>1. /\ tr[v].parent \in DOMAIN tr /\ ~tr[tr[v].parent].leaf_node
          /\ \E k \in Child : tr[tr[v].parent].children[k] = v
      BY <2>1, <3>0, AttachedUp
    <3>2. CASE tr[v].parent = w
      <4>1. PICK k \in Child : tr[w].children[k] = v
        BY <3>1, <3>2
      <4>2. Below(tr, v, v)
        BY ReachEquation
      <4> QED
        BY <3>1, <3>2, <4>1, <4>2
    <3>3. CASE tr[v].parent # w
      <4>1. PICK k \in Child : ~tr[w].leaf_node /\ Below(tr, tr[w].children[k], tr[v].parent)
        BY <2>1, <3>3
      <4>2. Below(tr, tr[w].children[k], v)
        BY <2>1, <4>1, ReachEquation
      <4> QED
        BY <4>1, <4>2
    <3> QED
      BY <3>2, <3>3
  <2>2. w \in S
    OBVIOUS
  <2> HIDE DEF S
  <2>3. \A v \in DOMAIN tr : Below(tr, w, v) => v \in S
    <3>1. Inherited(tr, w, S)
      BY <2>1, <2>2 DEF Inherited
    <3> QED
      BY <3>1, DownFrom
  <2> QED
    BY <1>2, <2>3 DEF S
<1>3. Below(tr, w, w)
  BY ReachEquation
<1> QED
  BY <1>1, <1>2, <1>3

\* Two children of a tree have nothing below both.
LEMMA ChildrenApart ==
    ASSUME NEW tr, Sound(tr), NEW w \in DOMAIN tr, Quartered(tr, w), ~tr[w].leaf_node,
           NEW j \in Child, NEW k \in Child, j # k
    PROVE  \A z \in DOMAIN tr : ~(Below(tr, tr[w].children[j], z) /\ Below(tr, tr[w].children[k], z))
<1> DEFINE c == tr[w].children[j]
           d == tr[w].children[k]
<1>0. PICK m, b : Heights(tr, m, b)
  BY DEF Sound
<1>1. c \in DOMAIN tr /\ d \in DOMAIN tr /\ c # d /\ tr[c].parent = w /\ tr[d].parent = w
  BY DEF Quartered
<1>2. m[c] < m[w] /\ m[d] < m[w]
  BY <1>0 DEF Heights
<1> HIDE DEF c, d
<1>3. \A u \in DOMAIN tr : m[u] \in Nat
  BY <1>0 DEF Heights
<1>4. ~Below(tr, c, w) /\ ~Below(tr, d, w)
  BY <1>0, <1>1, <1>2, <1>3, BelowLower
<1>5. ~Below(tr, c, d) /\ ~Below(tr, d, c)
  BY <1>1, <1>4, ReachEquation
<1> DEFINE S == {z \in DOMAIN tr : ~Below(tr, d, z)}
<1>6. ASSUME NEW v \in DOMAIN tr, v # c, Attached(tr, v), Below(tr, c, v),
             tr[v].parent \in S
      PROVE  v \in S
  <2>1. v # d
    BY <1>5, <1>6
  <2> QED
    BY <1>6, <2>1, ReachEquation
<1>7. c \in S
  BY <1>1, <1>5
<1> HIDE DEF S
<1>8. \A z \in DOMAIN tr : Below(tr, c, z) => z \in S
  <2>1. Inherited(tr, c, S)
    BY <1>6, <1>7 DEF Inherited
  <2> QED
    BY <2>1, DownFrom
<1> QED
  BY <1>8 DEF S, c, d

-----------------------------------------------------------------------------
\* Returning the leaves.

\* The elements of two sequences behind each other.
LEMMA ConcatSets ==
    ASSUME NEW P, NEW s \in Seq(P), NEW r \in Seq(P)
    PROVE  /\ s \o r \in Seq(P)
           /\ ToSet(s \o r) = ToSet(s) \union ToSet(r)
           /\ IsInjective(s) /\ IsInjective(r) /\ ToSet(s) \cap ToSet(r) = {}
                 => IsInjective(s \o r)
<1>1. /\ s \o r \in Seq(P) /\ Len(s \o r) = Len(s) + Len(r)
      /\ Len(s) \in Nat /\ Len(r) \in Nat
      /\ DOMAIN s = 1 .. Len(s) /\ DOMAIN r = 1 .. Len(r)
      /\ DOMAIN (s \o r) = 1 .. (Len(s) + Len(r))
  BY ConcatProperties, LenProperties
<1>2. \A i \in 1 .. (Len(s) + Len(r)) :
         (s \o r)[i] = IF i <= Len(s) THEN s[i] ELSE r[i - Len(s)]
  BY ConcatProperties
<1> DEFINE q == s \o r
<1> HIDE DEF q
<1>3. ToSet(q) \subseteq ToSet(s) \union ToSet(r)
  <2> SUFFICES ASSUME NEW i \in 1 .. (Len(s) + Len(r))
               PROVE  q[i] \in ToSet(s) \union ToSet(r)
    BY <1>1 DEF ToSet, q
  <2>1. CASE i <= Len(s)
    BY <1>1, <1>2, <2>1 DEF ToSet, q
  <2>2. CASE i > Len(s)
    <3>1. i - Len(s) \in 1 .. Len(r)
      BY <1>1, <2>2
    <3> QED
      BY <1>1, <1>2, <2>2, <3>1 DEF ToSet, q
  <2> QED
    BY <1>1, <2>1, <2>2
<1>4. \A i \in 1 .. Len(s) : i \in 1 .. (Len(s) + Len(r)) /\ q[i] = s[i]
  BY <1>1, <1>2 DEF q
<1>5. \A i \in 1 .. Len(r) : i + Len(s) \in 1 .. (Len(s) + Len(r)) /\ q[i + Len(s)] = r[i]
  BY <1>1, <1>2 DEF q
<1>6. ToSet(s) \subseteq ToSet(q)
  BY <1>1, <1>4 DEF ToSet, q
<1>7. ToSet(r) \subseteq ToSet(q)
  BY <1>1, <1>5 DEF ToSet, q
<1>8. ASSUME IsInjective(s), IsInjective(r), ToSet(s) \cap ToSet(r) = {}
      PROVE  IsInjective(q)
  <2> SUFFICES ASSUME NEW i \in 1 .. (Len(s) + Len(r)), NEW j \in 1 .. (Len(s) + Len(r)),
                      q[i] = q[j], i <= j
               PROVE  i = j
    BY <1>1 DEF IsInjective, q
  <2>1. CASE j <= Len(s)
    <3>1. i \in DOMAIN s /\ j \in DOMAIN s /\ s[i] = s[j]
      BY <1>1, <1>4, <2>1
    <3> QED
      BY <1>8, <3>1 DEF IsInjective
  <2>2. CASE i > Len(s)
    <3>1. /\ i - Len(s) \in DOMAIN r /\ j - Len(s) \in DOMAIN r
          /\ r[i - Len(s)] = r[j - Len(s)]
      BY <1>1, <1>2, <2>2 DEF q
    <3>2. i - Len(s) = j - Len(s)
      BY <1>8, <3>1 DEF IsInjective
    <3> QED
      BY <1>1, <3>2
  <2>3. CASE i <= Len(s) /\ j > Len(s)
    <3>1. q[i] \in ToSet(s)
      BY <1>1, <1>4, <2>3 DEF ToSet
    <3>2. j - Len(s) \in 1 .. Len(r) /\ q[j] = r[j - Len(s)]
      BY <1>1, <1>2, <2>3 DEF q
    <3>3. q[j] \in ToSet(r)
      BY <1>1, <3>2 DEF ToSet
    <3> QED
      BY <1>8, <3>1, <3>3
  <2> QED
    BY <1>1, <2>1, <2>2, <2>3
<1> QED
  BY <1>1, <1>3, <1>6, <1>7, <1>8 DEF q

\* Sequences of no element and of one.
LEMMA OneAndNone ==
    ASSUME NEW P, NEW c \in P
    PROVE  /\ << >> \in Seq(P) /\ ToSet(<< >>) = {} /\ IsInjective(<< >>)
           /\ <<c>> \in Seq(P) /\ ToSet(<<c>>) = {c} /\ IsInjective(<<c>>)
BY DEF ToSet, IsInjective

\* The leaves below t but t itself.
LeavesBelow(tr, t) == {z \in DOMAIN tr : Below(tr, t, z) /\ z # t /\ tr[z].leaf_node}

\* s has exactly the elements of S, each once.
Lists(s, S, P) == s \in Seq(P) /\ ToSet(s) = S /\ IsInjective(s)

\* FlattenSeq of four sequences.
LEMMA FlattenFour ==
    ASSUME NEW P, NEW q \in [1 .. 4 -> Seq(P)]
    PROVE  /\ FlattenSeq(q) \in Seq(P)
           /\ FlattenSeq(q) = ((q[1] \o q[2]) \o q[3]) \o q[4]
<1>1. 4 \in Nat \ {0}
  OBVIOUS
<1> QED
  BY <1>1, FlattenSteps, Zenon

\* Four lists that share nothing make one list.
LEMMA FourListed ==
    ASSUME NEW P, NEW q \in [1 .. 4 -> Seq(P)],
           \A k \in 1 .. 4 : IsInjective(q[k]),
           \A j, k \in 1 .. 4 : j # k => ToSet(q[j]) \cap ToSet(q[k]) = {}
    PROVE  Lists(FlattenSeq(q), UNION {ToSet(q[k]) : k \in 1 .. 4}, P)
<1> DEFINE a == q[1] \o q[2]
           b == a \o q[3]
           c == b \o q[4]
<1>1. FlattenSeq(q) = c
  BY FlattenFour
<1>2. q[1] \in Seq(P) /\ q[2] \in Seq(P) /\ q[3] \in Seq(P) /\ q[4] \in Seq(P)
  OBVIOUS
<1>3. Lists(a, ToSet(q[1]) \union ToSet(q[2]), P)
  <2>1. IsInjective(q[1]) /\ IsInjective(q[2]) /\ ToSet(q[1]) \cap ToSet(q[2]) = {}
    OBVIOUS
  <2> QED
    BY <1>2, <2>1, ConcatSets DEF Lists
<1> HIDE DEF a
<1>4. Lists(b, (ToSet(q[1]) \union ToSet(q[2])) \union ToSet(q[3]), P)
  <2>1. IsInjective(q[3]) /\ ToSet(q[1]) \cap ToSet(q[3]) = {} /\ ToSet(q[2]) \cap ToSet(q[3]) = {}
    OBVIOUS
  <2>2. a \in Seq(P) /\ ToSet(a) = ToSet(q[1]) \union ToSet(q[2]) /\ IsInjective(a)
    BY <1>3 DEF Lists
  <2>3. ToSet(a) \cap ToSet(q[3]) = {}
    BY <2>1, <2>2
  <2> QED
    BY <1>2, <2>1, <2>2, <2>3, ConcatSets DEF Lists
<1> HIDE DEF b
<1>5. Lists(c, ((ToSet(q[1]) \union ToSet(q[2])) \union ToSet(q[3])) \union ToSet(q[4]), P)
  <2>1. /\ IsInjective(q[4]) /\ ToSet(q[1]) \cap ToSet(q[4]) = {}
        /\ ToSet(q[2]) \cap ToSet(q[4]) = {} /\ ToSet(q[3]) \cap ToSet(q[4]) = {}
    OBVIOUS
  <2>2. b \in Seq(P) /\ ToSet(b) = (ToSet(q[1]) \union ToSet(q[2])) \union ToSet(q[3]) /\ IsInjective(b)
    BY <1>4 DEF Lists
  <2>3. ToSet(b) \cap ToSet(q[4]) = {}
    BY <2>1, <2>2
  <2> QED
    BY <1>2, <2>1, <2>2, <2>3, ConcatSets DEF Lists
<1> HIDE DEF c
<1>6. UNION {ToSet(q[k]) : k \in 1 .. 4} =
         ((ToSet(q[1]) \union ToSet(q[2])) \union ToSet(q[3])) \union ToSet(q[4])
  <2>1. 1 .. 4 = {1, 2, 3, 4}
    OBVIOUS
  <2> QED
    BY <2>1
<1> QED
  BY <1>1, <1>5, <1>6

\* destroyChildren returns each of them once.
LEMMA DestroysLeaves ==
    ASSUME NEW tr, Sound(tr), NEW t \in DOMAIN tr,
           \A u \in DOMAIN tr : Below(tr, t, u) => Quartered(tr, u)
    PROVE  Lists(destroyed(tr, t), LeavesBelow(tr, t), DOMAIN tr)
<1> DEFINE D == DOMAIN tr
           V == Seq(D)
           parts(u, f) == [k \in Child |->
                LET child == tr[u].children[k]
                IN  IF child = NoTree THEN << >>
                    ELSE IF tr[child].leaf_node THEN <<child>>
                    ELSE f[child]]
           step == [u \in D |-> [f \in [D -> V] |-> FlattenSeq(parts(u, f))]]
           below == CHOOSE f : f = [u \in DOMAIN tr |-> FlattenSeq(parts(u, f))]
<1>0. PICK m, b : Heights(tr, m, b)
  BY DEF Sound
<1>1. destroyed(tr, t) = below[t]
  BY DEF destroyed
<1>2. \A u \in D : \A k \in Child : tr[u].children[k] \in {NoTree} \union D
  <2> SUFFICES ASSUME NEW u \in D, NEW k \in Child
               PROVE  tr[u].children[k] \in {NoTree} \union D
    OBVIOUS
  <2>1. tr[u] \in Node(D)
    BY DEF Sound
  <2> QED
    BY <2>1 DEF Node
<1>3. \A u, f : parts(u, f) = [k \in Child |-> parts(u, f)[k]]
  OBVIOUS
<1>4. \A u, f : \A k \in Child :
         parts(u, f)[k] = IF tr[u].children[k] = NoTree THEN << >>
                          ELSE IF tr[tr[u].children[k]].leaf_node THEN <<tr[u].children[k]>>
                          ELSE f[tr[u].children[k]]
  OBVIOUS
<1> HIDE DEF parts
<1>5. \A u \in D : \A f \in [D -> V] : parts(u, f) \in [1 .. 4 -> V]
  <2> SUFFICES ASSUME NEW u \in D, NEW f \in [D -> V]
               PROVE  parts(u, f) \in [Child -> V]
    BY DEF Child
  <2>1. \A k \in Child : parts(u, f)[k] \in V
    <3> SUFFICES ASSUME NEW k \in Child PROVE parts(u, f)[k] \in V
      OBVIOUS
    <3> DEFINE c == tr[u].children[k]
    <3>1. c \in {NoTree} \union D
      BY <1>2
    <3>2. parts(u, f)[k] = IF c = NoTree THEN << >>
                           ELSE IF tr[c].leaf_node THEN <<c>> ELSE f[c]
      BY <1>4, Zenon
    <3> HIDE DEF c
    <3>3. c # NoTree => <<c>> \in V /\ f[c] \in V
      BY <3>1, OneAndNone
    <3>4. << >> \in V
      OBVIOUS
    <3> QED
      BY <3>2, <3>3, <3>4, Zenon
  <2> QED
    BY <1>3, <2>1
<1>6. step \in [D -> [[D -> V] -> V]]
      /\ \A u \in D : \A f \in [D -> V] : step[u][f] = FlattenSeq(parts(u, f))
  <2>1. \A u \in D : \A f \in [D -> V] : FlattenSeq(parts(u, f)) \in V
    BY <1>5, FlattenFour
  <2> QED
    BY <2>1
<1> HIDE DEF step
<1>7. \A u \in D : \A k \in Child :
         tr[u].children[k] # NoTree => /\ ~tr[u].leaf_node
                                       /\ m[tr[u].children[k]] < m[u]
  BY <1>0 DEF Sound, LeavesChildless, NoChildren, Heights
<1>8. ASSUME NEW u \in D, NEW f \in [D -> V], NEW g \in [D -> V],
             \A v \in D : m[v] < m[u] => f[v] = g[v]
      PROVE  step[u][f] = step[u][g]
  <2>1. \A k \in Child : parts(u, f)[k] = parts(u, g)[k]
    <3> SUFFICES ASSUME NEW k \in Child PROVE parts(u, f)[k] = parts(u, g)[k]
      OBVIOUS
    <3>1. tr[u].children[k] = NoTree \/ f[tr[u].children[k]] = g[tr[u].children[k]]
      BY <1>2, <1>7, <1>8
    <3> QED
      <4> DEFINE c == tr[u].children[k]
                 pick(x) == IF c = NoTree THEN << >>
                            ELSE IF tr[c].leaf_node THEN <<c>> ELSE x
      <4>1. parts(u, f)[k] = pick(f[c]) /\ parts(u, g)[k] = pick(g[c])
        BY <1>4, Zenon
      <4>2. pick(f[c]) = pick(g[c])
        <5> HIDE DEF c
        <5>1. CASE c = NoTree
          BY <5>1
        <5>2. CASE f[c] = g[c]
          BY <5>2
        <5> QED
          BY <3>1, <5>1, <5>2 DEF c
      <4> QED
        BY <4>1, <4>2
  <2>2. parts(u, f) = parts(u, g)
    BY <1>3, <2>1
  <2> QED
    BY <1>6, <2>2
<1>9. [D -> V] # {}
  <2>1. [u \in D |-> << >>] \in [D -> V]
    OBVIOUS
  <2> QED
    BY <2>1
<1> HIDE DEF V
<1>10. Recursive(D, V, m, b, step)
  BY <1>0, <1>6, <1>8, <1>9 DEF Recursive, Heights
<1>11. PICK f \in [D -> V] : \A u \in D : f[u] = step[u][f]
  BY <1>10, Recursion
<1>12. f = [u \in DOMAIN tr |-> FlattenSeq(parts(u, f))]
  BY <1>6, <1>11
<1>13. below = [u \in DOMAIN tr |-> FlattenSeq(parts(u, below))]
  BY <1>12
<1> HIDE DEF below
<1>14. \A u \in D : below[u] = FlattenSeq(parts(u, below))
  BY <1>13
<1> DEFINE Good(u) == Lists(below[u], LeavesBelow(tr, u), D)
           Bad == {u \in D : Below(tr, t, u) /\ ~Good(u)}
<1>15. ASSUME NEW u \in D, Below(tr, t, u),
              \A v \in D : Below(tr, t, v) /\ m[v] < m[u] => Good(v)
       PROVE  Good(u)
  <2> DEFINE q == parts(u, below)
             leaves(k) == {z \in D : Below(tr, tr[u].children[k], z) /\ tr[z].leaf_node}
  <2>1. Quartered(tr, u)
    BY <1>15
  <2>2. CASE tr[u].leaf_node
    <3>1. \A k \in Child : q[k] = << >>
      <4>1. \A k \in Child : tr[u].children[k] = NoTree
        BY <1>7, <2>2
      <4> QED
        <5> SUFFICES ASSUME NEW k \in Child PROVE parts(u, below)[k] = << >>
          OBVIOUS
        <5>1. tr[u].children[k] = NoTree
          BY <4>1
        <5> DEFINE rest == IF tr[tr[u].children[k]].leaf_node THEN <<tr[u].children[k]>>
                           ELSE below[tr[u].children[k]]
        <5>2. parts(u, below)[k] = IF tr[u].children[k] = NoTree THEN << >> ELSE rest
          BY <1>4, Zenon
        <5> HIDE DEF rest
        <5> QED
          BY <5>1, <5>2
    <3>2. q \in [1 .. 4 -> Seq(D)] /\ \A k \in 1 .. 4 : q[k] = << >>
      <4>1. q = [k \in Child |-> << >>]
        BY <1>3, <3>1
      <4> QED
        BY <4>1 DEF Child
    <3> HIDE DEF q
    <3>3. Lists(FlattenSeq(q), UNION {ToSet(q[k]) : k \in 1 .. 4}, D)
      BY <3>2, OneAndNone, FourListed
    <3>4. UNION {ToSet(q[k]) : k \in 1 .. 4} = {}
      <4>1. ToSet(<< >>) = {}
        BY DEF ToSet
      <4>2. \A k \in 1 .. 4 : ToSet(q[k]) = {}
        BY <3>2, <4>1
      <4> QED
        BY <4>2
    <3>5. LeavesBelow(tr, u) = {}
      BY <2>1, <2>2, BelowChildren DEF LeavesBelow
    <3> QED
      BY <1>14, <3>3, <3>4, <3>5 DEF q
  <2>3. CASE ~tr[u].leaf_node
    <3>1. ASSUME NEW k \in Child
          PROVE  Lists(q[k], leaves(k), D)
      <4> DEFINE c == tr[u].children[k]
      <4>1. c \in D /\ c # NoTree /\ m[c] < m[u]
        <5>1. c \in D /\ NoTree \notin D
          BY <2>1, <2>3 DEF Quartered, Sound
        <5> QED
          BY <1>7, <5>1
      <4>2. Below(tr, t, c)
        <5>1. Below(tr, c, c)
          <6> HIDE DEF c
          <6> QED
            BY <4>1, ReachEquation
        <5>2. Below(tr, u, c)
          BY <2>1, <2>3, <4>1, <5>1, BelowChildren
        <5> HIDE DEF c
        <5> QED
          BY <1>15, <4>1, <5>2, BelowBelow
      <4>3. Quartered(tr, c)
        BY <4>1, <4>2
      <4>4. q[k] = IF tr[c].leaf_node THEN <<c>> ELSE below[c]
        BY <1>4, <4>1
      <4> HIDE DEF c, q
      <4>5. CASE tr[c].leaf_node
        <5>1. {z \in D : Below(tr, c, z) /\ tr[z].leaf_node} = {c}
          BY <4>1, <4>3, <4>5, BelowChildren
        <5> QED
          BY <4>1, <4>4, <4>5, <5>1, OneAndNone DEF Lists, c
      <4>6. CASE ~tr[c].leaf_node
        <5>1. {z \in D : Below(tr, c, z) /\ tr[z].leaf_node} = LeavesBelow(tr, c)
          BY <4>6 DEF LeavesBelow
        <5>2. Good(c)
          BY <1>15, <4>1, <4>2
        <5> QED
          BY <4>4, <4>6, <5>1, <5>2 DEF c
      <4> QED
        BY <4>5, <4>6
    <3>2. q \in [1 .. 4 -> Seq(D)]
      <4>1. \A k \in Child : q[k] \in Seq(D)
        BY <3>1 DEF Lists
      <4>2. q = [k \in Child |-> q[k]]
        BY <1>3
      <4> HIDE DEF q
      <4> QED
        BY <4>1, <4>2 DEF Child
    <3>3. \A j, k \in Child : j # k => leaves(j) \cap leaves(k) = {}
      BY <2>1, <2>3, ChildrenApart
    <3> HIDE DEF q, leaves
    <3>4. Lists(FlattenSeq(q), UNION {ToSet(q[k]) : k \in 1 .. 4}, D)
      <4>1. \A k \in 1 .. 4 : IsInjective(q[k]) /\ ToSet(q[k]) = leaves(k)
        BY <3>1 DEF Lists, Child
      <4>2. \A j, k \in 1 .. 4 : j # k => ToSet(q[j]) \cap ToSet(q[k]) = {}
        BY <3>3, <4>1 DEF Child
      <4> QED
        BY <3>2, <4>1, <4>2, FourListed
    <3>5. UNION {ToSet(q[k]) : k \in 1 .. 4} = UNION {leaves(k) : k \in Child}
      BY <3>1 DEF Lists, Child
    <3>6. UNION {leaves(k) : k \in Child} = LeavesBelow(tr, u)
      <4>1. ASSUME NEW z \in D
            PROVE  z \in LeavesBelow(tr, u) <=> \E k \in Child : z \in leaves(k)
        BY <2>1, <2>3, BelowChildren DEF LeavesBelow, leaves
      <4>2. LeavesBelow(tr, u) \subseteq D /\ \A k \in Child : leaves(k) \subseteq D
        BY DEF LeavesBelow, leaves
      <4> QED
        BY <4>1, <4>2
    <3> QED
      BY <1>14, <3>4, <3>5, <3>6 DEF q
  <2> QED
    BY <2>2, <2>3
<1>16. Bad = {}
  <2> SUFFICES ASSUME Bad # {} PROVE FALSE
    OBVIOUS
  <2>1. Bad \subseteq D /\ m \in [D -> Nat]
    BY <1>0 DEF Heights
  <2> HIDE DEF Good
  <2>2. PICK u \in Bad : \A v \in Bad : m[u] <= m[v]
    <3> HIDE DEF Bad
    <3> QED
      BY <2>1, LeastElement
  <2>3. u \in D /\ Below(tr, t, u) /\ ~Good(u)
    OBVIOUS
  <2>4. \A v \in D : Below(tr, t, v) /\ m[v] < m[u] => Good(v)
    <3> SUFFICES ASSUME NEW v \in D, Below(tr, t, v), m[v] < m[u], ~Good(v) PROVE FALSE
      OBVIOUS
    <3>1. v \in Bad /\ m[u] \in Nat /\ m[v] \in Nat
      BY <2>1
    <3> QED
      BY <2>2, <3>1
  <2> QED
    BY <1>15, <2>3, <2>4
<1>17. Below(tr, t, t)
  BY ReachEquation
<1> QED
  BY <1>1, <1>16, <1>17

\* Returning one token adds it to the list, once.
LEMMA GivesBackOne ==
    ASSUME NEW P, NEW list \in Seq(P), NEW t \in P
    PROVE  /\ giveBack(list, t) \in Seq(P)
           /\ IsInjective(list) /\ t \notin ToSet(list)
                => Lists(giveBack(list, t), ToSet(list) \union {t}, P)
<1> DEFINE one == <<t>>
<1>1. one \in Seq(P) /\ ToSet(one) = {t} /\ IsInjective(one)
  BY OneAndNone
<1>2. CASE list = << >> \/ t < Head(list)
  <2>1. giveBack(list, t) = one \o list
    BY <1>2 DEF giveBack
  <2> HIDE DEF one
  <2>2. one \o list \in Seq(P) /\ ToSet(one \o list) = {t} \union ToSet(list)
    BY <1>1, ConcatSets
  <2>3. IsInjective(list) /\ t \notin ToSet(list) => IsInjective(one \o list)
    <3>1. t \notin ToSet(list) => ToSet(one) \cap ToSet(list) = {}
      BY <1>1
    <3> QED
      BY <1>1, <3>1, ConcatSets
  <2> QED
    BY <2>1, <2>2, <2>3 DEF Lists
<1>3. CASE ~(list = << >> \/ t < Head(list))
  <2> DEFINE h == Head(list)
             r == Tail(list)
             two == <<h, t>>
  <2>1. giveBack(list, t) = two \o r
    BY <1>3 DEF giveBack
  <2>2. h \in P /\ r \in Seq(P) /\ Len(list) \in Nat \ {0} /\ Len(r) = Len(list) - 1
        /\ h = list[1] /\ \A i \in 1 .. Len(r) : r[i] = list[i + 1]
    BY <1>3, HeadTailProperties, EmptySeq, LenProperties
  <2>3. DOMAIN list = 1 .. Len(list) /\ DOMAIN r = 1 .. Len(r)
    BY <2>2, LenProperties
  <2> HIDE DEF h, r
  <2>4. two \in Seq(P) /\ ToSet(two) = {h, t} /\ (h # t => IsInjective(two))
    <3>1. two \in Seq(P)
      BY <2>2
    <3> QED
      BY <3>1 DEF ToSet, IsInjective
  <2> HIDE DEF two
  <2>5. ToSet(list) = {h} \union ToSet(r)
    <3>1. ASSUME NEW x \in ToSet(list) PROVE x \in {h} \union ToSet(r)
      <4>1. PICK i \in 1 .. Len(list) : x = list[i]
        BY <2>3 DEF ToSet
      <4>2. CASE i = 1
        BY <2>2, <4>1, <4>2
      <4>3. CASE i # 1
        <5>1. i - 1 \in 1 .. Len(r) /\ r[i - 1] = list[i]
          BY <2>2, <4>3
        <5> QED
          BY <2>3, <4>1, <5>1 DEF ToSet
      <4> QED
        BY <4>2, <4>3
    <3>2. h \in ToSet(list)
      BY <2>2, <2>3 DEF ToSet
    <3>3. ASSUME NEW x \in ToSet(r) PROVE x \in ToSet(list)
      <4>1. PICK i \in 1 .. Len(r) : x = r[i]
        BY <2>3 DEF ToSet
      <4>2. i + 1 \in 1 .. Len(list) /\ list[i + 1] = x
        BY <2>2, <4>1
      <4> QED
        BY <2>3, <4>2 DEF ToSet
    <3> QED
      BY <3>1, <3>2, <3>3
  <2>6. IsInjective(list) => IsInjective(r) /\ h \notin ToSet(r)
    <3> SUFFICES ASSUME IsInjective(list) PROVE IsInjective(r) /\ h \notin ToSet(r)
      OBVIOUS
    <3>0. \A i, j \in 1 .. Len(list) : list[i] = list[j] => i = j
      BY <2>3 DEF IsInjective
    <3>1. \A i, j \in 1 .. Len(r) : r[i] = r[j] => i = j
      BY <2>2, <3>0
    <3>2. \A i \in 1 .. Len(r) : h # r[i]
      BY <2>2, <3>0
    <3> QED
      BY <2>3, <3>1, <3>2 DEF IsInjective, ToSet
  <2>7. two \o r \in Seq(P) /\ ToSet(two \o r) = {h, t} \union ToSet(r)
    BY <2>2, <2>4, ConcatSets
  <2>8. ASSUME IsInjective(list), t \notin ToSet(list)
        PROVE  IsInjective(two \o r)
    <3>1. h # t /\ ToSet(two) \cap ToSet(r) = {}
      BY <2>4, <2>5, <2>6, <2>8
    <3> QED
      BY <2>2, <2>4, <2>6, <2>8, <3>1, ConcatSets
  <2> QED
    BY <2>1, <2>5, <2>7, <2>8 DEF Lists
<1> QED
  BY <1>2, <1>3

\* The list of the registry after the tokens in gone were returned.
LEMMA GivesBackAll ==
    ASSUME NEW P, NEW list \in Seq(P), NEW gone \in Seq(P),
           IsInjective(list), IsInjective(gone), ToSet(list) \cap ToSet(gone) = {}
    PROVE  Lists(FoldLeft(giveBack, list, gone), ToSet(list) \union ToSet(gone), P)
<1> DEFINE n == Len(gone)
           V == Seq(P)
           op == [i \in 1 .. n |-> [l \in V |-> giveBack(l, gone[i])]]
           it == CHOOSE iter : iter = [s \in SUBSET DOMAIN gone |->
                     IF s = {} THEN list
                     ELSE LET x == Max(s) IN giveBack(iter[s \ {x}], gone[x])]
<1>1. FoldLeft(giveBack, list, gone) = it[DOMAIN gone]
  BY DEF FoldLeft, MapThenFoldSet
<1>2. n \in Nat /\ DOMAIN gone = 1 .. n /\ \A i \in 1 .. n : gone[i] \in P
  BY LenProperties, ElementOfSeq
<1> HIDE DEF n
<1>3. op \in [1 .. n -> [V -> V]]
      /\ \A i \in 1 .. n : \A l \in V : op[i][l] = giveBack(l, gone[i])
  <2>1. \A i \in 1 .. n : \A l \in V : giveBack(l, gone[i]) \in V
    BY <1>2, GivesBackOne
  <2> HIDE DEF V
  <2> QED
    BY <2>1
<1> HIDE DEF op
<1>4. list \in V
  OBVIOUS
<1> HIDE DEF V
<1>5. Folding(n, V, list, op)
  BY <1>2, <1>3, <1>4 DEF Folding
<1>6. PICK f : Folds(f, n, V, list, op)
  BY <1>5, FoldExists
<1>7. ASSUME NEW s \in SUBSET (1 .. n)
      PROVE  f[s] = IF s = {} THEN list ELSE giveBack(f[s \ {Max(s)}], gone[Max(s)])
  <2>1. s # {} => Max(s) \in 1 .. n
    BY <1>2, MaxIsIn
  <2>2. f[s \ {Max(s)}] \in V
    BY <1>6 DEF Folds
  <2> QED
    BY <1>3, <1>6, <2>1, <2>2 DEF Folds
<1>8. f = [s \in SUBSET DOMAIN gone |-> IF s = {} THEN list
                 ELSE LET x == Max(s) IN giveBack(f[s \ {x}], gone[x])]
  BY <1>2, <1>6, <1>7 DEF Folds
<1>9. it = [s \in SUBSET DOMAIN gone |-> IF s = {} THEN list
                 ELSE LET x == Max(s) IN giveBack(it[s \ {x}], gone[x])]
  BY <1>8
<1> HIDE DEF it
<1>10. \A s \in SUBSET (1 .. n) :
          it[s] = IF s = {} THEN list ELSE giveBack(it[s \ {Max(s)}], gone[Max(s)])
  BY <1>2, <1>9
<1> DEFINE given(s) == ToSet(list) \union {gone[i] : i \in s}
           Good == {s \in SUBSET (1 .. n) : Lists(it[s], given(s), P)}
<1>11. {} \in Good
  <2>1. it[{}] = list
    BY <1>10
  <2>2. given({}) = ToSet(list)
    OBVIOUS
  <2> QED
    BY <2>1, <2>2 DEF Lists
<1>12. ASSUME NEW s \in SUBSET (1 .. n), s # {}, s \ {Max(s)} \in Good
       PROVE  s \in Good
  <2> DEFINE x == Max(s)
             r == s \ {x}
  <2>1. x \in s /\ x \in 1 .. n
    BY <1>2, <1>12, MaxIsIn
  <2>2. it[s] = giveBack(it[r], gone[x])
    BY <1>10, <1>12
  <2>3. Lists(it[r], given(r), P)
    BY <1>12
  <2> HIDE DEF x
  <2>4. gone[x] \in P /\ gone[x] \notin given(r)
    <3>1. gone[x] \in ToSet(gone)
      BY <1>2, <2>1 DEF ToSet
    <3>2. \A i \in r : gone[i] # gone[x]
      BY <1>2, <2>1 DEF IsInjective
    <3> QED
      BY <1>2, <2>1, <3>1, <3>2
  <2>5. given(s) = given(r) \union {gone[x]}
    BY <2>1
  <2> HIDE DEF given, r
  <2>6. Lists(it[s], given(s), P)
    <3>1. it[r] \in Seq(P) /\ IsInjective(it[r]) /\ ToSet(it[r]) = given(r)
      BY <2>3 DEF Lists
    <3> QED
      BY <2>2, <2>4, <2>5, <3>1, GivesBackOne
  <2> QED
    BY <2>6
<1> HIDE DEF Good
<1>13. \A s \in SUBSET (1 .. n) : s \in Good
  BY <1>2, <1>11, <1>12, SetsOfPlaces
<1>14. (1 .. n) \in Good
  BY <1>13
<1>15. {gone[i] : i \in 1 .. n} = ToSet(gone)
  BY <1>2 DEF ToSet
<1> QED
  BY <1>1, <1>2, <1>14, <1>15 DEF Good

-----------------------------------------------------------------------------
\* The shape of the trees.

\* What is always true of the trees and the tokens in use.
TreeShape(tr, alloc) ==
    /\ Sound(tr)
    /\ Root \in DOMAIN tr /\ tr[Root].box = World /\ tr[Root].parent = NoTree
    /\ alloc \subseteq DOMAIN tr
    /\ \A u \in DOMAIN tr : Below(tr, Root, u) => u \in alloc /\ Quartered(tr, u)
    /\ \A u \in alloc : tr[u].leaf_node => Below(tr, Root, u)
    /\ \A u \in DOMAIN tr \ alloc : tr[u].leaf_node

\* The trees stay sound when a leaf gets children whose places are new or were
\* given back.
LEMMA SplitSound ==
    ASSUME NEW tr, Sound(tr), NEW t \in DOMAIN tr, NEW W, NEW kids \in [Child -> W],
           NoTree \notin W, t \notin W, NEW ur, Grown(tr, t, kids, ur)
    PROVE  Sound(ur)
<1> DEFINE D == DOMAIN tr
           K == {kids[k] : k \in Child}
           E == D \union K
<1>1. ur \in [E -> Node(E)] /\ DOMAIN ur = E /\ NoTree \notin E /\ t \notin K
  BY DEF Grown, Sound
<1>2. \A u \in K : ur[u].leaf_node = TRUE /\ ur[u].children = NoChildren
  BY DEF Grown
<1>3. ur[t].leaf_node = FALSE /\ ur[t].children = kids
  BY DEF Grown
<1>4. \A u \in D \ K : u # t => /\ ur[u].leaf_node = tr[u].leaf_node
                               /\ ur[u].children = tr[u].children
  BY DEF Grown
<1>5. \A k \in Child : kids[k] \in K
  OBVIOUS
<1> HIDE DEF K
<1>6. \A u \in E : u \in K \/ u = t \/ (u \in D \ K /\ u # t)
  OBVIOUS
<1>7. LeavesChildless(ur)
  <2> SUFFICES ASSUME NEW u \in E
               PROVE  IF ur[u].leaf_node THEN ur[u].children = NoChildren
                      ELSE \A k \in Child : ur[u].children[k] \in E
    BY <1>1 DEF LeavesChildless
  <2>1. CASE u \in K
    BY <1>2, <2>1
  <2>2. CASE u = t
    BY <1>3, <1>5, <2>2
  <2>3. CASE u \in D \ K /\ u # t
    <3>1. IF tr[u].leaf_node THEN tr[u].children = NoChildren
          ELSE \A k \in Child : tr[u].children[k] \in D
      BY <2>3 DEF Sound, LeavesChildless
    <3> QED
      BY <1>4, <2>3, <3>1
  <2> QED
    BY <1>6, <2>1, <2>2, <2>3
<1>8. PICK m, b : Heights(tr, m, b)
  BY DEF Sound
<1> DEFINE h == [u \in E |-> IF u \in K THEN 0 ELSE m[u] + 1]
<1>9. b \in Nat /\ \A u \in D : m[u] \in Nat /\ m[u] < b
  BY <1>8 DEF Heights
<1>10. \A u \in E : h[u] = IF u \in K THEN 0 ELSE m[u] + 1
  OBVIOUS
<1>11. h \in [E -> Nat] /\ b + 1 \in Nat /\ \A u \in E : h[u] < b + 1
  BY <1>9
<1> HIDE DEF h
<1>12. ASSUME NEW u \in E, ~ur[u].leaf_node, NEW k \in Child
       PROVE  h[ur[u].children[k]] < h[u]
  <2>1. u \notin K
    BY <1>2, <1>12
  <2>2. CASE u = t
    <3>1. h[kids[k]] = 0
      BY <1>5, <1>10
    <3> QED
      BY <1>3, <1>9, <1>10, <2>1, <2>2, <3>1
  <2>3. CASE u \in D \ K /\ u # t
    <3> DEFINE c == tr[u].children[k]
    <3>1. c \in D /\ m[c] < m[u]
      BY <1>4, <1>8, <1>12, <2>3 DEF Sound, LeavesChildless, Heights
    <3>2. ur[u].children[k] = c
      BY <1>4, <2>3
    <3> HIDE DEF c
    <3> QED
      BY <1>9, <1>10, <2>1, <2>3, <3>1, <3>2
  <2> QED
    BY <1>6, <2>1, <2>2, <2>3
<1>13. Heights(ur, h, b + 1)
  BY <1>1, <1>11, <1>12 DEF Heights
<1> QED
  BY <1>1, <1>7, <1>13 DEF Sound

\* A split adds the children to what is reached from the root.
LEMMA SplitReach ==
    ASSUME NEW tr, NEW alloc, TreeShape(tr, alloc), NEW t \in DOMAIN tr,
           Below(tr, Root, t), tr[t].leaf_node, NEW W, NEW kids \in [Child -> W],
           NoTree \notin W, W \cap alloc = {}, NEW ur, Grown(tr, t, kids, ur)
    PROVE  \A u \in DOMAIN ur :
              Below(ur, Root, u) <=> \/ u \in {kids[k] : k \in Child}
                                     \/ u \in DOMAIN tr /\ Below(tr, Root, u)
<1> DEFINE D == DOMAIN tr
           K == {kids[k] : k \in Child}
           E == D \union K
           S == K \union {u \in D : Below(tr, Root, u)}
<1>1. Sound(tr) /\ t \in alloc /\ t \notin W
  BY DEF TreeShape
<1>2. Sound(ur)
  BY <1>1, SplitSound
<1>3. DOMAIN ur = E /\ NoTree \notin D /\ NoTree \notin K /\ t \notin K
  BY <1>1 DEF Grown, Sound
<1>4. /\ \A u \in K : ur[u].parent = t /\ ur[u].children = NoChildren
      /\ ur[t].children = kids /\ ur[t].parent = tr[t].parent
      /\ \A u \in D \ K : /\ ur[u].parent = tr[u].parent
                          /\ u # t => ur[u].children = tr[u].children
  BY DEF Grown
<1>5. \A u \in D : tr[u].leaf_node => tr[u].children = NoChildren
  BY <1>1 DEF Sound, LeavesChildless
<1>6. \A u \in D : u \in K => tr[u].leaf_node
  BY DEF TreeShape
<1>7. \A u \in D : tr[u].parent \in {NoTree} \union D
  <2> SUFFICES ASSUME NEW u \in D PROVE tr[u].parent \in {NoTree} \union D
    OBVIOUS
  <2>1. tr[u] \in Node(D)
    BY <1>1 DEF Sound
  <2> QED
    BY <2>1 DEF Node
<1>8. \A u : u # NoTree => u \notin Range(NoChildren)
  BY DEF Range, NoChildren
<1>9. Range(kids) = K
  BY DEF Range
<1>10. t # NoTree
  BY <1>3
<1> HIDE DEF K
<1>11. ASSUME NEW u \in K
       PROVE  Attached(ur, u)
  BY <1>4, <1>9, <1>10 DEF Attached
<1>12. ASSUME NEW u \in D \ K
       PROVE  Attached(ur, u) <=> Attached(tr, u)
  <2> DEFINE p == tr[u].parent
  <2>1. ur[u].parent = p /\ u # NoTree
    BY <1>3, <1>4
  <2>2. CASE p = NoTree
    BY <2>1, <2>2 DEF Attached
  <2>3. CASE p \in K
    <3>1. p # NoTree /\ p \in D
      BY <1>3, <1>7, <2>3
    <3>2. ur[p].children = NoChildren /\ tr[p].children = NoChildren
      BY <1>4, <1>5, <1>6, <2>3, <3>1
    <3> QED
      BY <1>8, <2>1, <3>2 DEF Attached
  <2>4. CASE p = t
    <3>1. tr[p].children = NoChildren /\ ur[p].children = kids
      BY <1>4, <1>5, <2>4
    <3> QED
      BY <1>8, <1>9, <2>1, <3>1 DEF Attached
  <2>5. CASE p \in D \ K /\ p # t
    <3>1. ur[p].children = tr[p].children
      BY <1>4, <2>5
    <3> QED
      BY <2>1, <3>1 DEF Attached
  <2> QED
    BY <1>7, <2>2, <2>3, <2>4, <2>5
<1>13. ASSUME NEW u \in D \ K, Attached(tr, u)
       PROVE  tr[u].parent \in D \ K
  <2>1. tr[u].parent \in D /\ ~tr[tr[u].parent].leaf_node
    BY <1>1, <1>13, AttachedUp DEF Sound
  <2> QED
    BY <1>6, <2>1
<1>14. ASSUME NEW u \in E
       PROVE  u \in S <=> \/ u = Root
                          \/ Attached(ur, u) /\ ur[u].parent \in S
  <2>1. CASE u \in K
    <3>1. ur[u].parent = t /\ t \in S
      BY <1>4, <2>1
    <3> QED
      BY <1>11, <2>1, <3>1
  <2>2. CASE u \in D \ K
    <3>1. u \in S <=> Below(tr, Root, u)
      BY <2>2
    <3>2. Below(tr, Root, u) <=> \/ u = Root
                                 \/ Attached(tr, u) /\ Below(tr, Root, tr[u].parent)
      BY <1>1, <2>2, ReachEquation
    <3>3. Attached(tr, u) => (tr[u].parent \in S <=> Below(tr, Root, tr[u].parent))
      BY <1>13, <2>2
    <3>4. ur[u].parent = tr[u].parent
      BY <1>4, <2>2
    <3> HIDE DEF S
    <3> QED
      BY <1>12, <2>2, <3>1, <3>2, <3>3, <3>4
  <2> QED
    BY <2>1, <2>2
<1> HIDE DEF S
<1>15. \A u \in E : Below(ur, Root, u) <=> u \in S
  BY <1>2, <1>3, <1>14, ReachOnly
<1> QED
  BY <1>3, <1>15 DEF S, K

\* A split keeps the shape.
LEMMA SplitShape ==
    ASSUME NEW tr, NEW alloc, TreeShape(tr, alloc), NEW t \in DOMAIN tr,
           Below(tr, Root, t), tr[t].leaf_node, tr[t].box.size % 2 = 0,
           NEW W, NEW kids \in [Child -> W],
           \A j, k \in Child : kids[j] = kids[k] => j = k,
           NoTree \notin W, W \cap alloc = {}, NEW ur, Grown(tr, t, kids, ur)
    PROVE  TreeShape(ur, alloc \union {kids[k] : k \in Child})
<1> DEFINE D == DOMAIN tr
           K == {kids[k] : k \in Child}
           E == D \union K
<1>1. /\ Sound(tr) /\ t \in alloc /\ t \notin W /\ alloc \subseteq D
      /\ Root \in D /\ tr[Root].box = World /\ tr[Root].parent = NoTree
  BY DEF TreeShape
<1>2. Sound(ur)
  BY <1>1, SplitSound
<1>3. DOMAIN ur = E /\ t \notin K /\ K \cap alloc = {}
  BY <1>1 DEF Grown
<1>4. /\ \A k \in Child : /\ ur[kids[k]].parent = t /\ ur[kids[k]].leaf_node = TRUE
                          /\ ur[kids[k]].box = childBox(tr[t].box, k)
      /\ ur[t].children = kids /\ ur[t].box = tr[t].box /\ ur[t].leaf_node = FALSE
      /\ \A u \in D \ K : /\ ur[u].parent = tr[u].parent /\ ur[u].box = tr[u].box
                          /\ u # t => /\ ur[u].children = tr[u].children
                                      /\ ur[u].leaf_node = tr[u].leaf_node
  BY DEF Grown
<1>5. \A k \in Child : kids[k] \in K
  OBVIOUS
<1>6. \A u \in K : ur[u].leaf_node
  BY <1>4
<1>7. \A u \in E : Below(ur, Root, u) <=> u \in K \/ (u \in D /\ Below(tr, Root, u))
  <2>1. \A u \in DOMAIN ur :
           Below(ur, Root, u) <=> \/ u \in {kids[k] : k \in Child}
                                  \/ u \in DOMAIN tr /\ Below(tr, Root, u)
    BY SplitReach
  <2> QED
    BY <1>3, <2>1
<1> HIDE DEF K
<1>8. Root \in alloc
  <2>1. Below(tr, Root, Root)
    BY <1>1, ReachEquation
  <2> QED
    BY <1>1, <2>1 DEF TreeShape
<1>9. Root \in E /\ ur[Root].box = World /\ ur[Root].parent = NoTree
  BY <1>1, <1>3, <1>4, <1>8
<1>10. alloc \union K \subseteq E
  BY <1>1
<1>11. ASSUME NEW u \in E, Below(ur, Root, u)
       PROVE  u \in alloc \union K /\ Quartered(ur, u)
  <2>1. u \in K \/ (u \in D \ K /\ Below(tr, Root, u))
    BY <1>7, <1>11
  <2>2. u \in alloc \union K
    BY <2>1 DEF TreeShape
  <2>3. CASE u \in K
    BY <1>6, <2>2, <2>3 DEF Quartered
  <2>4. CASE u = t
    BY <1>3, <1>4, <1>5, <2>2, <2>4 DEF Quartered
  <2>5. CASE u \in D \ K /\ Below(tr, Root, u) /\ u # t
    <3> SUFFICES ASSUME ~ur[u].leaf_node PROVE Quartered(ur, u)
      BY <2>2 DEF Quartered
    <3>1. ur[u].children = tr[u].children /\ ~tr[u].leaf_node /\ ur[u].box = tr[u].box
      BY <1>4, <2>5
    <3>2. Quartered(tr, u)
      BY <2>5 DEF TreeShape
    <3>3. ASSUME NEW k \in Child
          PROVE  /\ tr[u].children[k] \in E
                 /\ ur[tr[u].children[k]].parent = u
                 /\ ur[tr[u].children[k]].box = childBox(tr[u].box, k)
      <4> DEFINE c == tr[u].children[k]
      <4>1. c \in D /\ tr[c].parent = u /\ tr[c].box = childBox(tr[u].box, k)
        BY <3>1, <3>2 DEF Quartered
      <4>2. Attached(tr, c)
        BY <1>1, <2>5, <4>1, ChildAttached
      <4> HIDE DEF c
      <4>3. Below(tr, Root, c)
        BY <1>1, <2>5, <4>1, <4>2, ReachEquation
      <4>4. c \in D \ K
        BY <1>3, <4>1, <4>3 DEF TreeShape
      <4> QED
        BY <1>4, <4>1, <4>4 DEF c
    <3>4. /\ tr[u].box.size % 2 = 0
          /\ \A j, k \in Child : tr[u].children[j] = tr[u].children[k] => j = k
      BY <3>1, <3>2 DEF Quartered
    <3> QED
      BY <1>3, <3>1, <3>3, <3>4 DEF Quartered
  <2> QED
    BY <2>1, <2>2, <2>3, <2>4, <2>5
<1>12. ASSUME NEW u \in alloc \union K, ur[u].leaf_node
       PROVE  Below(ur, Root, u)
  <2>1. CASE u \in K
    BY <1>7, <2>1
  <2>2. CASE u \in alloc
    <3>1. u \in D \ K /\ u # t
      BY <1>1, <1>3, <1>4, <1>12, <2>2
    <3>2. Below(tr, Root, u)
      BY <1>4, <1>12, <2>2, <3>1 DEF TreeShape
    <3> QED
      BY <1>7, <3>1, <3>2
  <2> QED
    BY <2>1, <2>2
<1>13. ASSUME NEW u \in E \ (alloc \union K)
       PROVE  ur[u].leaf_node
  <2>1. u \in D \ K /\ u # t /\ u \in D \ alloc
    BY <1>1, <1>13
  <2> QED
    BY <1>4, <2>1 DEF TreeShape
<1>14. TreeShape(ur, alloc \union K)
  BY <1>2, <1>3, <1>9, <1>10, <1>11, <1>12, <1>13 DEF TreeShape
<1> QED
  BY <1>14 DEF K

\* The trees stay sound when one becomes a leaf.
LEMMA MergeSound ==
    ASSUME NEW tr, Sound(tr), NEW t \in DOMAIN tr, NEW ur, Merged(tr, t, ur)
    PROVE  Sound(ur)
<1> DEFINE D == DOMAIN tr
<1>1. ur \in [D -> Node(D)] /\ DOMAIN ur = D /\ NoTree \notin D
  BY DEF Merged, Sound
<1>2. ur[t].leaf_node = TRUE /\ ur[t].children = NoChildren
  BY DEF Merged
<1>3. \A u \in D : u # t => /\ ur[u].leaf_node = tr[u].leaf_node
                           /\ ur[u].children = tr[u].children
  BY DEF Merged
<1>4. LeavesChildless(ur)
  BY <1>1, <1>2, <1>3 DEF Sound, LeavesChildless
<1>5. PICK m, b : Heights(tr, m, b)
  BY DEF Sound
<1>6. Heights(ur, m, b)
  BY <1>1, <1>2, <1>3, <1>5 DEF Heights
<1> QED
  BY <1>1, <1>4, <1>6 DEF Sound

\* A merge cuts off what was below t.
LEMMA MergeReach ==
    ASSUME NEW tr, NEW alloc, TreeShape(tr, alloc), NEW t \in DOMAIN tr,
           Below(tr, Root, t), NEW ur, Merged(tr, t, ur)
    PROVE  \A u \in DOMAIN tr :
              Below(ur, Root, u) <=> Below(tr, Root, u) /\ (u = t \/ ~Below(tr, t, u))
<1> DEFINE D == DOMAIN tr
           S == {u \in D : Below(tr, Root, u) /\ (u = t \/ ~Below(tr, t, u))}
<1>1. /\ Sound(tr) /\ Root \in D /\ tr[Root].parent = NoTree
      /\ DOMAIN ur = D /\ NoTree \notin D
  BY DEF TreeShape, Merged, Sound
<1>2. Sound(ur)
  BY <1>1, MergeSound
<1>3. PICK m, b : Heights(tr, m, b)
  BY <1>1 DEF Sound
<1>4. \A u \in D : m[u] \in Nat
  BY <1>3 DEF Heights
<1>5. /\ ur[t].children = NoChildren
      /\ \A u \in D : /\ ur[u].parent = tr[u].parent
                      /\ u # t => ur[u].children = tr[u].children
  BY DEF Merged
<1>6. \A u \in D : tr[u].parent \in {NoTree} \union D
  <2> SUFFICES ASSUME NEW u \in D PROVE tr[u].parent \in {NoTree} \union D
    OBVIOUS
  <2>1. tr[u] \in Node(D)
    BY <1>1 DEF Sound
  <2> QED
    BY <2>1 DEF Node
<1>7. ASSUME NEW u \in D
      PROVE  Attached(ur, u) <=> Attached(tr, u) /\ tr[u].parent # t
  <2>1. CASE tr[u].parent = t
    <3>1. u \notin Range(NoChildren)
      BY <1>1 DEF Range, NoChildren
    <3> QED
      BY <1>5, <2>1, <3>1 DEF Attached
  <2>2. CASE tr[u].parent # t
    BY <1>5, <1>6, <2>2 DEF Attached
  <2> QED
    BY <2>1, <2>2
<1>8. \A u \in D : Attached(tr, u) => tr[u].parent \in D /\ m[u] < m[tr[u].parent]
  BY <1>1, <1>3, AttachedUp
<1>9. \A w, u \in D : Below(tr, w, u) => m[u] <= m[w]
  BY <1>1, <1>3, BelowLower
<1>10. \A w, u \in D : Below(tr, w, u) <=> u = w \/ (Attached(tr, u) /\ Below(tr, w, tr[u].parent))
  BY <1>1, ReachEquation
<1>11. ASSUME NEW u \in D, u \in S, u # Root
       PROVE  Attached(ur, u) /\ ur[u].parent \in S
  <2> DEFINE p == tr[u].parent
  <2>1. Attached(tr, u) /\ Below(tr, Root, p) /\ p \in D /\ m[u] < m[p]
    BY <1>1, <1>8, <1>10, <1>11
  <2>2. Below(tr, t, p) => u = t
    BY <1>10, <1>11, <2>1
  <2>3. ~Below(tr, t, p)
    BY <1>4, <1>9, <2>1, <2>2
  <2>4. p # t
    BY <1>10, <2>3
  <2> QED
    BY <1>5, <1>7, <2>1, <2>3, <2>4
<1>12. ASSUME NEW u \in D, Attached(ur, u), ur[u].parent \in S
       PROVE  u \in S
  <2> DEFINE p == tr[u].parent
  <2>1. Attached(tr, u) /\ p # t /\ p \in S /\ p \in D
    BY <1>5, <1>7, <1>12
  <2>2. Below(tr, Root, u)
    BY <1>1, <1>10, <2>1
  <2>3. Below(tr, t, u) => u = t
    BY <1>10, <2>1
  <2> QED
    BY <2>2, <2>3
<1>13. Root \in S
  <2>1. Below(tr, Root, Root)
    BY <1>1, <1>10
  <2>2. ~Attached(tr, Root)
    BY <1>1 DEF Attached
  <2>3. Below(tr, t, Root) => Root = t
    BY <1>1, <1>10, <2>2
  <2> QED
    BY <1>1, <2>1, <2>3
<1> HIDE DEF S
<1>14. \A u \in DOMAIN ur : u \in S <=> u = Root \/ (Attached(ur, u) /\ ur[u].parent \in S)
  BY <1>1, <1>11, <1>12, <1>13
<1>15. \A u \in DOMAIN ur : Below(ur, Root, u) <=> u \in S
  BY <1>2, <1>14, ReachOnly
<1> QED
  BY <1>1, <1>15 DEF S

\* A merge keeps the shape.
LEMMA MergeKeepsShape ==
    ASSUME NEW tr, NEW alloc, TreeShape(tr, alloc), NEW t \in DOMAIN tr,
           Below(tr, Root, t), NEW ur, Merged(tr, t, ur)
    PROVE  TreeShape(ur, alloc \ LeavesBelow(tr, t))
<1> DEFINE D == DOMAIN tr
           gone == LeavesBelow(tr, t)
<1>1. /\ Sound(tr) /\ t \in alloc /\ alloc \subseteq D /\ DOMAIN ur = D
      /\ Root \in D /\ tr[Root].box = World /\ tr[Root].parent = NoTree
  BY DEF TreeShape, Merged
<1>2. Sound(ur)
  BY <1>1, MergeSound
<1>3. /\ ur[t].leaf_node = TRUE
      /\ \A u \in D : /\ ur[u].box = tr[u].box /\ ur[u].parent = tr[u].parent
                      /\ u # t => /\ ur[u].leaf_node = tr[u].leaf_node
                                  /\ ur[u].children = tr[u].children
  BY DEF Merged
<1>4. \A u \in D :
         Below(ur, Root, u) <=> Below(tr, Root, u) /\ (u = t \/ ~Below(tr, t, u))
  BY MergeReach
<1>5. \A u \in D : u \in gone <=> Below(tr, t, u) /\ u # t /\ tr[u].leaf_node
  BY DEF LeavesBelow
<1>6. gone \subseteq D
  BY DEF LeavesBelow
<1> HIDE DEF gone
<1>7. ASSUME NEW u \in D, Below(ur, Root, u)
      PROVE  u \in alloc \ gone /\ Quartered(ur, u)
  <2>1. Below(tr, Root, u) /\ (u = t \/ ~Below(tr, t, u))
    BY <1>4, <1>7
  <2>2. u \in alloc \ gone /\ Quartered(tr, u)
    BY <1>5, <2>1 DEF TreeShape
  <2>3. Quartered(ur, u)
    <3> SUFFICES ASSUME ~ur[u].leaf_node PROVE Quartered(ur, u)
      BY DEF Quartered
    <3>1. ~tr[u].leaf_node /\ ur[u].children = tr[u].children /\ ur[u].box = tr[u].box
      BY <1>3
    <3>2. /\ tr[u].box.size % 2 = 0
          /\ \A k \in Child : /\ tr[u].children[k] \in D
                              /\ tr[tr[u].children[k]].parent = u
                              /\ tr[tr[u].children[k]].box = childBox(tr[u].box, k)
          /\ \A j, k \in Child : tr[u].children[j] = tr[u].children[k] => j = k
      BY <2>2, <3>1 DEF Quartered
    <3>3. \A k \in Child : /\ ur[tr[u].children[k]].parent = u
                           /\ ur[tr[u].children[k]].box = childBox(tr[u].box, k)
      BY <1>3, <3>2
    <3> QED
      BY <1>1, <3>1, <3>2, <3>3 DEF Quartered
  <2> QED
    BY <2>2, <2>3
<1>8. ASSUME NEW u \in alloc \ gone, ur[u].leaf_node
      PROVE  Below(ur, Root, u)
  <2>0. u \in D
    BY <1>1
  <2>1. CASE u = t
    BY <1>4, <2>1
  <2>2. CASE u # t
    <3>1. tr[u].leaf_node
      BY <1>3, <1>8, <2>0, <2>2
    <3>2. Below(tr, Root, u)
      BY <3>1 DEF TreeShape
    <3>3. ~Below(tr, t, u)
      BY <1>5, <2>0, <2>2, <3>1
    <3> QED
      BY <1>4, <2>0, <3>2, <3>3
  <2> QED
    BY <2>1, <2>2
<1>9. ASSUME NEW u \in D \ (alloc \ gone)
      PROVE  ur[u].leaf_node
  <2>1. tr[u].leaf_node
    <3>1. CASE u \in gone
      BY <1>5, <3>1
    <3>2. CASE u \in D \ alloc
      BY <3>2 DEF TreeShape
    <3> QED
      BY <3>1, <3>2
  <2> QED
    BY <1>3, <2>1
<1>10. Root \in DOMAIN ur /\ ur[Root].box = World /\ ur[Root].parent = NoTree
  BY <1>1, <1>3
<1>11. alloc \ gone \subseteq DOMAIN ur
  BY <1>1
<1>12. TreeShape(ur, alloc \ gone)
  BY <1>1, <1>2, <1>7, <1>8, <1>9, <1>10, <1>11 DEF TreeShape
<1> QED
  BY <1>12 DEF gone

-----------------------------------------------------------------------------
\* The registry.

\* The tokens given so far are those below next, and the list has those of
\* them that are not in use, each once.
Registry(tr, alloc, list, next) ==
    /\ next \in Nat \ {0} /\ DOMAIN tr = 1 .. next - 1
    /\ Lists(list, DOMAIN tr \ alloc, DOMAIN tr)

\* Four tokens are taken: from the list while it has some, fresh ones then.
Taken(list, next, kids) ==
    kids = [k \in Child |-> IF k <= Len(list) THEN list[k]
                            ELSE next + k - Len(list) - 1]

\* The tokens a split takes are four, not in use, and the given ones stay
\* the first numbers.
LEMMA TakenTokens ==
    ASSUME NEW tr, NEW alloc, NEW list, NEW next, Registry(tr, alloc, list, next),
           alloc \subseteq DOMAIN tr, NEW kids, Taken(list, next, kids)
    PROVE  /\ \A j, k \in Child : kids[j] = kids[k] => j = k
           /\ \A k \in Child : kids[k] \notin alloc /\ kids[k] # NoTree
           /\ DOMAIN tr \union {kids[k] : k \in Child}
                = 1 .. (IF Len(list) < 4 THEN next + 4 - Len(list) ELSE next) - 1
<1> DEFINE D == DOMAIN tr
           L == Len(list)
           E == 1 .. (IF L < 4 THEN next + 4 - L ELSE next) - 1
<1>1. /\ next \in Nat \ {0} /\ D = 1 .. next - 1
      /\ list \in Seq(D) /\ ToSet(list) = D \ alloc /\ IsInjective(list)
  BY DEF Registry, Lists
<1>2. L \in Nat /\ DOMAIN list = 1 .. L
  BY <1>1, LenProperties
<1>3. \A i \in 1 .. L : list[i] \in D \ alloc
  BY <1>1, <1>2 DEF ToSet
<1>4. \A i, j \in 1 .. L : list[i] = list[j] => i = j
  BY <1>1, <1>2 DEF IsInjective
<1> HIDE DEF L
<1>5. \A k \in Child : kids[k] = IF k <= L THEN list[k] ELSE next + k - L - 1
  BY DEF Taken, L
<1>6. Child = 1 .. 4
  BY DEF Child
<1>7. \A k \in Child : k <= L => kids[k] = list[k] /\ k \in 1 .. L /\ kids[k] \in 1 .. next - 1
  BY <1>1, <1>2, <1>3, <1>5, <1>6
<1>8. \A k \in Child : k > L => kids[k] = next + k - L - 1 /\ kids[k] >= next
  BY <1>1, <1>2, <1>5, <1>6
<1>9. ASSUME NEW j \in Child, NEW k \in Child, kids[j] = kids[k]
      PROVE  j = k
  <2>1. CASE j <= L /\ k <= L
    BY <1>4, <1>7, <1>9, <2>1
  <2>2. CASE j > L /\ k > L
    BY <1>1, <1>2, <1>6, <1>8, <1>9, <2>2
  <2>3. CASE (j <= L /\ k > L) \/ (j > L /\ k <= L)
    BY <1>1, <1>7, <1>8, <1>9, <2>3
  <2> QED
    BY <1>2, <1>6, <2>1, <2>2, <2>3
<1>10. ASSUME NEW k \in Child
       PROVE  kids[k] \notin alloc /\ kids[k] # NoTree
  <2>1. CASE k <= L
    BY <1>1, <1>3, <1>7, <2>1 DEF NoTree
  <2>2. CASE k > L
    BY <1>1, <1>8, <2>2 DEF NoTree
  <2> QED
    BY <1>2, <1>6, <2>1, <2>2
<1>11. ASSUME NEW k \in Child
       PROVE  kids[k] \in E
  <2>1. CASE k <= L
    BY <1>1, <1>2, <1>7, <2>1
  <2>2. CASE k > L
    BY <1>1, <1>2, <1>6, <1>8, <2>2
  <2> QED
    BY <1>2, <1>6, <2>1, <2>2
<1>12. ASSUME NEW u \in E, u \notin D
       PROVE  \E k \in Child : u = kids[k]
  <2>1. u \in Int /\ u >= next /\ L < 4 /\ u <= next + 3 - L
    BY <1>1, <1>2, <1>12
  <2>2. u - next + L + 1 \in Child /\ u - next + L + 1 > L
    BY <1>1, <1>2, <1>6, <2>1
  <2>3. kids[u - next + L + 1] = next + (u - next + L + 1) - L - 1
    BY <1>8, <2>2
  <2> QED
    BY <1>1, <1>2, <2>1, <2>2, <2>3
<1>13. D \subseteq E
  BY <1>1, <1>2
<1>14. D \union {kids[k] : k \in Child} = E
  <2> HIDE DEF E, D
  <2> QED
    BY <1>11, <1>12, <1>13
<1> QED
  BY <1>9, <1>10, <1>14 DEF L

\* The list without its first four.
LEMMA TakenList ==
    ASSUME NEW tr, NEW alloc, NEW list, NEW next, Registry(tr, alloc, list, next),
           alloc \subseteq DOMAIN tr, NEW kids, Taken(list, next, kids)
    PROVE  LET K == {kids[k] : k \in Child}
               E == DOMAIN tr \union K
           IN  Lists(SubSeq(list, 5, Len(list)), E \ (alloc \union K), E)
<1> DEFINE D == DOMAIN tr
           K == {kids[k] : k \in Child}
           E == D \union K
           L == Len(list)
           rest == SubSeq(list, 5, Len(list))
<1>1. /\ next \in Nat \ {0} /\ D = 1 .. next - 1
      /\ list \in Seq(D) /\ ToSet(list) = D \ alloc /\ IsInjective(list)
  BY DEF Registry, Lists
<1>2. L \in Nat /\ DOMAIN list = 1 .. L /\ \A i \in 1 .. L : list[i] \in D
  BY <1>1, LenProperties, ElementOfSeq
<1>3. \A i, j \in 1 .. L : list[i] = list[j] => i = j
  BY <1>1, <1>2 DEF IsInjective
<1>4. /\ rest \in Seq(D)
      /\ Len(rest) = IF 5 <= L THEN L - 4 ELSE 0
      /\ \A i \in 1 .. L - 4 : rest[i] = list[i + 4]
  BY <1>1, <1>2
<1>5. DOMAIN rest = 1 .. Len(rest) /\ Len(rest) \in Nat
  BY <1>4, LenProperties
<1> DEFINE n == Len(rest)
<1>5a. n \in Nat /\ (L >= 5 => n = L - 4) /\ (L < 5 => n = 0)
  BY <1>2, <1>4
<1> HIDE DEF rest, L
<1>5b. \A i \in 1 .. n : L >= 5 /\ i \in 1 .. L - 4 /\ i + 4 \in 1 .. L
  <2> HIDE DEF n
  <2> QED
    BY <1>2, <1>5a
<1>6. \A i \in 1 .. Len(rest) : L >= 5 /\ i \in 1 .. L - 4 /\ i + 4 \in 1 .. L
  BY <1>5b
<1>7. \A k \in Child : /\ k \in 1 .. 4
                       /\ k <= L => kids[k] = list[k] /\ k \in 1 .. L
  BY <1>2 DEF Taken, Child, L
<1>8. ASSUME NEW i \in 1 .. Len(rest)
      PROVE  rest[i] \in D /\ rest[i] \notin alloc /\ rest[i] \notin K
  <2>1. rest[i] = list[i + 4] /\ i + 4 \in 1 .. L /\ L >= 5
    BY <1>2, <1>4, <1>6
  <2>2. rest[i] \in ToSet(list)
    BY <1>2, <2>1 DEF ToSet
  <2>3. ASSUME NEW k \in Child PROVE kids[k] # rest[i]
    <3>1. kids[k] = list[k] /\ k \in 1 .. L /\ k # i + 4
      BY <1>2, <1>7, <2>1
    <3> QED
      BY <1>3, <2>1, <3>1
  <2> QED
    BY <1>1, <2>2, <2>3
<1>9. ASSUME NEW u \in E, u \notin alloc, u \notin K
      PROVE  \E i \in 1 .. Len(rest) : rest[i] = u
  <2>1. u \in ToSet(list)
    BY <1>1, <1>9
  <2>2. PICK j \in 1 .. L : list[j] = u
    BY <1>2, <2>1 DEF ToSet
  <2>3. j > 4
    <3> SUFFICES ASSUME j <= 4 PROVE FALSE
      BY <1>2
    <3>1. j \in Child
      BY <1>2 DEF Child
    <3>2. kids[j] = list[j]
      BY <1>2, <1>7, <3>1
    <3> QED
      BY <1>9, <2>2, <3>1, <3>2
  <2>4. j - 4 \in 1 .. Len(rest) /\ j - 4 \in 1 .. L - 4 /\ (j - 4) + 4 = j
    <3>1. j - 4 \in 1 .. n
      <4> HIDE DEF n
      <4> QED
        BY <1>2, <1>5a, <2>3
    <3> QED
      BY <1>2, <2>3, <3>1
  <2>5. rest[j - 4] = list[(j - 4) + 4]
    BY <1>4, <2>4
  <2> QED
    BY <2>2, <2>4, <2>5
<1>10. ToSet(rest) = E \ (alloc \union K)
  <2> HIDE DEF K
  <2>1. \A u : u \in ToSet(rest) <=> \E i \in 1 .. Len(rest) : rest[i] = u
    BY <1>5 DEF ToSet
  <2>2. \A u \in ToSet(rest) : u \in E \ (alloc \union K)
    BY <1>8, <2>1
  <2>3. \A u \in E \ (alloc \union K) : u \in ToSet(rest)
    BY <1>9, <2>1
  <2> QED
    BY <2>2, <2>3
<1>11. IsInjective(rest)
  <2>1. \A i, j \in 1 .. Len(rest) : rest[i] = rest[j] => i = j
    <3> SUFFICES ASSUME NEW i \in 1 .. Len(rest), NEW j \in 1 .. Len(rest), rest[i] = rest[j]
                 PROVE  i = j
      OBVIOUS
    <3>1. list[i + 4] = list[j + 4] /\ i + 4 \in 1 .. L /\ j + 4 \in 1 .. L
      BY <1>4, <1>6
    <3>2. i + 4 = j + 4
      BY <1>3, <3>1
    <3> QED
      BY <1>5, <3>2
  <2> QED
    BY <1>5, <2>1 DEF IsInjective
<1>12. rest \in Seq(E)
  <2>1. \A i \in 1 .. Len(rest) : rest[i] \in E
    BY <1>8
  <2>2. rest = [i \in 1 .. Len(rest) |-> rest[i]]
    BY <1>4, <1>5
  <2> HIDE DEF E
  <2> QED
    BY <1>5, <2>1, <2>2, IsASeq
<1> QED
  BY <1>10, <1>11, <1>12 DEF Lists, rest, L

-----------------------------------------------------------------------------
\* The inductive invariant.

\* The tree and its registry, when each request was about a tree of the tree.
TreeInv ==
    /\ TreeShape(tree, allocated)
    /\ Registry(tree, allocated, free, frontier)
    /\ asserts_hold \in BOOLEAN
    /\ requests \in 0 .. MaxRequests
    /\ orderly

\* What a walk down from the root meets is what is below the root.
LEMMA InTreeIsBelow == \A t : InTree(t) <=> Below(tree, Root, t)
BY DEF InTree, Below, Reach

\* The constructor makes a root without children.
LEMMA RootAloneShape == TreeShape(rootAlone, {Root}) /\ DOMAIN rootAlone = {Root}
<1> DEFINE D == {Root}
           tr == rootAlone
<1>1. DOMAIN tr = D /\ tr = [u \in D |-> tr[u]] /\ tr[Root] = newTree(World, NoTree)
  BY DEF rootAlone
<1> HIDE DEF tr
<1>2. newTree(World, NoTree) = [box |-> World, parent |-> NoTree, leaf_node |-> TRUE,
                                children |-> NoChildren, neighbors |-> [s \in Slot |-> NoTree]]
  BY DEF newTree, NoChildren
<1>3. NoChildren \in [Child -> {NoTree} \union D] /\ [s \in Slot |-> NoTree] \in [Slot -> {NoTree} \union D]
  BY DEF NoChildren
<1>4. /\ tr[Root] \in Node(D) /\ tr[Root].box = World /\ tr[Root].parent = NoTree
      /\ tr[Root].leaf_node = TRUE /\ tr[Root].children = NoChildren
  <2> HIDE DEF D
  <2> DEFINE none == [s \in Slot |-> NoTree]
  <2>1. none \in [Slot -> {NoTree} \union D]
    BY <1>3
  <2>2. tr[Root] = [box |-> World, parent |-> NoTree, leaf_node |-> TRUE,
                    children |-> NoChildren, neighbors |-> none]
    BY <1>1, <1>2
  <2> HIDE DEF none
  <2> QED
    BY <1>3, <2>1, <2>2, WorldAssumption DEF Node
<1>5. tr \in [D -> Node(D)] /\ NoTree \notin D
  BY <1>1, <1>4 DEF Root, NoTree
<1>6. LeavesChildless(tr)
  BY <1>1, <1>4 DEF LeavesChildless
<1>7. Heights(tr, [u \in D |-> 0], 1)
  BY <1>1, <1>4 DEF Heights
<1>8. Sound(tr)
  <2>1. \E m, b : Heights(tr, m, b)
    BY <1>7
  <2> QED
    BY <1>1, <1>5, <1>6, <2>1 DEF Sound
<1>9. Below(tr, Root, Root)
  BY <1>1, <1>8, ReachEquation
<1>10. TreeShape(tr, D)
  BY <1>1, <1>4, <1>8, <1>9 DEF TreeShape, Quartered
<1> QED
  BY <1>1, <1>10 DEF tr

\* A world that can be split starts in four.
LEMMA RootSplitShape ==
    ASSUME splittable(World)
    PROVE  TreeShape(rootSplit, 1 .. 5) /\ DOMAIN rootSplit = 1 .. 5
<1> DEFINE D == {Root}
           tr == rootAlone
           kids == [k \in Child |-> Root + k]
           W == 2 .. 5
<1>1. TreeShape(tr, D) /\ DOMAIN tr = D
  BY RootAloneShape
<1>2. Sound(tr) /\ tr \in [D -> Node(D)] /\ NoTree \notin D /\ tr[Root].box = World
  BY <1>1 DEF TreeShape, Sound
<1>3. tr[Root].leaf_node
  BY DEF rootAlone, newTree
<1>4. World.size % 2 = 0
  BY DEF splittable
<1>5. /\ kids \in [Child -> W] /\ NoTree \notin W /\ Root \notin W
      /\ \A j, k \in Child : kids[j] = kids[k] => j = k
      /\ W \cap D = {}
  BY DEF Child, NoTree, Root
<1>6. {kids[k] : k \in Child} = W
  <2>1. Child = {1, 2, 3, 4} /\ W = {2, 3, 4, 5}
    BY DEF Child
  <2>2. \A k \in Child : kids[k] = Root + k
    OBVIOUS
  <2> QED
    BY <2>1, <2>2 DEF Root
<1>7. rootSplit = split(tr, Root, kids)
  BY DEF rootSplit
<1> HIDE DEF tr, kids, W
<1>8. Root \in D
  OBVIOUS
<1> HIDE DEF D
<1>9. Grown(tr, Root, kids, rootSplit)
  BY <1>2, <1>4, <1>5, <1>7, <1>8, SplitGrows
<1>10. Below(tr, Root, Root)
  BY <1>1, <1>2, <1>8, ReachEquation
<1>11. TreeShape(rootSplit, D \union {kids[k] : k \in Child})
  BY <1>1, <1>2, <1>3, <1>4, <1>5, <1>8, <1>9, <1>10, SplitShape
<1>12. D \union W = 1 .. 5
  BY DEF D, W, Root
<1>13. DOMAIN rootSplit = D \union W
  BY <1>1, <1>6, <1>9 DEF Grown
<1> QED
  BY <1>6, <1>11, <1>12, <1>13

\* At the start no token was returned.
LEMMA NoneReturned ==
    ASSUME NEW tr, NEW next \in Nat \ {0}, DOMAIN tr = 1 .. next - 1
    PROVE  Registry(tr, 1 .. next - 1, << >>, next)
<1>1. /\ << >> \in Seq(DOMAIN tr) /\ ToSet(<< >>) = {} /\ IsInjective(<< >>)
  BY DEF ToSet, IsInjective
<1>2. DOMAIN tr \ (1 .. next - 1) = {}
  OBVIOUS
<1> QED
  BY <1>1, <1>2 DEF Registry, Lists

\* TreeInv holds at the start.
LEMMA TreeInit == Init => TreeInv
<1> SUFFICES ASSUME Init PROVE TreeInv
  OBVIOUS
<1>1. /\ tree = (IF splittable(World) THEN rootSplit ELSE rootAlone)
      /\ allocated = 1 .. firstFrontier - 1 /\ free = << >> /\ frontier = firstFrontier
  BY DEF Init
<1>2. TreeShape(tree, 1 .. firstFrontier - 1) /\ DOMAIN tree = 1 .. firstFrontier - 1
  <2>1. CASE splittable(World)
    <3>1. firstFrontier - 1 = 5
      BY <2>1 DEF firstFrontier
    <3> QED
      BY <1>1, <2>1, <3>1, RootSplitShape
  <2>2. CASE ~splittable(World)
    <3>1. 1 .. firstFrontier - 1 = {Root}
      BY <2>2 DEF firstFrontier, Root
    <3> QED
      BY <1>1, <2>2, <3>1, RootAloneShape
  <2> QED
    BY <2>1, <2>2
<1>3. firstFrontier \in Nat \ {0}
  BY DEF firstFrontier
<1>4. Registry(tree, 1 .. firstFrontier - 1, << >>, firstFrontier)
  BY <1>2, <1>3, NoneReturned
<1>5. asserts_hold \in BOOLEAN /\ requests \in 0 .. MaxRequests /\ orderly
  BY BoundAssumption DEF Init
<1> QED
  BY <1>1, <1>2, <1>4, <1>5 DEF TreeInv

\* A split keeps TreeInv.
LEMMA SplitStep ==
    ASSUME TreeInv, NEW t \in allocated, InTree(t), requests < MaxRequests,
           requests' = requests + 1, orderly', onMonitoringBalanceTreeStaticSplit(t)
    PROVE  TreeInv'
<1> DEFINE D == DOMAIN tree
           kids == [k \in Child |-> upcoming(k)]
           K == {kids[k] : k \in Child}
           E == D \union K
           next == IF Len(free) < 4 THEN frontier + 4 - Len(free) ELSE frontier
<1>1. /\ TreeShape(tree, allocated) /\ Sound(tree) /\ allocated \subseteq D
      /\ Registry(tree, allocated, free, frontier)
  BY DEF TreeInv, TreeShape
<1>2. /\ tree[t].leaf_node /\ tree[t].box.size % 2 = 0
      /\ tree' = split(tree, t, kids)
      /\ allocated' = allocated \union K
      /\ free' = SubSeq(free, 5, Len(free))
      /\ frontier' = next
  BY DEF onMonitoringBalanceTreeStaticSplit, canSplit, splittable
<1>3. Taken(free, frontier, kids)
  BY DEF Taken, upcoming
<1> HIDE DEF kids
<1>4. /\ \A j, k \in Child : kids[j] = kids[k] => j = k
      /\ \A k \in Child : kids[k] \notin allocated /\ kids[k] # NoTree
      /\ E = 1 .. next - 1
  BY <1>1, <1>3, TakenTokens
<1>5. kids \in [Child -> K]
  BY <1>3 DEF Taken
<1>6. NoTree \notin K /\ K \cap allocated = {} /\ t \notin K /\ t \in D
  BY <1>1, <1>4
<1>7. tree \in [D -> Node(D)] /\ NoTree \notin D
  BY <1>1 DEF Sound
<1>8. Lists(free', E \ (allocated \union K), E)
  <2>1. Lists(SubSeq(free, 5, Len(free)), E \ (allocated \union K), E)
    BY <1>1, <1>3, TakenList
  <2> QED
    BY <1>2, <2>1
<1> HIDE DEF K
<1>9. Grown(tree, t, kids, tree')
  BY <1>2, <1>4, <1>5, <1>6, <1>7, SplitGrows
<1>10. Below(tree, Root, t)
  BY InTreeIsBelow
<1>11. TreeShape(tree', allocated \union {kids[k] : k \in Child})
  <2>1. \A j, k \in Child : kids[j] = kids[k] => j = k
    BY <1>4
  <2>2. tree[t].leaf_node /\ tree[t].box.size % 2 = 0
    BY <1>2
  <2> HIDE DEF E, next
  <2> QED
    BY <1>1, <1>5, <1>6, <1>9, <1>10, <2>1, <2>2, SplitShape
<1>12. DOMAIN tree' = E
  BY <1>9 DEF Grown, K
<1>13. next \in Nat \ {0}
  <2>1. frontier \in Nat \ {0} /\ Len(free) \in Nat
    BY <1>1, LenProperties DEF Registry, Lists
  <2> QED
    BY <2>1
<1> HIDE DEF next, E
<1>14. Registry(tree', allocated', free', frontier')
  BY <1>2, <1>4, <1>8, <1>12, <1>13 DEF Registry
<1>15. asserts_hold' \in BOOLEAN
  BY DEF onMonitoringBalanceTreeStaticSplit
<1>16. requests' \in 0 .. MaxRequests
  BY BoundAssumption DEF TreeInv
<1> QED
  BY <1>2, <1>11, <1>14, <1>15, <1>16 DEF TreeInv, K

\* A merge keeps TreeInv.
LEMMA MergeStep ==
    ASSUME TreeInv, NEW t \in allocated, InTree(t), requests < MaxRequests,
           requests' = requests + 1, orderly', onMonitoringBalanceTreeStaticMerge(t)
    PROVE  TreeInv'
<1> DEFINE D == DOMAIN tree
           gone == destroyed(tree, t)
           leaves == LeavesBelow(tree, t)
<1>1. /\ TreeShape(tree, allocated) /\ Sound(tree) /\ allocated \subseteq D /\ t \in D
      /\ Registry(tree, allocated, free, frontier)
  BY DEF TreeInv, TreeShape
<1>2. /\ tree' = merge(tree, t)
      /\ allocated' = allocated \ ToSet(gone)
      /\ free' = FoldLeft(giveBack, free, gone)
      /\ frontier' = frontier
  BY DEF onMonitoringBalanceTreeStaticMerge
<1>3. Below(tree, Root, t)
  BY InTreeIsBelow
<1>4. \A u \in D : Below(tree, t, u) => u \in allocated /\ Quartered(tree, u)
  <2> SUFFICES ASSUME NEW u \in D, Below(tree, t, u)
               PROVE  u \in allocated /\ Quartered(tree, u)
    OBVIOUS
  <2>1. Root \in D
    BY <1>1 DEF TreeShape
  <2>2. Below(tree, Root, u)
    BY <1>1, <1>3, <2>1, BelowBelow
  <2> QED
    BY <1>1, <2>2 DEF TreeShape
<1>5. Lists(gone, leaves, D)
  BY <1>1, <1>4, DestroysLeaves
<1>6. gone \in Seq(D) /\ ToSet(gone) = leaves /\ IsInjective(gone)
  BY <1>5 DEF Lists
<1>7. /\ free \in Seq(D) /\ ToSet(free) = D \ allocated /\ IsInjective(free)
      /\ frontier \in Nat \ {0} /\ D = 1 .. frontier - 1
  BY <1>1 DEF Registry, Lists
<1>8. leaves \subseteq allocated
  BY <1>4 DEF LeavesBelow
<1> HIDE DEF gone
<1>9. ToSet(free) \cap ToSet(gone) = {}
  BY <1>6, <1>7, <1>8
<1> HIDE DEF leaves
<1>10. Lists(free', ToSet(free) \union ToSet(gone), D)
  BY <1>2, <1>6, <1>7, <1>9, GivesBackAll
<1>11. ToSet(free) \union ToSet(gone) = D \ (allocated \ ToSet(gone))
  BY <1>1, <1>6, <1>7, <1>8
<1>12. PICK m, b : Heights(tree, m, b)
  BY <1>1 DEF Sound
<1>13. tree \in [D -> Node(D)] /\ NoTree \notin D /\ LeavesChildless(tree)
  BY <1>1 DEF Sound
<1>14. Merged(tree, t, tree')
  BY <1>1, <1>2, <1>12, <1>13, MergeShape
<1>15. TreeShape(tree', allocated \ leaves)
  BY <1>1, <1>3, <1>14, MergeKeepsShape DEF leaves
<1>16. DOMAIN tree' = D
  BY <1>14 DEF Merged
<1>17. Registry(tree', allocated', free', frontier')
  BY <1>2, <1>7, <1>10, <1>11, <1>16 DEF Registry
<1>18. asserts_hold' \in BOOLEAN
  BY DEF onMonitoringBalanceTreeStaticMerge
<1>19. requests' \in 0 .. MaxRequests
  BY BoundAssumption DEF TreeInv
<1> QED
  BY <1>2, <1>6, <1>15, <1>17, <1>18, <1>19 DEF TreeInv

\* What holds of the balancer's state whatever was merged, and TreeInv as long as
\* each request was about a tree of the tree.
OrderlyInv ==
    /\ asserts_hold \in BOOLEAN
    /\ requests \in 0 .. MaxRequests
    /\ orderly \in BOOLEAN
    /\ orderly => TreeInv

\* Whether a tree is met by the walk from the root is decided.
LEMMA InTreeDecided == TreeInv => \A t \in DOMAIN tree : InTree(t) \in BOOLEAN
<1> SUFFICES ASSUME TreeInv, NEW t \in DOMAIN tree PROVE InTree(t) \in BOOLEAN
  OBVIOUS
<1>1. Sound(tree)
  BY DEF TreeInv, TreeShape
<1>2. Below(tree, Root, t) \in BOOLEAN
  BY <1>1, ReachDecided
<1>3. InTree(t) = Below(tree, Root, t)
  BY DEF InTree, Below, Reach
<1> QED
  BY <1>2, <1>3

\* Every step keeps OrderlyInv.
LEMMA TreeNext == OrderlyInv /\ [Next]_treeVars => OrderlyInv'
<1> SUFFICES ASSUME OrderlyInv, [Next]_treeVars PROVE OrderlyInv'
  OBVIOUS
<1>1. CASE Next
  <2>1. PICK t \in allocated : /\ Granted(t)
                               /\ \/ onMonitoringBalanceTreeStaticSplit(t)
                                  \/ onMonitoringBalanceTreeStaticMerge(t)
    BY <1>1 DEF Next
  <2>2. /\ TreeInv /\ requests < MaxRequests
        /\ requests' = requests + 1 /\ orderly' = InTree(t)
    BY <1>1, <2>1 DEF Next, MayAsk, Granted, OrderlyInv
  <2>3. t \in DOMAIN tree
    BY <2>2 DEF TreeInv, TreeShape
  <2>4. orderly' \in BOOLEAN
    BY <2>2, <2>3, InTreeDecided
  <2>5. requests' \in 0 .. MaxRequests
    BY <2>2, BoundAssumption DEF TreeInv
  <2>6. asserts_hold' \in BOOLEAN
    BY <2>1 DEF onMonitoringBalanceTreeStaticSplit, onMonitoringBalanceTreeStaticMerge
  <2>7. ASSUME orderly' PROVE TreeInv'
    <3>1. InTree(t)
      BY <2>2, <2>7
    <3>2. CASE onMonitoringBalanceTreeStaticSplit(t)
      BY <2>2, <2>7, <3>1, <3>2, SplitStep
    <3>3. CASE onMonitoringBalanceTreeStaticMerge(t)
      BY <2>2, <2>7, <3>1, <3>3, MergeStep
    <3> QED
      BY <2>1, <3>2, <3>3
  <2> QED
    BY <2>4, <2>5, <2>6, <2>7 DEF OrderlyInv
<1>2. CASE UNCHANGED treeVars
  BY <1>2 DEF treeVars, TreeInv, OrderlyInv
<1> QED
  BY <1>1, <1>2

\* OrderlyInv, after any requests to split and merge (balance_tree.cpp).
THEOREM TreeInvariant == Spec => []OrderlyInv
<1>1. Init => OrderlyInv
  BY TreeInit DEF Init, OrderlyInv, TreeInv
<1> QED
  BY <1>1, TreeNext, PTL DEF Spec

\* TreeInv has PlacesOK as a part.
LEMMA TreeInvTyped == TreeInv => PlacesOK
<1> SUFFICES ASSUME TreeInv PROVE PlacesOK
  OBVIOUS
<1> DEFINE D == DOMAIN tree
<1>1. Sound(tree) /\ allocated \subseteq D
  BY DEF TreeInv, TreeShape
<1>2. \A t \in D : tree[t] \in Node(D)
  BY <1>1 DEF Sound
<1>3. D = 1 .. frontier - 1 /\ ToSet(free) = D \ allocated /\ IsInjective(free)
  BY DEF TreeInv, Registry, Lists
<1> QED
  BY <1>1, <1>2, <1>3 DEF PlacesOK, Node

\* TreeTypeOK: as long as each request was about a tree of the tree, the
\* registry's list has exactly the returned tokens, each once, and every pointer,
\* those of destroyed trees included, is to a place that was given.
THEOREM TreeAlwaysTyped == Spec => []TreeTypeOK
<1>1. OrderlyInv => TreeTypeOK
  BY TreeInvTyped DEF OrderlyInv, TreeTypeOK
<1> QED
  BY <1>1, TreeInvariant, PTL

\* NoZoneLeftBehind: as long as each request was about a tree of the tree,
\* destroyChildren returns every leaf below the merged tree, so that no zone
\* stays in use that a walk from the root does not meet.
THEOREM NoZoneLost == Spec => []NoZoneLeftBehind
<1>1. OrderlyInv => NoZoneLeftBehind
  BY InTreeIsBelow DEF OrderlyInv, TreeInv, TreeShape, NoZoneLeftBehind
<1> QED
  BY <1>1, TreeInvariant, PTL

-----------------------------------------------------------------------------
\* The asserts of setNeighbor, as long as nothing was merged.

\* Two boxes share no cell.
Apart(a, b) == \A cell \in Cells : ~(inside(a, cell) /\ inside(b, cell))

\* No table names a tree that shares a cell with the table's own.
Outside(tr) ==
    \A u \in DOMAIN tr : \A s \in Slot :
        LET n == tr[u].neighbors[s]
        IN  n = NoTree \/ Apart(tr[u].box, tr[n].box)

\* What a table says of a cell is apart from its tree.
LEMMA GetApart ==
    ASSUME NEW D, NEW tr \in [D -> Node(D)], NEW t \in D, NEW cell \in Cells, Outside(tr)
    PROVE  LET n == getNeighbor(tr, t, cell)
           IN  n = NoTree \/ (n \in D /\ Apart(tr[t].box, tr[n].box))
<1>1. getNeighborIndex(tr[t].box, cell) \in Slot /\ DOMAIN tr = D
  BY GetTyped, IndexIsSlot
<1> QED
  BY <1>1, GetTyped DEF getNeighbor, Outside

\* The pointers lead outside after one more that does was written.
LEMMA SetOutside ==
    ASSUME NEW D, NEW tr \in [D -> Node(D)], NEW t \in D, NEW cell \in Cells,
           NEW n \in {NoTree} \union D, Outside(tr),
           n = NoTree \/ Apart(tr[t].box, tr[n].box)
    PROVE  Outside(setNeighbor(tr, t, cell, n))
<1> DEFINE ur == setNeighbor(tr, t, cell, n)
           i == getNeighborIndex(tr[t].box, cell)
<1>1. DOMAIN tr = D /\ SameButTables(tr, ur)
  BY SetTyped
<1>2. tr[t] \in Node(D) /\ tr[t].neighbors \in [Slot -> {NoTree} \union D]
  <2>1. tr[t] \in Node(D)
    OBVIOUS
  <2> QED
    BY <2>1 DEF Node
<1>3. ur = [tr EXCEPT ![t] = [tr[t] EXCEPT !.neighbors = [tr[t].neighbors EXCEPT ![i] = n]]]
  BY DEF setNeighbor
<1>4. \A u \in D \ {t} : ur[u] = tr[u]
  BY <1>3
<1>5. ur[t].neighbors = [tr[t].neighbors EXCEPT ![i] = n]
  BY <1>2, <1>3 DEF Node
<1>6. \A u \in D : ur[u].box = tr[u].box
  BY <1>1 DEF SameButTables
<1> HIDE DEF ur, i
<1>7. ASSUME NEW u \in D, NEW s \in Slot, ur[u].neighbors[s] # NoTree
      PROVE  Apart(ur[u].box, ur[ur[u].neighbors[s]].box)
  <2>1. CASE u = t /\ ur[u].neighbors[s] = n
    BY <1>6, <1>7, <2>1
  <2>2. CASE ur[u].neighbors[s] = tr[u].neighbors[s]
    <3>1. tr[u].neighbors[s] \in D
      <4>1. tr[u] \in Node(D)
        OBVIOUS
      <4>2. tr[u].neighbors[s] \in {NoTree} \union D
        BY <4>1 DEF Node
      <4> QED
        BY <1>7, <2>2, <4>2
    <3> QED
      BY <1>1, <1>6, <1>7, <2>2, <3>1 DEF Outside
  <2>3. u # t => ur[u].neighbors[s] = tr[u].neighbors[s]
    BY <1>4
  <2>4. u = t => \/ ur[u].neighbors[s] = n
                 \/ ur[u].neighbors[s] = tr[u].neighbors[s]
    BY <1>2, <1>5
  <2> QED
    BY <2>1, <2>2, <2>3, <2>4
<1>8. DOMAIN ur = D
  BY <1>1 DEF SameButTables
<1> QED
  BY <1>7, <1>8 DEF Outside, ur

\* A quarter is apart from the other quarters, and from what the box is apart
\* from.
LEMMA QuarterApart ==
    ASSUME NEW box \in Square, box.size % 2 = 0, NEW k \in Child
    PROVE  /\ \A j \in Child : j # k => Apart(childBox(box, k), childBox(box, j))
           /\ \A other : Apart(box, other) => /\ Apart(childBox(box, k), other)
                                              /\ Apart(other, childBox(box, k))
BY QuartersTile DEF Apart

\* In ur each child has its table, and the other tables are those of tr.
Given(tr, t, kids, ur) ==
    /\ \A k \in Child : ur[kids[k]].neighbors = childTable(tr, t, kids, k)
    /\ \A u \in DOMAIN tr : ur[u].neighbors = tr[u].neighbors

\* withChildren gives each child its table and leaves the other tables alone.
LEMMA TablesGiven ==
    ASSUME NEW D, NEW tr \in [D -> Node(D)], NEW t \in D,
           NEW W, NEW kids \in [Child -> W], W \cap D = {},
           \A j, k \in Child : kids[j] = kids[k] => j = k
    PROVE  Given(tr, t, kids, withChildren(tr, t, kids))
<1> DEFINE made(k) == [newTree(childBox(tr[t].box, k), t) EXCEPT
                         !.neighbors = childTable(tr, t, kids, k)]
           parted == [tr[t] EXCEPT !.leaf_node = FALSE, !.children = kids]
           ur == withChildren(tr, t, kids)
<1>1. ur = [u \in D \union {kids[k] : k \in Child} |->
            IF \E k \in Child : kids[k] = u
            THEN LET k == CHOOSE j \in Child : kids[j] = u
                 IN  made(k)
            ELSE IF u = t THEN parted ELSE tr[u]]
  <2>1. DOMAIN tr = D
    OBVIOUS
  <2> QED
    BY <2>1 DEF withChildren, childTable
<1>2. ASSUME NEW k \in Child
      PROVE  ur[kids[k]].neighbors = childTable(tr, t, kids, k)
  <2>1. made(k).neighbors = childTable(tr, t, kids, k)
    BY DEF newTree
  <2>2. (CHOOSE j \in Child : kids[j] = kids[k]) = k
    OBVIOUS
  <2>3. kids[k] \in D \union {kids[j] : j \in Child} /\ \E j \in Child : kids[j] = kids[k]
    OBVIOUS
  <2> HIDE DEF made, parted
  <2>4. ur[kids[k]] = made(k)
    BY <1>1, <2>2, <2>3
  <2> QED
    BY <2>1, <2>4
<1>3. ASSUME NEW u \in D
      PROVE  ur[u].neighbors = tr[u].neighbors
  <2>1. \A k \in Child : kids[k] # u
    OBVIOUS
  <2>2. tr[t] \in Node(D)
    OBVIOUS
  <2>3. parted.neighbors = tr[t].neighbors
    BY <2>2 DEF Node
  <2> HIDE DEF made, parted
  <2>4. ur[u] = IF u = t THEN parted ELSE tr[u]
    BY <1>1, <2>1
  <2> QED
    BY <2>3, <2>4
<1>4. DOMAIN tr = D
  OBVIOUS
<1> HIDE DEF ur
<1> QED
  BY <1>2, <1>3, <1>4 DEF Given, ur

\* The new children know siblings, and neighbors of their parent.
LEMMA ChildrenOutside ==
    ASSUME NEW D, NoTree \notin D, NEW tr \in [D -> Node(D)], NEW t \in D,
           tr[t].box.size % 2 = 0, Outside(tr),
           NEW W, NEW kids \in [Child -> W], NoTree \notin W, W \cap D = {},
           \A j, k \in Child : kids[j] = kids[k] => j = k
    PROVE  Outside(withChildren(tr, t, kids))
<1> DEFINE E == D \union {kids[k] : k \in Child}
           box == tr[t].box
           ur == withChildren(tr, t, kids)
<1>1. Grown(tr, t, kids, ur)
  <2>1. t \notin W
    OBVIOUS
  <2> QED
    BY <2>1, WithChildrenGrown
<1>2. /\ \A k \in Child : ur[kids[k]].neighbors = childTable(tr, t, kids, k)
      /\ \A u \in D : ur[u].neighbors = tr[u].neighbors
  <2>1. Given(tr, t, kids, ur) /\ DOMAIN tr = D
    BY TablesGiven
  <2> HIDE DEF ur
  <2> QED
    BY <2>1 DEF Given
<1>3. box \in Square
  <2>1. tr[t] \in Node(D)
    OBVIOUS
  <2> QED
    BY <2>1 DEF Node
<1>4. DOMAIN tr = D /\ \A u \in D : \A k \in Child : kids[k] # u
  OBVIOUS
<1> HIDE DEF ur
<1>5. DOMAIN ur = E /\ \A k \in Child : ur[kids[k]].box = childBox(box, k)
  BY <1>1, <1>4 DEF Grown
<1>6. \A u \in D : ur[u].box = tr[u].box
  BY <1>1, <1>4 DEF Grown
<1>7. ASSUME NEW k \in Child, NEW s \in Slot, ur[kids[k]].neighbors[s] # NoTree
      PROVE  Apart(ur[kids[k]].box, ur[ur[kids[k]].neighbors[s]].box)
  <2> DEFINE V == {NoTree} \union {n \in E : Apart(childBox(box, k), ur[n].box)}
  <2>1. ASSUME NEW pair \in Around(childBox(box, k))
        PROVE  behind(tr, t, kids, pair[1]) \in V
    <3>1. pair[1] \in Cells /\ ~inside(childBox(box, k), pair[1])
      BY DEF Around, Pairs
    <3>2. CASE inside(box, pair[1])
      <4> DEFINE j == CHOOSE i \in Child : inside(childBox(box, i), pair[1])
      <4>1. \E i \in Child : inside(childBox(box, i), pair[1])
        <5> HIDE DEF box
        <5> QED
          BY <1>3, <3>1, <3>2, QuartersTile DEF box
      <4>2. j \in Child /\ inside(childBox(box, j), pair[1])
        BY <4>1
      <4>3. behind(tr, t, kids, pair[1]) = kids[j]
        BY <3>2 DEF behind
      <4> HIDE DEF j
      <4>4. j # k
        BY <3>1, <4>2
      <4>5. Apart(childBox(box, k), ur[kids[j]].box)
        BY <1>3, <1>5, <4>2, <4>4, QuarterApart
      <4> QED
        BY <4>2, <4>3, <4>5
    <3>3. CASE ~inside(box, pair[1])
      <4> DEFINE n == getNeighbor(tr, t, pair[1])
      <4>1. behind(tr, t, kids, pair[1]) = n
        BY <3>3 DEF behind
      <4>2. n = NoTree \/ (n \in D /\ Apart(box, tr[n].box))
        BY <3>1, GetApart
      <4> HIDE DEF n
      <4>3. n # NoTree => Apart(childBox(box, k), ur[n].box)
        BY <1>3, <1>6, <4>2, QuarterApart
      <4> QED
        BY <4>1, <4>2, <4>3
    <3> QED
      BY <3>2, <3>3
  <2>2. NoTree \in V
    OBVIOUS
  <2> HIDE DEF V
  <2>3. childTable(tr, t, kids, k) \in [Slot -> V]
    BY <2>1, <2>2, ChildTable
  <2>4. ur[kids[k]].neighbors[s] \in V
    BY <1>2, <2>3
  <2> QED
    BY <1>5, <1>7, <2>4 DEF V
<1>8. ASSUME NEW u \in D, NEW s \in Slot, ur[u].neighbors[s] # NoTree
      PROVE  Apart(ur[u].box, ur[ur[u].neighbors[s]].box)
  <2>1. ur[u].neighbors[s] = tr[u].neighbors[s]
    BY <1>2
  <2>2. tr[u].neighbors[s] \in D
    <3>1. tr[u] \in Node(D)
      OBVIOUS
    <3>2. tr[u].neighbors[s] \in {NoTree} \union D
      BY <3>1 DEF Node
    <3> QED
      BY <1>8, <2>1, <3>2
  <2> QED
    BY <1>4, <1>6, <1>8, <2>1, <2>2 DEF Outside
<1> QED
  BY <1>5, <1>7, <1>8 DEF Outside, ur

\* A split tells no neighbor of a tree in its own box, and leaves no pointer that
\* could be used to.
LEMMA SplitOutside ==
    ASSUME NEW D, NoTree \notin D, NEW tr \in [D -> Node(D)], NEW t \in D,
           tr[t].box.size % 2 = 0, Outside(tr),
           NEW W, NEW kids \in [Child -> W], NoTree \notin W, W \cap D = {},
           \A j, k \in Child : kids[j] = kids[k] => j = k
    PROVE  /\ tellsOutside(withChildren(tr, t, kids), t)
           /\ Outside(split(tr, t, kids))
<1> DEFINE E == D \union {kids[k] : k \in Child}
           box == tr[t].box
           made == withChildren(tr, t, kids)
           who == [cell \in edge(box) |-> behind(tr, t, kids, cell)]
           told == tellNeighbors(made, t, who)
           V == {ur \in [E -> Node(E)] : SameButTables(made, ur) /\ Outside(ur)}
<1>1. Grown(tr, t, kids, made) /\ Outside(made)
  <2>1. t \notin W
    OBVIOUS
  <2> QED
    BY <2>1, WithChildrenGrown, ChildrenOutside
<1>2. box \in Square
  <2>1. tr[t] \in Node(D)
    OBVIOUS
  <2> QED
    BY <2>1 DEF Node
<1>3. made \in [E -> Node(E)] /\ made[t].box = box /\ t \in E /\ DOMAIN made = E
  BY <1>1 DEF Grown
<1>4. \A k \in Child : kids[k] \in E /\ made[kids[k]].box = childBox(box, k)
  BY <1>1 DEF Grown
<1>5. ASSUME NEW pair \in Around(box), pair[2] \in edge(box)
      PROVE  \E k \in Child : who[pair[2]] = kids[k]
  <2> DEFINE k == CHOOSE j \in Child : inside(childBox(box, j), pair[2])
  <2>1. pair[2] \in Cells /\ inside(box, pair[2])
    BY DEF Around, Pairs
  <2>2. behind(tr, t, kids, pair[2]) = kids[k]
    BY <2>1 DEF behind
  <2>3. \E j \in Child : inside(childBox(box, j), pair[2])
    <3> HIDE DEF box
    <3> QED
      BY <1>2, <2>1, QuartersTile DEF box
  <2>4. k \in Child
    BY <2>3
  <2> QED
    BY <1>5, <2>2, <2>4
<1>6. ASSUME NEW pair \in Around(box), NEW ur \in V, getNeighbor(ur, t, pair[1]) # NoTree
      PROVE  LET n == getNeighbor(ur, t, pair[1])
             IN  n \in E /\ Apart(box, made[n].box) /\ ur[n].box = made[n].box
  <2>1. ur \in [E -> Node(E)] /\ SameButTables(made, ur) /\ Outside(ur)
    OBVIOUS
  <2>2. pair[1] \in Cells
    BY DEF Around, Pairs
  <2> DEFINE n == getNeighbor(ur, t, pair[1])
  <2> HIDE DEF E, V, made, box, who
  <2>3. n \in E /\ Apart(ur[t].box, ur[n].box)
    BY <1>3, <1>6, <2>1, <2>2, GetApart
  <2> HIDE DEF n
  <2>4. ur[t].box = made[t].box /\ ur[n].box = made[n].box
    BY <1>3, <2>1, <2>3 DEF SameButTables
  <2> QED
    BY <1>3, <2>3, <2>4 DEF n
<1>7. made \in V
  BY <1>1, <1>3 DEF SameButTables
<1>8. tellsOutside(made, t)
  <2> DEFINE b == border(box)
  <2>1. \A i \in 1 .. Len(b) : b[i] \in Around(box)
    BY <1>2, BorderPlaces
  <2> SUFFICES ASSUME NEW i \in 1 .. Len(b), getNeighbor(made, t, b[i][1]) # NoTree
               PROVE  ~inside(made[getNeighbor(made, t, b[i][1])].box, b[i][2])
    BY <1>3 DEF tellsOutside
  <2>2. b[i] \in Around(box)
    BY <2>1
  <2> DEFINE n == getNeighbor(made, t, b[i][1])
  <2>3. Apart(box, made[n].box)
    BY <1>6, <1>7, <2>2
  <2>4. b[i][2] \in Cells /\ inside(box, b[i][2])
    BY <2>2 DEF Around, Pairs
  <2> QED
    BY <2>3, <2>4 DEF Apart
<1>9. ASSUME NEW ur \in V, NEW pair \in Around(box), pair[2] \in edge(box)
      PROVE  Told(ur, t, who, pair) \in V
  <2> DEFINE n == getNeighbor(ur, t, pair[1])
             vr == setNeighbor(ur, n, pair[2], who[pair[2]])
  <2>1. ur \in [E -> Node(E)] /\ SameButTables(made, ur) /\ Outside(ur)
    OBVIOUS
  <2>2. pair[2] \in Cells
    BY DEF Around, Pairs
  <2>3. Told(ur, t, who, pair) = IF n = NoTree THEN ur ELSE vr
    BY DEF Told
  <2>4. n # NoTree => n \in E /\ Apart(box, made[n].box) /\ ur[n].box = made[n].box
    BY <1>6
  <2>5. PICK k \in Child : who[pair[2]] = kids[k]
    BY <1>5, <1>9
  <2>6. kids[k] \in E /\ ur[kids[k]].box = childBox(box, k)
    <3> HIDE DEF E, made
    <3> QED
      BY <1>3, <1>4, <2>1 DEF SameButTables
  <2>7. n # NoTree => Apart(ur[n].box, ur[kids[k]].box)
    <3> HIDE DEF n, E, made, V
    <3> QED
      BY <1>2, <2>4, <2>6, QuarterApart
  <2> HIDE DEF n, E, made, V, who
  <2>8. n # NoTree => /\ vr \in [E -> Node(E)] /\ SameButTables(ur, vr)
                      /\ Outside(vr)
    <3> HIDE DEF vr
    <3> SUFFICES ASSUME n # NoTree
                 PROVE  vr \in [E -> Node(E)] /\ SameButTables(ur, vr) /\ Outside(vr)
      OBVIOUS
    <3>1. n \in E /\ kids[k] \in {NoTree} \union E
      BY <2>4, <2>6
    <3>2. vr = setNeighbor(ur, n, pair[2], kids[k])
      BY <2>5 DEF vr
    <3>3. setNeighbor(ur, n, pair[2], kids[k]) \in [E -> Node(E)] /\ SameButTables(ur, setNeighbor(ur, n, pair[2], kids[k]))
      BY <2>1, <2>2, <3>1, SetTyped
    <3>4. Outside(setNeighbor(ur, n, pair[2], kids[k]))
      BY <2>1, <2>2, <2>7, <3>1, SetOutside
    <3> QED
      BY <3>2, <3>3, <3>4
  <2> HIDE DEF vr
  <2>9. n # NoTree => SameButTables(made, vr)
    BY <2>1, <2>8, SameTwice
  <2> QED
    BY <2>3, <2>8, <2>9 DEF V
<1>10. told \in V
  <2> HIDE DEF V, made, who, told
  <2>1. made[t].box \in Square
    BY <1>2, <1>3
  <2>2. \A ur \in V : \A pair \in Around(made[t].box) :
           pair[2] \in edge(made[t].box) => Told(ur, t, who, pair) \in V
    BY <1>3, <1>9
  <2> QED
    BY <1>7, <2>1, <2>2, TellsStay DEF told
<1>11. split(tr, t, kids) = [told EXCEPT ![t].neighbors = [s \in Slot |-> NoTree]]
  BY DEF split
<1> DEFINE empty == [s \in Slot |-> NoTree]
           ur == [told EXCEPT ![t].neighbors = empty]
<1> HIDE DEF told
<1>12. told \in [E -> Node(E)] /\ Outside(told)
  BY <1>10
<1>13. Outside(ur)
  <2> HIDE DEF E, V, made, who, box
  <2>1. empty \in [Slot -> {NoTree} \union E] /\ \A s \in Slot : empty[s] = NoTree
    OBVIOUS
  <2> HIDE DEF empty
  <2>2. SameButTables(told, ur) /\ DOMAIN told = E
    BY <1>3, <1>12, <2>1, TableCleared
  <2>3. told[t] \in Node(E)
    BY <1>3, <1>12
  <2>4. ur[t].neighbors = empty /\ \A u \in E \ {t} : ur[u] = told[u]
    BY <1>3, <1>12, <2>3 DEF Node
  <2> HIDE DEF ur
  <2>5. ASSUME NEW u \in E, NEW s \in Slot, ur[u].neighbors[s] # NoTree
        PROVE  Apart(ur[u].box, ur[ur[u].neighbors[s]].box)
    <3>1. u # t /\ ur[u] = told[u]
      BY <2>1, <2>4, <2>5
    <3>2. told[u].neighbors[s] \in E
      <4>1. told[u] \in Node(E)
        BY <1>12
      <4>2. told[u].neighbors[s] \in {NoTree} \union E
        BY <4>1 DEF Node
      <4> QED
        BY <2>5, <3>1, <4>2
    <3>3. Apart(told[u].box, told[told[u].neighbors[s]].box)
      BY <1>12, <2>2, <2>5, <3>1 DEF Outside
    <3> QED
      BY <2>2, <3>1, <3>2, <3>3 DEF SameButTables
  <2>6. DOMAIN ur = E
    BY <2>2 DEF SameButTables
  <2> QED
    BY <2>5, <2>6 DEF Outside
<1> QED
  BY <1>8, <1>11, <1>13

\* As long as nothing was merged, every place holds the tree that it was given
\* for, and no table can have a tree told of one in its own box.
AssertInv ==
    /\ frontier <= firstFrontier + 4 * requests
    /\ NeverMerged => orderly /\ free = << >> /\ asserts_hold /\ Outside(tree)

\* A root alone has no neighbors.
LEMMA RootAloneOutside == Outside(rootAlone)
<1>1. \A u \in DOMAIN rootAlone : \A s \in Slot : rootAlone[u].neighbors[s] = NoTree
  BY DEF rootAlone, newTree
<1> QED
  BY <1>1 DEF Outside

\* AssertInv holds at the start.
LEMMA AssertStart == Init => AssertInv
<1> SUFFICES ASSUME Init PROVE AssertInv
  OBVIOUS
<1>1. tree = (IF splittable(World) THEN rootSplit ELSE rootAlone)
  BY DEF Init
<1>2. Outside(rootAlone) /\ TreeShape(rootAlone, {Root}) /\ DOMAIN rootAlone = {Root}
  BY RootAloneOutside, RootAloneShape
<1>3. splittable(World) => Outside(rootSplit)
  <2> SUFFICES ASSUME splittable(World) PROVE Outside(rootSplit)
    OBVIOUS
  <2> DEFINE D == {Root}
             W == 2 .. 5
             kids == [k \in Child |-> Root + k]
  <2>1. rootAlone \in [D -> Node(D)] /\ NoTree \notin D
    BY <1>2 DEF TreeShape, Sound
  <2>2. rootAlone[Root].box.size % 2 = 0
    BY DEF rootAlone, newTree, splittable
  <2>3. /\ kids \in [Child -> W] /\ NoTree \notin W /\ W \cap D = {}
        /\ \A j, k \in Child : kids[j] = kids[k] => j = k
    BY DEF Child, Root, NoTree
  <2>4. Root \in D /\ rootSplit = split(rootAlone, Root, kids)
    BY DEF rootSplit
  <2> HIDE DEF D, W, kids
  <2> QED
    BY <1>2, <2>1, <2>2, <2>3, <2>4, SplitOutside
<1> QED
  BY <1>1, <1>2, <1>3 DEF AssertInv, Init, firstFrontier

\* After a request about another tree none is granted.
LEMMA Ended == ~orderly /\ [Next]_treeVars => UNCHANGED treeVars
BY DEF Next, MayAsk

\* A granted request keeps AssertInv: one about a tree that is none of the tree
\* is a merge.
LEMMA AssertStep == TreeInv /\ AssertInv /\ [Next]_treeVars => AssertInv'
<1> SUFFICES ASSUME TreeInv, AssertInv, [Next]_treeVars PROVE AssertInv'
  OBVIOUS
<1>1. /\ free \in Seq(DOMAIN tree) /\ Len(free) \in Nat
      /\ frontier \in Nat \ {0} /\ DOMAIN tree = 1 .. frontier - 1
      /\ Sound(tree) /\ allocated \subseteq DOMAIN tree
      /\ requests \in Nat /\ firstFrontier \in Nat
  BY BoundAssumption, LenProperties DEF TreeInv, TreeShape, Registry, Lists, firstFrontier
<1>2. firstFrontier' = firstFrontier
  BY DEF firstFrontier
<1>3. CASE UNCHANGED treeVars
  BY <1>2, <1>3 DEF treeVars, AssertInv, NeverMerged
<1>4. CASE Next
  <2>1. PICK t \in allocated : /\ orderly' = InTree(t)
                               /\ requests' = requests + 1
                               /\ \/ onMonitoringBalanceTreeStaticSplit(t)
                                  \/ onMonitoringBalanceTreeStaticMerge(t)
    BY <1>4 DEF Next, Granted
  <2>2. CASE onMonitoringBalanceTreeStaticMerge(t)
    <3>1. frontier' = frontier
      BY <2>2 DEF onMonitoringBalanceTreeStaticMerge
    <3> QED
      BY <1>1, <1>2, <2>1, <3>1 DEF AssertInv, NeverMerged
  <2>3. CASE onMonitoringBalanceTreeStaticSplit(t)
    <3> DEFINE D == DOMAIN tree
               kids == [k \in Child |-> upcoming(k)]
               W == {kids[k] : k \in Child}
    <3>1. /\ tree[t].box.size % 2 = 0
          /\ tree' = split(tree, t, kids)
          /\ asserts_hold' = (asserts_hold /\ tellsOutside(withChildren(tree, t, kids), t))
          /\ free' = SubSeq(free, 5, Len(free))
          /\ frontier' = IF Len(free) < 4 THEN frontier + 4 - Len(free) ELSE frontier
      BY <2>3 DEF onMonitoringBalanceTreeStaticSplit, canSplit, splittable
    <3>2. frontier' <= firstFrontier' + 4 * requests'
      BY <1>1, <1>2, <2>1, <3>1 DEF AssertInv
    <3> SUFFICES ASSUME NeverMerged'
                 PROVE  orderly' /\ free' = << >> /\ asserts_hold' /\ Outside(tree')
      BY <3>2 DEF AssertInv
    <3>3. Len(free) = 0 /\ frontier = firstFrontier + 4 * requests
      BY <1>1, <1>2, <2>1, <3>1 DEF AssertInv, NeverMerged
    <3>4. free = << >> /\ asserts_hold /\ Outside(tree)
      BY <3>3 DEF AssertInv, NeverMerged
    <3>5. \A k \in Child : kids[k] = frontier + k - 1
      BY <1>1, <3>3 DEF upcoming, Child
    <3>6. /\ kids \in [Child -> W] /\ NoTree \notin W /\ W \cap D = {}
          /\ \A j, k \in Child : kids[j] = kids[k] => j = k
      <4>1. kids \in [Child -> W]
        OBVIOUS
      <4> HIDE DEF kids
      <4> QED
        BY <1>1, <3>5, <4>1 DEF NoTree, Child
    <3>7. tree \in [D -> Node(D)] /\ NoTree \notin D /\ t \in D
      BY <1>1 DEF Sound
    <3>10. orderly'
      <4>1. InTree(t)
        BY <2>3, InTreeIsBelow
          DEF TreeInv, TreeShape, onMonitoringBalanceTreeStaticSplit, canSplit
      <4> QED
        BY <2>1, <4>1
    <3> HIDE DEF D, kids, W
    <3>8. tellsOutside(withChildren(tree, t, kids), t) /\ Outside(split(tree, t, kids))
      BY <3>1, <3>4, <3>6, <3>7, SplitOutside
    <3>9. free' = << >>
      BY <3>1, <3>4
    <3> QED
      BY <3>1, <3>4, <3>8, <3>9, <3>10
  <2> QED
    BY <2>1, <2>2, <2>3
<1> QED
  BY <1>3, <1>4

\* Every step keeps AssertInv.
LEMMA AssertNext == OrderlyInv /\ AssertInv /\ [Next]_treeVars => AssertInv'
<1>1. ~orderly /\ AssertInv /\ [Next]_treeVars => AssertInv'
  <2> SUFFICES ASSUME AssertInv, UNCHANGED treeVars PROVE AssertInv'
    BY Ended
  <2> QED
    BY DEF treeVars, AssertInv, NeverMerged, firstFrontier
<1> QED
  BY <1>1, AssertStep DEF OrderlyInv

\* SplitsKeepAsserts: no assert of setNeighbor fails before the first merge, in
\* whatever order zones of different sizes are split.
THEOREM SplitsNeverAssert == Spec => []SplitsKeepAsserts
<1>1. AssertInv => SplitsKeepAsserts
  BY DEF AssertInv, SplitsKeepAsserts
<1> QED
  BY <1>1, AssertStart, AssertNext, TreeInvariant, PTL DEF Spec

-----------------------------------------------------------------------------
\* Which zone has a cell.

\* The first child that takes a cell is one of those that do.
LEMMA LeastPlace ==
    ASSUME NEW S \in SUBSET Child, S # {}
    PROVE  (CHOOSE k \in S : \A j \in S : k <= j) \in S
<1>1. S \in SUBSET Nat
  BY DEF Child
<1> QED
  BY <1>1, LeastNumber

\* What registerNewUser answers for the trees below u: the one leaf that has
\* the cell, or none when u does not have it.
Answers(tr, cell, ask, u) ==
    IF inside(tr[u].box, cell)
    THEN /\ ask[u] \in DOMAIN tr /\ Below(tr, u, ask[u]) /\ tr[ask[u]].leaf_node
         /\ \A z \in DOMAIN tr : Below(tr, u, z) /\ tr[z].leaf_node
               => (inside(tr[z].box, cell) <=> z = ask[u])
    ELSE /\ ask[u] = NoTree
         /\ \A z \in DOMAIN tr : Below(tr, u, z) /\ tr[z].leaf_node
               => ~inside(tr[z].box, cell)

\* The recursion of registerNewUser at u.
Asks(tr, cell, ask, u) ==
    ask[u] = IF ~inside(tr[u].box, cell) THEN NoTree
             ELSE IF tr[u].leaf_node THEN u
             ELSE LET takes == {k \in Child : ask[tr[u].children[k]] # NoTree}
                  IN  IF takes = {} THEN NoTree
                      ELSE ask[tr[u].children[
                             CHOOSE k \in takes : \A j \in takes : k <= j]]

\* A tree answers right when its children do.
LEMMA AnswersOne ==
    ASSUME NEW tr, Sound(tr), NEW cell \in Cells, NEW ask, NEW u \in DOMAIN tr,
           Quartered(tr, u), Asks(tr, cell, ask, u),
           ~tr[u].leaf_node => \A k \in Child : Answers(tr, cell, ask, tr[u].children[k])
    PROVE  Answers(tr, cell, ask, u)
<1> DEFINE D == DOMAIN tr
           box == tr[u].box
           c(k) == tr[u].children[k]
<1>1. NoTree \notin D /\ box \in Square
  <2>1. tr[u] \in Node(D) /\ NoTree \notin D
    BY DEF Sound
  <2> QED
    BY <2>1 DEF Node
<1>2. CASE tr[u].leaf_node
  <2>1. \A z \in D : Below(tr, u, z) <=> z = u
    BY <1>2, BelowChildren
  <2>2. ask[u] = IF inside(box, cell) THEN u ELSE NoTree
    BY <1>2 DEF Asks
  <2> QED
    BY <1>2, <2>1, <2>2 DEF Answers
<1>3. CASE ~tr[u].leaf_node
  <2>1. /\ box.size % 2 = 0
        /\ \A k \in Child : c(k) \in D /\ tr[c(k)].box = childBox(box, k)
    BY <1>3 DEF Quartered
  <2>2. \A z \in D : Below(tr, u, z) /\ tr[z].leaf_node =>
                        \E k \in Child : Below(tr, c(k), z)
    BY <1>3, BelowChildren
  <2>3. \A z \in D : \A k \in Child : Below(tr, c(k), z) => Below(tr, u, z)
    BY <1>3, BelowChildren
  <2>4. \A k \in Child : Answers(tr, cell, ask, c(k))
    BY <1>3
  <2>5. ask[u] = IF ~inside(box, cell) THEN NoTree
                 ELSE LET takes == {k \in Child : ask[c(k)] # NoTree}
                      IN  IF takes = {} THEN NoTree
                          ELSE ask[c(CHOOSE k \in takes : \A j \in takes : k <= j)]
    BY <1>3 DEF Asks
  <2> HIDE DEF c, box
  <2>6. /\ inside(box, cell) => \E k \in Child : inside(childBox(box, k), cell)
        /\ \A k \in Child : inside(childBox(box, k), cell) => inside(box, cell)
        /\ \A j, k \in Child :
              inside(childBox(box, j), cell) /\ inside(childBox(box, k), cell) => j = k
    BY <1>1, <2>1, QuartersTile
  <2>7. CASE ~inside(box, cell)
    <3>1. \A k \in Child : ~inside(tr[c(k)].box, cell)
      BY <2>1, <2>6, <2>7
    <3>2. \A k \in Child : \A z \in D : Below(tr, c(k), z) /\ tr[z].leaf_node
                                          => ~inside(tr[z].box, cell)
      BY <2>4, <3>1 DEF Answers
    <3>3. ask[u] = NoTree
      BY <2>5, <2>7
    <3> QED
      BY <2>2, <2>7, <3>2, <3>3 DEF Answers, box
  <2>8. CASE inside(box, cell)
    <3>1. PICK k \in Child : inside(childBox(box, k), cell)
      BY <2>6, <2>8
    <3>2. inside(tr[c(k)].box, cell) /\ \A j \in Child : j # k => ~inside(tr[c(j)].box, cell)
      BY <2>1, <2>6, <3>1
    <3>3. /\ ask[c(k)] \in D /\ Below(tr, c(k), ask[c(k)]) /\ tr[ask[c(k)]].leaf_node
          /\ \A z \in D : Below(tr, c(k), z) /\ tr[z].leaf_node
                => (inside(tr[z].box, cell) <=> z = ask[c(k)])
      BY <2>4, <3>2 DEF Answers
    <3>4. \A j \in Child : j # k =>
             /\ ask[c(j)] = NoTree
             /\ \A z \in D : Below(tr, c(j), z) /\ tr[z].leaf_node
                                => ~inside(tr[z].box, cell)
      BY <2>4, <3>2 DEF Answers
    <3> DEFINE takes == {j \in Child : ask[c(j)] # NoTree}
               first == CHOOSE j \in takes : \A i \in takes : j <= i
    <3>5. takes = {k}
      BY <1>1, <3>3, <3>4
    <3>6. first \in takes
      BY <3>5, LeastPlace
    <3>7. ask[u] = ask[c(first)]
      BY <2>5, <2>8, <3>5
    <3> HIDE DEF takes, first
    <3>8. ask[u] = ask[c(k)]
      BY <3>5, <3>6, <3>7
    <3>9. ask[u] \in D /\ Below(tr, u, ask[u]) /\ tr[ask[u]].leaf_node
      BY <2>3, <3>3, <3>8
    <3>10. inside(tr[ask[u]].box, cell)
      BY <3>3, <3>8
    <3>11. ASSUME NEW z \in D, Below(tr, u, z), tr[z].leaf_node
           PROVE  inside(tr[z].box, cell) <=> z = ask[u]
      <4>1. PICK j \in Child : Below(tr, c(j), z)
        BY <2>2, <3>11
      <4>2. CASE j = k
        BY <3>3, <3>8, <3>11, <4>1, <4>2
      <4>3. CASE j # k
        BY <3>4, <3>10, <3>11, <4>1, <4>3
      <4> QED
        BY <4>2, <4>3
    <3> QED
      BY <2>8, <3>9, <3>11 DEF Answers, box
  <2> QED
    BY <2>7, <2>8
<1> QED
  BY <1>2, <1>3

\* What registerNewUser asks every tree of tr.
Asked(tr, cell) ==
    CHOOSE ask : ask = [t \in DOMAIN tr |->
        IF ~inside(tr[t].box, cell) THEN NoTree
        ELSE IF tr[t].leaf_node THEN t
        ELSE LET takes == {k \in Child : ask[tr[t].children[k]] # NoTree}
             IN  IF takes = {} THEN NoTree
                 ELSE ask[tr[t].children[
                        CHOOSE k \in takes : \A j \in takes : k <= j]]]

\* The recursion is defined.
LEMMA AskDefined ==
    ASSUME NEW tr, Sound(tr), NEW cell
    PROVE  \A u \in DOMAIN tr : Asks(tr, cell, Asked(tr, cell), u)
<1> DEFINE D == DOMAIN tr
           V == {NoTree} \union D
           val(u, f) == IF ~inside(tr[u].box, cell) THEN NoTree
                        ELSE IF tr[u].leaf_node THEN u
                        ELSE LET takes == {k \in Child : f[tr[u].children[k]] # NoTree}
                             IN  IF takes = {} THEN NoTree
                                 ELSE f[tr[u].children[
                                        CHOOSE k \in takes : \A j \in takes : k <= j]]
           step == [u \in D |-> [f \in [D -> V] |-> val(u, f)]]
           ask == CHOOSE f : f = [u \in DOMAIN tr |-> val(u, f)]
<1>0. PICK m, b : Heights(tr, m, b)
  BY DEF Sound
<1>1. \A u \in D : ~tr[u].leaf_node =>
         \A k \in Child : tr[u].children[k] \in D /\ m[tr[u].children[k]] < m[u]
  BY <1>0 DEF Sound, LeavesChildless, Heights
<1>2. ASSUME NEW u \in D, NEW f \in [D -> V]
      PROVE  val(u, f) \in V
  <2> DEFINE takes == {k \in Child : f[tr[u].children[k]] # NoTree}
             first == CHOOSE k \in takes : \A j \in takes : k <= j
  <2>1. takes # {} => first \in Child
    <3>1. takes \in SUBSET Child
      OBVIOUS
    <3> HIDE DEF takes
    <3>2. takes # {} => first \in takes
      BY <3>1, LeastPlace
    <3> HIDE DEF first
    <3> QED
      BY <3>1, <3>2
  <2>2. val(u, f) = IF ~inside(tr[u].box, cell) THEN NoTree
                    ELSE IF tr[u].leaf_node THEN u
                    ELSE IF takes = {} THEN NoTree ELSE f[tr[u].children[first]]
    OBVIOUS
  <2> HIDE DEF takes, first, val
  <2>3. ~tr[u].leaf_node /\ takes # {} => f[tr[u].children[first]] \in V
    BY <1>1, <2>1
  <2> QED
    BY <2>2, <2>3
<1>3. ASSUME NEW u \in D, NEW f, NEW g,
             ~tr[u].leaf_node => \A k \in Child : f[tr[u].children[k]] = g[tr[u].children[k]]
      PROVE  val(u, f) = val(u, g)
  <2> DEFINE takes(h) == {k \in Child : h[tr[u].children[k]] # NoTree}
             first(h) == CHOOSE k \in takes(h) : \A j \in takes(h) : k <= j
  <2>1. \A h : val(u, h) = IF ~inside(tr[u].box, cell) THEN NoTree
                           ELSE IF tr[u].leaf_node THEN u
                           ELSE IF takes(h) = {} THEN NoTree
                           ELSE h[tr[u].children[first(h)]]
    OBVIOUS
  <2>2. ~tr[u].leaf_node => takes(f) = takes(g)
    BY <1>3
  <2>3. ~tr[u].leaf_node => first(f) = first(g)
    BY <2>2
  <2>4. takes(f) # {} => first(f) \in Child
    <3>1. takes(f) \in SUBSET Child
      OBVIOUS
    <3> HIDE DEF takes
    <3>2. takes(f) # {} => first(f) \in takes(f)
      BY <3>1, LeastPlace
    <3> HIDE DEF first
    <3> QED
      BY <3>1, <3>2
  <2> HIDE DEF takes, first, val
  <2>5. ~tr[u].leaf_node /\ takes(f) # {} =>
           f[tr[u].children[first(f)]] = g[tr[u].children[first(g)]]
    BY <1>3, <2>3, <2>4
  <2> QED
    BY <2>1, <2>2, <2>5
<1>5. \A u \in D : \A f : f[u] = val(u, f) => Asks(tr, cell, f, u)
  BY DEF Asks
<1> HIDE DEF val
<1>6. step \in [D -> [[D -> V] -> V]]
      /\ \A u \in D : \A f \in [D -> V] : step[u][f] = val(u, f)
  BY <1>2
<1> HIDE DEF step
<1>7. ASSUME NEW u \in D, NEW f \in [D -> V], NEW g \in [D -> V],
             \A v \in D : m[v] < m[u] => f[v] = g[v]
      PROVE  step[u][f] = step[u][g]
  <2>1. ~tr[u].leaf_node => \A k \in Child : f[tr[u].children[k]] = g[tr[u].children[k]]
    BY <1>1, <1>7
  <2> QED
    BY <1>3, <1>6, <2>1
<1>8. [D -> V] # {}
  <2>1. [u \in D |-> NoTree] \in [D -> V]
    OBVIOUS
  <2> QED
    BY <2>1
<1>9. Recursive(D, V, m, b, step)
  BY <1>0, <1>6, <1>7, <1>8 DEF Recursive, Heights
<1>10. PICK f \in [D -> V] : \A u \in D : f[u] = step[u][f]
  BY <1>9, Recursion
<1>11. f = [u \in DOMAIN tr |-> val(u, f)]
  BY <1>6, <1>10
<1>12. ask = [u \in DOMAIN tr |-> val(u, ask)]
  BY <1>11
<1> HIDE DEF ask
<1>13. \A u \in D : ask[u] = val(u, ask)
  BY <1>12
<1>14. \A u \in D : Asks(tr, cell, ask, u)
  BY <1>5, <1>13
<1> QED
  BY <1>14 DEF ask, val, Asked

\* Every tree that is reached answers for what is below it.
LEMMA AllAnswer ==
    ASSUME NEW tr, NEW alloc, TreeShape(tr, alloc), NEW cell \in Cells, NEW ask,
           \A u \in DOMAIN tr : Asks(tr, cell, ask, u)
    PROVE  Answers(tr, cell, ask, Root)
<1> DEFINE D == DOMAIN tr
           Bad == {u \in D : Below(tr, Root, u) /\ ~Answers(tr, cell, ask, u)}
<1>1. /\ Sound(tr) /\ Root \in D
      /\ \A u \in D : Below(tr, Root, u) => Quartered(tr, u)
  BY DEF TreeShape
<1>2. PICK m, b : Heights(tr, m, b)
  BY <1>1 DEF Sound
<1>3. m \in [D -> Nat] /\ \A u \in D : ~tr[u].leaf_node =>
                             \A k \in Child : m[tr[u].children[k]] < m[u]
  BY <1>2 DEF Heights
<1>4. Bad = {}
  <2> SUFFICES ASSUME Bad # {} PROVE FALSE
    OBVIOUS
  <2>1. Bad \subseteq D
    OBVIOUS
  <2>2. PICK u \in Bad : \A v \in Bad : m[u] <= m[v]
    <3> HIDE DEF Bad
    <3> QED
      BY <1>3, <2>1, LeastElement
  <2>3. u \in D /\ Below(tr, Root, u) /\ ~Answers(tr, cell, ask, u)
    OBVIOUS
  <2>4. Quartered(tr, u)
    BY <1>1, <2>3
  <2>5. ASSUME ~tr[u].leaf_node, NEW k \in Child
        PROVE  Answers(tr, cell, ask, tr[u].children[k])
    <3> DEFINE c == tr[u].children[k]
    <3>1. c \in D /\ m[c] < m[u]
      BY <1>3, <2>3, <2>4, <2>5 DEF Quartered
    <3>2. Below(tr, u, c)
      <4>1. Below(tr, c, c)
        <5> HIDE DEF c
        <5> QED
          BY <1>1, <3>1, ReachEquation
      <4> QED
        BY <1>1, <2>3, <2>4, <2>5, <3>1, <4>1, BelowChildren
    <3> HIDE DEF c, Bad
    <3>3. Below(tr, Root, c)
      BY <1>1, <2>3, <3>1, <3>2, BelowBelow
    <3>4. c \notin Bad
      BY <1>3, <2>2, <2>3, <3>1
    <3> QED
      BY <3>1, <3>3, <3>4 DEF Bad, c
  <2> HIDE DEF Bad
  <2> QED
    BY <1>1, <2>3, <2>4, <2>5, AnswersOne
<1>5. Below(tr, Root, Root)
  BY <1>1, ReachEquation
<1> QED
  BY <1>1, <1>4, <1>5

\* cells is a set of cells.
LEMMA CellsAreCells == cells \subseteq Cells
<1>1. World.x \in Int /\ World.y \in Int /\ World.size \in Nat
  BY WorldAssumption, BoxFacts
<1> QED
  BY <1>1 DEF cells, Cells

\* ZonesTile follows from TreeInv.
LEMMA TreeInvTiles == TreeInv => ZonesTile
<1> SUFFICES ASSUME TreeInv, NEW cell \in cells
             PROVE  LET t == registerNewUser(cell)
                    IN  IF inside(World, cell)
                        THEN /\ t \in zones
                             /\ \A u \in zones : inside(tree[u].box, cell) <=> u = t
                        ELSE t = NoTree
  BY DEF ZonesTile
<1> DEFINE ask == Asked(tree, cell)
<1>1. TreeShape(tree, allocated) /\ Sound(tree) /\ cell \in Cells
  BY CellsAreCells DEF TreeInv, TreeShape
<1>2. registerNewUser(cell) = ask[Root]
  BY DEF registerNewUser, Asked
<1>3. \A u \in DOMAIN tree : Asks(tree, cell, ask, u)
  BY <1>1, AskDefined
<1> HIDE DEF ask
<1>4. Answers(tree, cell, ask, Root)
  BY <1>1, <1>3, AllAnswer
<1>5. tree[Root].box = World
  BY <1>1 DEF TreeShape
<1>6. \A u : u \in zones <=> u \in DOMAIN tree /\ Below(tree, Root, u) /\ tree[u].leaf_node
  BY <1>1, InTreeIsBelow DEF zones, TreeShape
<1> QED
  BY <1>2, <1>4, <1>5, <1>6 DEF Answers

\* ZonesTile: registerNewUser sends a unit anywhere in the world to the one zone
\* that has its cell, whatever trees of the tree were split and merged before.
THEOREM ZonesAlwaysTile == Spec => []ZonesTile
<1>1. OrderlyInv => ZonesTile
  BY TreeInvTiles DEF OrderlyInv, ZonesTile
<1> QED
  BY <1>1, TreeInvariant, PTL
-----------------------------------------------------------------------------
\* Boxes that fit each other: what a side touches along one stretch.

\* s is NodeSizeMin, doubled some times: halved again and again it never misses
\* NodeSizeMin.
Doubled(s) ==
    \E n \in Nat : \E size \in [0 .. n -> Nat] :
        /\ size[0] = NodeSizeMin /\ size[n] = s
        /\ \A i \in 1 .. n : size[i] = 2 * size[i - 1]

\* What SidesKnown rests on: the constructor of the balancer does not ask for it.
WorldFits == Doubled(World.size)

Multiple(a) == \E i \in Int : a = NodeSizeMin * i

\* A box of such a size, whole stretches away from the corner of the world.
Aligned(box) ==
    /\ box \in Square /\ Doubled(box.size)
    /\ Multiple(box.x - World.x) /\ Multiple(box.y - World.y)

\* Sums and differences of multiples.
LEMMA MultipleSums ==
    ASSUME NEW a \in Int, NEW b \in Int, Multiple(a), Multiple(b)
    PROVE  Multiple(a + b) /\ Multiple(a - b)
<1>1. PICK i \in Int : a = NodeSizeMin * i
  BY DEF Multiple
<1>2. PICK j \in Int : b = NodeSizeMin * j
  BY DEF Multiple
<1>3. NodeSizeMin \in Int
  BY SizesAssumption
<1>4. a + b = NodeSizeMin * (i + j) /\ a - b = NodeSizeMin * (i - j)
  BY <1>1, <1>2, <1>3
<1>5. i + j \in Int /\ i - j \in Int
  OBVIOUS
<1> QED
  BY <1>4, <1>5 DEF Multiple

\* NodeSizeMin, and 0, are multiples.
LEMMA MultipleOnes == Multiple(0) /\ Multiple(NodeSizeMin)
<1>1. 0 = NodeSizeMin * 0 /\ NodeSizeMin = NodeSizeMin * 1
  BY SizesAssumption
<1> QED
  BY <1>1 DEF Multiple

\* Whether a place is behind a multiple is a question of its stretch.
LEMMA AtLeast ==
    ASSUME NEW a \in Nat, NEW d \in Int, Multiple(d)
    PROVE  d <= a <=> d <= NodeSizeMin * (a \div NodeSizeMin)
<1> DEFINE q == a \div NodeSizeMin
<1>1. PICK i \in Int : d = NodeSizeMin * i
  BY DEF Multiple
<1>2. q \in Nat /\ NodeSizeMin * q <= a /\ a < NodeSizeMin * q + NodeSizeMin
  BY Quotient
<1>3. NodeSizeMin \in Nat /\ NodeSizeMin > 0
  BY SizesAssumption
<1> HIDE DEF q
<1>4. NodeSizeMin * q + NodeSizeMin = NodeSizeMin * (q + 1) /\ NodeSizeMin * q \in Int
  BY <1>2, <1>3
<1>5. ASSUME d <= a PROVE d <= NodeSizeMin * q
  <2>1. NodeSizeMin * i < NodeSizeMin * (q + 1)
    BY <1>1, <1>2, <1>3, <1>4, <1>5
  <2>2. i < q + 1
    <3> SUFFICES ASSUME i >= q + 1 PROVE FALSE
      BY <1>2
    <3>1. NodeSizeMin * i >= NodeSizeMin * (q + 1)
      BY <1>2, <1>3
    <3> QED
      BY <1>1, <1>2, <1>3, <1>4, <2>1, <3>1
  <2>3. i <= q
    BY <1>2, <2>2
  <2>4. NodeSizeMin * i <= NodeSizeMin * q
    BY <1>2, <1>3, <2>3
  <2> QED
    BY <1>1, <2>4
<1>6. ASSUME d <= NodeSizeMin * q PROVE d <= a
  BY <1>2, <1>4, <1>6
<1> QED
  BY <1>5, <1>6 DEF q

\* A stretch is in a part of whole stretches or apart from it.
LEMMA StretchInPart ==
    ASSUME NEW a \in Nat, NEW c \in Nat, a \div NodeSizeMin = c \div NodeSizeMin,
           NEW d \in Int, NEW w \in Int, Multiple(d), Multiple(w)
    PROVE  (d <= a /\ a < d + w) <=> (d <= c /\ c < d + w)
<1>1. d <= a <=> d <= c
  BY AtLeast
<1>2. d + w \in Int /\ Multiple(d + w)
  BY MultipleSums
<1>3. d + w <= a <=> d + w <= c
  BY <1>2, AtLeast
<1> QED
  BY <1>1, <1>2, <1>3

\* The first of the sizes is NodeSizeMin, and half of each other one is one.
LEMMA DoubledHalves ==
    ASSUME NEW s \in Nat, Doubled(s)
    PROVE  \/ s = NodeSizeMin
           \/ \E h \in Nat : s = 2 * h /\ Doubled(h)
<1>1. PICK n \in Nat : \E size \in [0 .. n -> Nat] :
        /\ size[0] = NodeSizeMin /\ size[n] = s
        /\ \A i \in 1 .. n : size[i] = 2 * size[i - 1]
  BY DEF Doubled
<1>2. PICK size \in [0 .. n -> Nat] :
        /\ size[0] = NodeSizeMin /\ size[n] = s
        /\ \A i \in 1 .. n : size[i] = 2 * size[i - 1]
  BY <1>1
<1>3. CASE n = 0
  BY <1>2, <1>3
<1>4. CASE n # 0
  <2> DEFINE less == [i \in 0 .. n - 1 |-> size[i]]
             h == size[n - 1]
  <2>1. n - 1 \in Nat /\ n \in 1 .. n /\ n - 1 \in 0 .. n
    BY <1>4
  <2>2. less \in [0 .. n - 1 -> Nat] /\ less[0] = NodeSizeMin /\ less[n - 1] = h
    BY <1>2, <2>1
  <2>3. \A i \in 1 .. n - 1 : less[i] = 2 * less[i - 1]
    <3> SUFFICES ASSUME NEW i \in 1 .. n - 1 PROVE less[i] = 2 * less[i - 1]
      OBVIOUS
    <3>1. i \in 1 .. n /\ i \in 0 .. n - 1 /\ i - 1 \in 0 .. n - 1
      BY <2>1
    <3> QED
      BY <1>2, <3>1
  <2> HIDE DEF less
  <2>4. Doubled(h)
    BY <2>1, <2>2, <2>3 DEF Doubled
  <2>5. h \in Nat /\ s = 2 * h
    BY <1>2, <2>1
  <2> QED
    BY <2>4, <2>5
<1> QED
  BY <1>3, <1>4

\* Such a size is whole stretches.
LEMMA DoubledMultiple ==
    ASSUME NEW s \in Nat, Doubled(s)
    PROVE  Multiple(s)
<1> DEFINE Bad == {r \in Nat : Doubled(r) /\ ~Multiple(r)}
<1> SUFFICES ASSUME Bad # {} PROVE FALSE
  OBVIOUS
<1>1. Bad \in SUBSET Nat
  OBVIOUS
<1>2. PICK r \in Bad : \A z \in Bad : r <= z
  <2> HIDE DEF Bad
  <2> QED
    BY <1>1, LeastNumber
<1>3. r \in Nat /\ Doubled(r) /\ ~Multiple(r)
  OBVIOUS
<1>4. r # NodeSizeMin
  BY <1>3, MultipleOnes
<1>5. PICK h \in Nat : r = 2 * h /\ Doubled(h)
  BY <1>3, <1>4, DoubledHalves
<1>6. CASE h < r
  <2>1. h \notin Bad
    <3> HIDE DEF Bad
    <3> QED
      BY <1>2, <1>3, <1>6
  <2>2. Multiple(h)
    BY <1>5, <2>1
  <2>3. Multiple(h + h)
    BY <2>2, MultipleSums
  <2>4. h + h = r
    BY <1>5
  <2> QED
    BY <1>3, <2>3, <2>4
<1>7. CASE ~(h < r)
  <2>1. r = 0
    BY <1>3, <1>5, <1>7
  <2> QED
    BY <1>3, <2>1, MultipleOnes
<1> QED
  BY <1>6, <1>7

\* The quarters of an aligned box that may be split are aligned.
LEMMA QuarterAligned ==
    ASSUME NEW box, Aligned(box), splittable(box), NEW k \in Child
    PROVE  Aligned(childBox(box, k))
<1> DEFINE half == box.size \div 2
           b == childBox(box, k)
<1>1. /\ box \in Square /\ Doubled(box.size) /\ box.size % 2 = 0 /\ half >= NodeSizeMin
      /\ Multiple(box.x - World.x) /\ Multiple(box.y - World.y)
  BY DEF Aligned, splittable
<1>2. /\ box.x \in Int /\ box.y \in Int /\ box.size \in Nat
      /\ World.x \in Int /\ World.y \in Int
  BY <1>1, BoxFacts, WorldAssumption
<1>3. half \in Nat /\ 2 * half = box.size
  BY <1>1, <1>2, Z3
<1>4. /\ b.x = IF k \in {3, 4} THEN box.x + half ELSE box.x
      /\ b.y = IF k \in {2, 3} THEN box.y + half ELSE box.y
      /\ b.size = half
  BY DEF childBox
<1>5. b \in Square
  BY <1>1, QuartersTile
<1> HIDE DEF half, b
<1>6. Doubled(half)
  <2>1. box.size # NodeSizeMin
    BY <1>1, <1>2, <1>3, SizesAssumption
  <2>2. PICK h \in Nat : box.size = 2 * h /\ Doubled(h)
    BY <1>1, <1>2, <2>1, DoubledHalves
  <2>3. h = half
    BY <1>3, <2>2
  <2> QED
    BY <2>2, <2>3
<1>7. Multiple(half)
  BY <1>3, <1>6, DoubledMultiple
<1>8. /\ Multiple((box.x - World.x) + half)
      /\ Multiple((box.y - World.y) + half)
  <2>1. ASSUME NEW d \in Int, Multiple(d) PROVE Multiple(d + half)
    BY <1>3, <1>7, <2>1, MultipleSums
  <2>2. box.x - World.x \in Int /\ box.y - World.y \in Int
    BY <1>2
  <2> QED
    BY <1>1, <2>1, <2>2
<1>9. /\ (box.x - World.x) + half = (box.x + half) - World.x
      /\ (box.y - World.y) + half = (box.y + half) - World.y
  BY <1>2, <1>3
<1>10. Multiple(b.x - World.x) /\ Multiple(b.y - World.y)
  BY <1>1, <1>4, <1>8, <1>9
<1> QED
  BY <1>4, <1>5, <1>6, <1>10 DEF Aligned, b

\* Where a cell that touches a box from outside is: along a side, or at a corner.
Side(box, cell) ==
    \/ /\ cell[1] >= box.x /\ cell[1] < box.x + box.size
       /\ cell[2] = box.y - 1 \/ cell[2] = box.y + box.size
    \/ /\ cell[2] >= box.y /\ cell[2] < box.y + box.size
       /\ cell[1] = box.x - 1 \/ cell[1] = box.x + box.size
Corner(box, cell) ==
    /\ cell[1] = box.x - 1 \/ cell[1] = box.x + box.size
    /\ cell[2] = box.y - 1 \/ cell[2] = box.y + box.size

\* Two cells share a side.
Beside(c, e) ==
    \/ c[1] = e[1] /\ c[2] - e[2] \in {-1, 1}
    \/ c[2] = e[2] /\ c[1] - e[1] \in {-1, 1}

LEMMA TouchedPlace ==
    ASSUME NEW box \in Square, NEW pair \in Around(box)
    PROVE  Side(box, pair[1]) \/ Corner(box, pair[1])
<1> DEFINE c == pair[1]
           e == pair[2]
<1>1. /\ c[1] \in Int /\ c[2] \in Int /\ e[1] \in Int /\ e[2] \in Int
      /\ ~inside(box, c) /\ inside(box, e) /\ Touch(c, e)
  BY DEF Around, Pairs, Cells
<1> HIDE DEF c, e
<1>2. Side(box, c) \/ Corner(box, c)
  BY <1>1, BoxFacts DEF Side, Corner, inside, Touch
<1> QED
  BY <1>2 DEF c

\* A cell along a side shares one with a cell of the box.
LEMMA SideBeside ==
    ASSUME NEW box \in Square, NEW c \in Cells, Side(box, c)
    PROVE  /\ ~inside(box, c)
           /\ \E e \in Cells : inside(box, e) /\ Beside(c, e)
<1>1. /\ box.x \in Int /\ box.y \in Int /\ box.size \in Nat /\ box.size > 0
      /\ c[1] \in Int /\ c[2] \in Int
  BY BoxFacts DEF Cells
<1>2. ~inside(box, c)
  BY <1>1 DEF Side, inside
<1> DEFINE low == <<c[1], box.y>>
           up == <<c[1], box.y + box.size - 1>>
           left == <<box.x, c[2]>>
           right == <<box.x + box.size - 1, c[2]>>
<1>3. low \in Cells /\ up \in Cells /\ left \in Cells /\ right \in Cells
  BY <1>1 DEF Cells
<1>4. CASE /\ c[1] >= box.x /\ c[1] < box.x + box.size
           /\ c[2] = box.y - 1
  <2>1. inside(box, low) /\ Beside(c, low)
    BY <1>1, <1>4 DEF inside, Beside
  <2> QED
    BY <1>2, <1>3, <2>1
<1>5. CASE /\ c[1] >= box.x /\ c[1] < box.x + box.size
           /\ c[2] = box.y + box.size
  <2>1. inside(box, up) /\ Beside(c, up)
    BY <1>1, <1>5 DEF inside, Beside
  <2> QED
    BY <1>2, <1>3, <2>1
<1>6. CASE /\ c[2] >= box.y /\ c[2] < box.y + box.size
           /\ c[1] = box.x - 1
  <2>1. inside(box, left) /\ Beside(c, left)
    BY <1>1, <1>6 DEF inside, Beside
  <2> QED
    BY <1>2, <1>3, <2>1
<1>7. CASE /\ c[2] >= box.y /\ c[2] < box.y + box.size
           /\ c[1] = box.x + box.size
  <2>1. inside(box, right) /\ Beside(c, right)
    BY <1>1, <1>7 DEF inside, Beside
  <2> QED
    BY <1>2, <1>3, <2>1
<1> QED
  BY <1>4, <1>5, <1>6, <1>7 DEF Side

\* Of two such cells, each is along a side of what the other is in.
LEMMA BesideBack ==
    ASSUME NEW box \in Square, NEW c \in Cells, NEW e \in Cells, Beside(c, e)
    PROVE  /\ Touch(c, e) /\ Touch(e, c) /\ Beside(e, c)
           /\ inside(box, c) /\ ~inside(box, e) => Side(box, e)
<1>1. /\ box.x \in Int /\ box.y \in Int /\ box.size \in Nat /\ box.size > 0
      /\ c[1] \in Int /\ c[2] \in Int /\ e[1] \in Int /\ e[2] \in Int
  BY BoxFacts DEF Cells
<1>2. Touch(c, e) /\ Touch(e, c) /\ Beside(e, c)
  BY <1>1 DEF Touch, Beside
<1>3. inside(box, c) /\ ~inside(box, e) => Side(box, e)
  BY <1>1 DEF inside, Side, Beside
<1> QED
  BY <1>2, <1>3

\* A cell that touches a box and has the slot of one along a side is along that
\* side, in the same stretch, and no box that fits parts them.
LEMMA SameSlotSide ==
    ASSUME NEW box, Aligned(box), NEW c \in Cells, Side(box, c),
           NEW e \in Cells, Side(box, e) \/ Corner(box, e),
           getNeighborIndex(box, e) = getNeighborIndex(box, c)
    PROVE  /\ Side(box, e)
           /\ \A b : Aligned(b) => (inside(b, c) <=> inside(b, e))
<1>1. /\ box \in Square /\ box.x \in Int /\ box.y \in Int /\ box.size \in Nat /\ box.size > 0
      /\ c[1] \in Int /\ c[2] \in Int /\ e[1] \in Int /\ e[2] \in Int
  BY BoxFacts DEF Cells, Aligned
<1>2. ~inside(box, c) /\ ~inside(box, e)
  BY <1>1 DEF Side, Corner, inside
<1>3. /\ across(box, c) = across(box, e) /\ along(box, c) = along(box, e)
      /\ stretch(box, c) = stretch(box, e)
  BY <1>1, <1>2, SlotsApart
<1>4. Side(box, e)
  BY <1>1, <1>3 DEF Side, Corner, across, along
<1>5. \/ /\ c[2] = e[2] /\ c[1] - box.x \in Nat /\ e[1] - box.x \in Nat
         /\ (c[1] - box.x) \div NodeSizeMin = (e[1] - box.x) \div NodeSizeMin
      \/ /\ c[1] = e[1] /\ c[2] - box.y \in Nat /\ e[2] - box.y \in Nat
         /\ (c[2] - box.y) \div NodeSizeMin = (e[2] - box.y) \div NodeSizeMin
  <2>1. CASE across(box, c) = 0
    <3>1. /\ stretch(box, c) = (c[1] - box.x) \div NodeSizeMin
          /\ stretch(box, e) = (e[1] - box.x) \div NodeSizeMin
      BY <1>3, <2>1 DEF stretch
    <3>2. c[2] = e[2] /\ c[1] - box.x \in Nat /\ e[1] - box.x \in Nat
      BY <1>1, <1>3, <1>4, <2>1 DEF Side, across, along
    <3> QED
      BY <1>3, <3>1, <3>2
  <2>2. CASE across(box, c) # 0
    <3>1. along(box, c) = 0
      BY <1>1, <2>2 DEF Side, across, along
    <3>2. /\ stretch(box, c) = (c[2] - box.y) \div NodeSizeMin
          /\ stretch(box, e) = (e[2] - box.y) \div NodeSizeMin
      BY <1>3, <2>2, <3>1 DEF stretch
    <3>3. c[1] = e[1] /\ c[2] - box.y \in Nat /\ e[2] - box.y \in Nat
      BY <1>1, <1>3, <1>4, <2>2, <3>1 DEF Side, across, along
    <3> QED
      BY <1>3, <3>2, <3>3
  <2> QED
    BY <2>1, <2>2
<1>6. ASSUME NEW b, Aligned(b) PROVE inside(b, c) <=> inside(b, e)
  <2>1. /\ b.x \in Int /\ b.y \in Int /\ b.size \in Nat /\ b.size > 0
        /\ World.x \in Int /\ World.y \in Int
        /\ Multiple(b.x - World.x) /\ Multiple(b.y - World.y)
        /\ Multiple(box.x - World.x) /\ Multiple(box.y - World.y)
    BY <1>6, BoxFacts, WorldAssumption DEF Aligned
  <2>2. Multiple(b.size)
    BY <1>6, <2>1, DoubledMultiple DEF Aligned
  <2> DEFINE dx == b.x - box.x
             dy == b.y - box.y
  <2>3. Multiple(dx) /\ dx \in Int
    <3>1. Multiple((b.x - World.x) - (box.x - World.x))
      <4>1. b.x - World.x \in Int /\ box.x - World.x \in Int
        BY <1>1, <2>1
      <4> QED
        BY <2>1, <4>1, MultipleSums
    <3>2. (b.x - World.x) - (box.x - World.x) = dx
      BY <1>1, <2>1
    <3> QED
      BY <1>1, <2>1, <3>1, <3>2
  <2>4. Multiple(dy) /\ dy \in Int
    <3>1. Multiple((b.y - World.y) - (box.y - World.y))
      <4>1. b.y - World.y \in Int /\ box.y - World.y \in Int
        BY <1>1, <2>1
      <4> QED
        BY <2>1, <4>1, MultipleSums
    <3>2. (b.y - World.y) - (box.y - World.y) = dy
      BY <1>1, <2>1
    <3> QED
      BY <1>1, <2>1, <3>1, <3>2
  <2>5. CASE /\ c[2] = e[2] /\ c[1] - box.x \in Nat /\ e[1] - box.x \in Nat
             /\ (c[1] - box.x) \div NodeSizeMin = (e[1] - box.x) \div NodeSizeMin
    <3> DEFINE p == c[1] - box.x
               q == e[1] - box.x
    <3>1. (dx <= p /\ p < dx + b.size) <=> (dx <= q /\ q < dx + b.size)
      <4> HIDE DEF p, q, dx
      <4>1. p \in Nat /\ q \in Nat /\ p \div NodeSizeMin = q \div NodeSizeMin
        BY <2>5 DEF p, q
      <4> QED
        BY <2>1, <2>2, <2>3, <4>1, StretchInPart
    <3>2. (b.x <= c[1] /\ c[1] < b.x + b.size) <=> (b.x <= e[1] /\ e[1] < b.x + b.size)
      BY <1>1, <2>1, <3>1
    <3> QED
      BY <1>1, <2>1, <2>5, <3>2 DEF inside
  <2>6. CASE /\ c[1] = e[1] /\ c[2] - box.y \in Nat /\ e[2] - box.y \in Nat
             /\ (c[2] - box.y) \div NodeSizeMin = (e[2] - box.y) \div NodeSizeMin
    <3> DEFINE p == c[2] - box.y
               q == e[2] - box.y
    <3>1. (dy <= p /\ p < dy + b.size) <=> (dy <= q /\ q < dy + b.size)
      <4> HIDE DEF p, q, dy
      <4>1. p \in Nat /\ q \in Nat /\ p \div NodeSizeMin = q \div NodeSizeMin
        BY <2>6 DEF p, q
      <4> QED
        BY <2>1, <2>2, <2>4, <4>1, StretchInPart
    <3>2. (b.y <= c[2] /\ c[2] < b.y + b.size) <=> (b.y <= e[2] /\ e[2] < b.y + b.size)
      BY <1>1, <2>1, <3>1
    <3> QED
      BY <1>1, <2>1, <2>6, <3>2 DEF inside
  <2> QED
    BY <1>5, <2>5, <2>6
<1> QED
  BY <1>4, <1>6

\* The slot of a corner is for the cell there alone.
LEMMA SameSlotCorner ==
    ASSUME NEW box \in Square, NEW c \in Cells, Corner(box, c),
           NEW e \in Cells, Side(box, e) \/ Corner(box, e),
           getNeighborIndex(box, e) = getNeighborIndex(box, c)
    PROVE  e = c
<1>1. /\ box.x \in Int /\ box.y \in Int /\ box.size \in Nat /\ box.size > 0
      /\ c[1] \in Int /\ c[2] \in Int /\ e[1] \in Int /\ e[2] \in Int
      /\ c = <<c[1], c[2]>> /\ e = <<e[1], e[2]>>
  BY BoxFacts DEF Cells
<1>2. ~inside(box, c) /\ ~inside(box, e)
  BY <1>1 DEF Side, Corner, inside
<1>3. across(box, c) = across(box, e) /\ along(box, c) = along(box, e)
  BY <1>2, SlotsApart
<1>4. c[1] = e[1] /\ c[2] = e[2]
  BY <1>1, <1>3 DEF Side, Corner, across, along
<1> QED
  BY <1>1, <1>4

\* What a quarter touches is in its box, or touched by it; by a side if by a side
\* of the quarter.
LEMMA QuarterTouches ==
    ASSUME NEW box \in Square, box.size % 2 = 0, NEW k \in Child,
           NEW c \in Cells, ~inside(box, c)
    PROVE  /\ Side(childBox(box, k), c) => Side(box, c)
           /\ Corner(childBox(box, k), c) => Side(box, c) \/ Corner(box, c)
<1> DEFINE half == box.size \div 2
           b == childBox(box, k)
<1>1. /\ box.x \in Int /\ box.y \in Int /\ box.size \in Nat /\ box.size > 0
      /\ c[1] \in Int /\ c[2] \in Int
  BY BoxFacts DEF Cells
<1>2. half \in Nat /\ 2 * half = box.size /\ half > 0
  BY <1>1, Z3
<1>3. /\ b.x = IF k \in {3, 4} THEN box.x + half ELSE box.x
      /\ b.y = IF k \in {2, 3} THEN box.y + half ELSE box.y
      /\ b.size = half
  BY DEF childBox
<1> HIDE DEF half, b
<1>4. Side(b, c) => Side(box, c)
  BY <1>1, <1>2, <1>3 DEF Side, inside
<1>5. Corner(b, c) => Side(box, c) \/ Corner(box, c)
  BY <1>1, <1>2, <1>3 DEF Side, Corner, inside
<1> QED
  BY <1>4, <1>5 DEF b

-----------------------------------------------------------------------------
\* What border lists.

\* The four pairs that sides has for the i-th cell along each side.
row(box, i) ==
    LET last == box.size - 1
        at(dx, dy, ix, iy) == << <<box.x + dx, box.y + dy>>,
                                 <<box.x + ix, box.y + iy>> >>
    IN  << at(i - 1, -1, i - 1, 0), at(i - 1, box.size, i - 1, last),
           at(-1, i - 1, 0, i - 1), at(box.size, i - 1, last, i - 1) >>

\* Every pair of these rows is in sides, and nothing else.
LEMMA SidesRows ==
    ASSUME NEW box \in Square, NEW P,
           \A i \in 1 .. box.size : row(box, i) \in Seq(P)
    PROVE  /\ sides(box) \in Seq(P)
           /\ \A i \in 1 .. box.size : Range(row(box, i)) \subseteq Range(sides(box))
<1> DEFINE rows == [i \in 1 .. box.size |-> row(box, i)]
<1>1. sides(box) = FlattenSeq(rows)
  BY DEF sides, row
<1>2. box.size \in Nat \ {0}
  BY BoxFacts
<1>3. rows \in [1 .. box.size -> Seq(P)] /\ \A i \in 1 .. box.size : rows[i] = row(box, i)
  OBVIOUS
<1> HIDE DEF rows
<1>4. /\ FlattenSeq(rows) \in Seq(P)
      /\ \A i \in 1 .. box.size : Range(rows[i]) \subseteq Range(FlattenSeq(rows))
  BY <1>2, <1>3, FlattenSteps
<1> QED
  BY <1>1, <1>3, <1>4

\* The pairs of a row: below the box, above it, left and right of it.
lowPair(box, i)   == << <<box.x + (i - 1), box.y - 1>>, <<box.x + (i - 1), box.y>> >>
upPair(box, i)    == << <<box.x + (i - 1), box.y + box.size>>,
                        <<box.x + (i - 1), box.y + box.size - 1>> >>
leftPair(box, i)  == << <<box.x - 1, box.y + (i - 1)>>, <<box.x, box.y + (i - 1)>> >>
rightPair(box, i) == << <<box.x + box.size, box.y + (i - 1)>>,
                        <<box.x + box.size - 1, box.y + (i - 1)>> >>

LEMMA RowPairs ==
    ASSUME NEW box \in Square, NEW i \in 1 .. box.size
    PROVE  /\ row(box, i) = <<lowPair(box, i), upPair(box, i),
                              leftPair(box, i), rightPair(box, i)>>
           /\ lowPair(box, i) \in {pair \in Pairs : Side(box, pair[1])}
           /\ upPair(box, i) \in {pair \in Pairs : Side(box, pair[1])}
           /\ leftPair(box, i) \in {pair \in Pairs : Side(box, pair[1])}
           /\ rightPair(box, i) \in {pair \in Pairs : Side(box, pair[1])}
<1> USE DEF lowPair, upPair, leftPair, rightPair
<1>1. box.x \in Int /\ box.y \in Int /\ box.size \in Nat /\ box.size > 0
  BY BoxFacts
<1>2. row(box, i) = <<lowPair(box, i), upPair(box, i), leftPair(box, i), rightPair(box, i)>>
  <2>1. /\ box.x + 0 = box.x /\ box.y + 0 = box.y /\ box.x + -1 = box.x - 1 /\ box.y + -1 = box.y - 1
        /\ box.x + (box.size - 1) = box.x + box.size - 1
        /\ box.y + (box.size - 1) = box.y + box.size - 1
    BY <1>1
  <2> QED
    BY <2>1 DEF row
<1>3. /\ lowPair(box, i) \in Pairs /\ upPair(box, i) \in Pairs
      /\ leftPair(box, i) \in Pairs /\ rightPair(box, i) \in Pairs
  BY <1>1 DEF Pairs, Cells
<1>4. Side(box, lowPair(box, i)[1]) /\ Side(box, upPair(box, i)[1])
  BY <1>1 DEF Side
<1>5. Side(box, leftPair(box, i)[1]) /\ Side(box, rightPair(box, i)[1])
  BY <1>1 DEF Side
<1> QED
  BY <1>2, <1>3, <1>4, <1>5

\* sides is a list of pairs along the sides, and has every two cells that share
\* a side of which one is outside the box and one inside.
LEMMA SidesListed ==
    ASSUME NEW box \in Square
    PROVE  /\ sides(box) \in Seq({pair \in Pairs : Side(box, pair[1])})
           /\ \A c, e \in Cells : ~inside(box, c) /\ inside(box, e) /\ Beside(c, e)
                 => <<c, e>> \in Range(sides(box))
<1> DEFINE P == {pair \in Pairs : Side(box, pair[1])}
<1>1. box.x \in Int /\ box.y \in Int /\ box.size \in Nat /\ box.size > 0
  BY BoxFacts
<1>2. ASSUME NEW i \in 1 .. box.size PROVE row(box, i) \in Seq(P)
  <2>1. /\ lowPair(box, i) \in P /\ upPair(box, i) \in P
        /\ leftPair(box, i) \in P /\ rightPair(box, i) \in P
    BY RowPairs
  <2> HIDE DEF P
  <2>2. <<lowPair(box, i), upPair(box, i), leftPair(box, i), rightPair(box, i)>> \in Seq(P)
    BY <2>1, FourAreSeq
  <2> QED
    BY <2>2, RowPairs
<1>3. /\ sides(box) \in Seq(P)
      /\ \A i \in 1 .. box.size : Range(row(box, i)) \subseteq Range(sides(box))
  <2> HIDE DEF P
  <2> QED
    BY <1>2, SidesRows
<1>4. ASSUME NEW c \in Cells, NEW e \in Cells, ~inside(box, c), inside(box, e), Beside(c, e)
      PROVE  <<c, e>> \in Range(sides(box))
  <2>1. /\ c[1] \in Int /\ c[2] \in Int /\ e[1] \in Int /\ e[2] \in Int
        /\ c = <<c[1], c[2]>> /\ e = <<e[1], e[2]>>
    BY DEF Cells
  <2>2. \E i \in 1 .. box.size : <<c, e>> \in Range(row(box, i))
    <3>1. \A i \in 1 .. box.size : \A j \in 1 .. 4 : row(box, i)[j] \in Range(row(box, i))
      <4> SUFFICES ASSUME NEW i \in 1 .. box.size, NEW j \in 1 .. 4
                   PROVE  row(box, i)[j] \in Range(row(box, i))
        OBVIOUS
      <4>1. j \in DOMAIN row(box, i)
        BY RowPairs
      <4> QED
        BY <4>1 DEF Range
    <3>2. \/ c = <<e[1], box.y - 1>> /\ e[2] = box.y
          \/ c = <<e[1], box.y + box.size>> /\ e[2] = box.y + box.size - 1
          \/ c = <<box.x - 1, e[2]>> /\ e[1] = box.x
          \/ c = <<box.x + box.size, e[2]>> /\ e[1] = box.x + box.size - 1
      <4>1. \/ c[1] = e[1] /\ c[2] = box.y - 1 /\ e[2] = box.y
            \/ c[1] = e[1] /\ c[2] = box.y + box.size /\ e[2] = box.y + box.size - 1
            \/ c[2] = e[2] /\ c[1] = box.x - 1 /\ e[1] = box.x
            \/ c[2] = e[2] /\ c[1] = box.x + box.size /\ e[1] = box.x + box.size - 1
        BY <1>1, <1>4, <2>1 DEF inside, Beside
      <4> QED
        BY <2>1, <4>1
    <3> DEFINE i == e[1] - box.x + 1
               j == e[2] - box.y + 1
    <3>3. /\ i \in 1 .. box.size /\ j \in 1 .. box.size
          /\ box.x + (i - 1) = e[1] /\ box.y + (j - 1) = e[2]
      BY <1>1, <1>4, <2>1 DEF inside
    <3> HIDE DEF i, j
    <3>4. CASE c = <<e[1], box.y - 1>> /\ e[2] = box.y
      <4>1. row(box, i)[1] = <<c, e>>
        <5>1. row(box, i)[1] = lowPair(box, i)
          BY <3>3, RowPairs
        <5>2. lowPair(box, i) = << <<c[1], c[2]>>, <<e[1], e[2]>> >>
          BY <2>1, <3>3, <3>4 DEF lowPair
        <5> QED
          BY <2>1, <5>1, <5>2
      <4> QED
        BY <3>1, <3>3, <4>1
    <3>5. CASE c = <<e[1], box.y + box.size>> /\ e[2] = box.y + box.size - 1
      <4>1. row(box, i)[2] = <<c, e>>
        <5>1. row(box, i)[2] = upPair(box, i)
          BY <3>3, RowPairs
        <5>2. upPair(box, i) = << <<c[1], c[2]>>, <<e[1], e[2]>> >>
          BY <2>1, <3>3, <3>5 DEF upPair
        <5> QED
          BY <2>1, <5>1, <5>2
      <4> QED
        BY <3>1, <3>3, <4>1
    <3>6. CASE c = <<box.x - 1, e[2]>> /\ e[1] = box.x
      <4>1. row(box, j)[3] = <<c, e>>
        <5>1. row(box, j)[3] = leftPair(box, j)
          BY <3>3, RowPairs
        <5>2. leftPair(box, j) = << <<c[1], c[2]>>, <<e[1], e[2]>> >>
          BY <2>1, <3>3, <3>6 DEF leftPair
        <5> QED
          BY <2>1, <5>1, <5>2
      <4> QED
        BY <3>1, <3>3, <4>1
    <3>7. CASE c = <<box.x + box.size, e[2]>> /\ e[1] = box.x + box.size - 1
      <4>1. row(box, j)[4] = <<c, e>>
        <5>1. row(box, j)[4] = rightPair(box, j)
          BY <3>3, RowPairs
        <5>2. rightPair(box, j) = << <<c[1], c[2]>>, <<e[1], e[2]>> >>
          BY <2>1, <3>3, <3>7 DEF rightPair
        <5> QED
          BY <2>1, <5>1, <5>2
      <4> QED
        BY <3>1, <3>3, <4>1
    <3> QED
      BY <3>2, <3>4, <3>5, <3>6, <3>7
  <2> QED
    BY <1>3, <2>2
<1> QED
  BY <1>3, <1>4

\* Every cell that touches a box is behind a cell of its border.
LEMMA BorderLists ==
    ASSUME NEW box \in Square
    PROVE  /\ \A c \in Cells : Side(box, c) \/ Corner(box, c)
                 => \E i \in 1 .. Len(border(box)) : border(box)[i][1] = c
           /\ \A c, e \in Cells : ~inside(box, c) /\ inside(box, e) /\ Beside(c, e)
                 => \E i \in 1 .. Len(border(box)) : border(box)[i] = <<c, e>>
<1>1. corners(box) \in Seq(Pairs) /\ sides(box) \in Seq(Pairs) /\ border(box) \in Seq(Pairs)
  BY BorderTyped
<1>2. /\ Range(corners(box)) \subseteq Range(border(box))
      /\ Range(sides(box)) \subseteq Range(border(box))
  BY <1>1, ConcatRange DEF border
<1>3. \A pair \in Range(border(box)) :
         \E i \in 1 .. Len(border(box)) : border(box)[i] = pair
  BY <1>1, LenProperties DEF Range
<1>4. ASSUME NEW c \in Cells, NEW e \in Cells, ~inside(box, c), inside(box, e), Beside(c, e)
      PROVE  <<c, e>> \in Range(border(box))
  BY <1>2, <1>4, SidesListed
<1>5. ASSUME NEW c \in Cells, Side(box, c)
      PROVE  \E i \in 1 .. Len(border(box)) : border(box)[i][1] = c
  <2>1. PICK e \in Cells : ~inside(box, c) /\ inside(box, e) /\ Beside(c, e)
    BY <1>5, SideBeside
  <2>2. PICK i \in 1 .. Len(border(box)) : border(box)[i] = <<c, e>>
    BY <1>3, <1>4, <2>1
  <2> QED
    BY <2>2
<1>6. ASSUME NEW c \in Cells, Corner(box, c)
      PROVE  \E i \in 1 .. Len(border(box)) : border(box)[i][1] = c
  <2>1. box.x \in Int /\ box.y \in Int /\ box.size \in Nat
        /\ c[1] \in Int /\ c[2] \in Int /\ c = <<c[1], c[2]>>
    BY BoxFacts DEF Cells
  <2>2. /\ box.x + 0 = box.x /\ box.y + 0 = box.y /\ box.x + -1 = box.x - 1 /\ box.y + -1 = box.y - 1
    BY <2>1
  <2>3. \E j \in 1 .. 4 : corners(box)[j][1] = c /\ j \in DOMAIN corners(box)
    <3>1. /\ corners(box)[1][1] = <<box.x - 1, box.y - 1>>
          /\ corners(box)[2][1] = <<box.x - 1, box.y + box.size>>
          /\ corners(box)[3][1] = <<box.x + box.size, box.y + box.size>>
          /\ corners(box)[4][1] = <<box.x + box.size, box.y - 1>>
          /\ DOMAIN corners(box) = 1 .. 4
      BY <2>2 DEF corners
    <3> QED
      BY <1>6, <2>1, <3>1 DEF Corner
  <2>4. PICK j \in DOMAIN corners(box) : corners(box)[j][1] = c
    BY <2>3
  <2>5. corners(box)[j] \in Range(border(box))
    BY <1>2, <2>4 DEF Range
  <2> QED
    BY <1>3, <2>4, <2>5
<1> QED
  BY <1>3, <1>4, <1>5, <1>6

-----------------------------------------------------------------------------
\* What a split writes.

\* A slot of a child's table for a cell around it has what is behind such a cell.
LEMMA ChildTableFilled ==
    ASSUME NEW D, NEW tr \in [D -> Node(D)], NEW t \in D, tr[t].box.size % 2 = 0,
           NEW W, NoTree \in W, NEW kids, NEW k \in Child,
           \A pair \in Around(childBox(tr[t].box, k)) : behind(tr, t, kids, pair[1]) \in W,
           NEW box, box = childBox(tr[t].box, k), NEW b, b = border(box)
    PROVE  \A i \in 1 .. Len(b) : \E j \in 1 .. Len(b) :
              /\ getNeighborIndex(box, b[j][1]) = getNeighborIndex(box, b[i][1])
              /\ childTable(tr, t, kids, k)[getNeighborIndex(box, b[i][1])]
                    = behind(tr, t, kids, b[j][1])
<1> DEFINE n == Len(b)
           V == [Slot -> W]
           op == filling(V, tr, t, kids, k)
           slot(i) == getNeighborIndex(box, b[i][1])
           Right(a, i) == \E j \in 1 .. n : /\ slot(j) = slot(i)
                                           /\ a[slot(i)] = behind(tr, t, kids, b[j][1])
           G == [i \in 0 .. n |-> {a \in V : \A l \in 1 .. i : Right(a, l)}]
           table == childTable(tr, t, kids, k)
           empty == [s \in Slot |-> NoTree]
<1>1. IsFilled(table, W, tr, t, kids, k)
  BY ChildTableFold
<1>2. Folding(n, V, empty, op)
  BY <1>1 DEF IsFilled
<1>3. PICK it : Folded(it, n, V, empty, op) /\ table = it[1 .. n]
  BY <1>1 DEF IsFilled
<1>4. n \in Nat /\ empty \in V
  BY <1>2 DEF Folding
<1>5. box \in Square /\ \A i \in 1 .. n : b[i] \in Around(box)
  <2>1. tr[t] \in Node(D)
    OBVIOUS
  <2>2. tr[t].box \in Square
    BY <2>1 DEF Node
  <2>3. box \in Square
    BY <2>2, QuartersTile
  <2> QED
    BY <2>3, BorderPlaces
<1>6. \A i \in 1 .. n : slot(i) \in Slot /\ behind(tr, t, kids, b[i][1]) \in W
  BY <1>5, IndexIsSlot DEF Around, Pairs
<1>7. \A i \in 1 .. n : \A a \in V :
         op[i][a] = [a EXCEPT ![slot(i)] = behind(tr, t, kids, b[i][1])]
  BY DEF filling
<1> HIDE DEF n, op, table, empty, V
<1>8. ASSUME NEW i \in 1 .. n, NEW a \in G[i - 1]
      PROVE  op[i][a] \in G[i]
  <2>1. i - 1 \in 0 .. n /\ i \in 0 .. n
    BY <1>4
  <2>2. a \in V /\ \A l \in 1 .. i - 1 : Right(a, l)
    BY <2>1
  <2> DEFINE c == op[i][a]
  <2>3. c = [a EXCEPT ![slot(i)] = behind(tr, t, kids, b[i][1])]
    BY <1>7, <2>2
  <2>4. c \in V
    BY <1>6, <2>2, <2>3 DEF V
  <2>5. \A s \in Slot : c[s] = IF s = slot(i) THEN behind(tr, t, kids, b[i][1]) ELSE a[s]
    BY <1>6, <2>2, <2>3 DEF V
  <2> HIDE DEF c, slot
  <2>6. ASSUME NEW l \in 1 .. i PROVE Right(c, l)
    <3>1. l \in 1 .. n
      BY <1>4, <2>1
    <3>2. CASE slot(l) = slot(i)
      BY <1>6, <2>5, <3>1, <3>2
    <3>3. CASE slot(l) # slot(i)
      <4>1. l \in 1 .. i - 1
        BY <1>4, <3>3
      <4>2. c[slot(l)] = a[slot(l)]
        BY <1>6, <2>5, <3>1, <3>3
      <4> QED
        BY <2>2, <4>1, <4>2
    <3> QED
      BY <3>2, <3>3
  <2> HIDE DEF Right
  <2>7. c \in {d \in V : \A l \in 1 .. i : Right(d, l)}
    BY <2>4, <2>6
  <2> QED
    BY <2>1, <2>7 DEF c
<1>9. empty \in G[0] /\ \A i \in 0 .. n : G[i] \subseteq V
  BY <1>4
<1> HIDE DEF G
<1>10. table \in G[n]
  BY <1>2, <1>3, <1>8, <1>9, FoldReaches
<1>11. n \in 0 .. n
  BY <1>4
<1>12. \A l \in 1 .. n : Right(table, l)
  BY <1>10, <1>11 DEF G
<1> QED
  BY <1>12 DEF n, table

\* setNeighbor writes one slot of one table.
LEMMA SetSlot ==
    ASSUME NEW D, NEW tr \in [D -> Node(D)], NEW t \in D, NEW cell \in Cells, NEW n
    PROVE  /\ \A u \in D \ {t} : setNeighbor(tr, t, cell, n)[u] = tr[u]
           /\ \A s \in Slot : setNeighbor(tr, t, cell, n)[t].neighbors[s]
                 = IF s = getNeighborIndex(tr[t].box, cell) THEN n ELSE tr[t].neighbors[s]
<1> DEFINE ur == setNeighbor(tr, t, cell, n)
           i == getNeighborIndex(tr[t].box, cell)
<1>1. i \in Slot
  BY GetTyped, IndexIsSlot
<1>2. tr[t] \in Node(D) /\ tr[t].neighbors \in [Slot -> {NoTree} \union D]
  <2>1. tr[t] \in Node(D)
    OBVIOUS
  <2> QED
    BY <2>1 DEF Node
<1>3. ur = [tr EXCEPT ![t] = [tr[t] EXCEPT !.neighbors = [tr[t].neighbors EXCEPT ![i] = n]]]
  BY DEF setNeighbor
<1>4. \A u \in D \ {t} : ur[u] = tr[u]
  BY <1>3
<1>5. ur[t].neighbors = [tr[t].neighbors EXCEPT ![i] = n]
  BY <1>2, <1>3 DEF Node
<1> HIDE DEF ur, i
<1>6. \A s \in Slot : ur[t].neighbors[s] = IF s = i THEN n ELSE tr[t].neighbors[s]
  BY <1>1, <1>2, <1>5
<1> QED
  BY <1>4, <1>6 DEF ur, i

\* A pair of the border of t has slot s of the table of u written.
Hits(tr, t, pair, u, s) ==
    getNeighbor(tr, t, pair[1]) = u /\ getNeighborIndex(tr[u].box, pair[2]) = s

\* What a split makes of the tables: the children have theirs, and in another
\* the slots are written that a pair of the border is for.
Written(tr, t, kids, ur) ==
    LET b == border(tr[t].box)
    IN  /\ \A k \in Child : ur[kids[k]].neighbors = childTable(tr, t, kids, k)
        /\ \A u \in DOMAIN tr \ {t} : \A s \in Slot :
              \/ \E j \in 1 .. Len(b) : /\ Hits(tr, t, b[j], u, s)
                                        /\ ur[u].neighbors[s] = behind(tr, t, kids, b[j][2])
              \/ /\ ur[u].neighbors[s] = tr[u].neighbors[s]
                 /\ \A j \in 1 .. Len(b) : ~Hits(tr, t, b[j], u, s)

\* One round writes the slot that its pair is for.
LEMMA RoundWrites ==
    ASSUME NEW E, NoTree \notin E, NEW vr \in [E -> Node(E)], NEW tr, NEW t \in E, NEW who,
           NEW pair \in Pairs, who[pair[2]] \in {NoTree} \union E,
           vr[t].neighbors = tr[t].neighbors, vr[t].box = tr[t].box,
           NEW n, n = getNeighbor(tr, t, pair[1]), n # NoTree => n \in E /\ vr[n].box = tr[n].box
    PROVE  /\ Told(vr, t, who, pair) \in [E -> Node(E)]
           /\ SameButTables(vr, Told(vr, t, who, pair))
           /\ \A u \in E : \A s \in Slot :
                 Told(vr, t, who, pair)[u].neighbors[s]
                    = IF Hits(tr, t, pair, u, s) THEN who[pair[2]] ELSE vr[u].neighbors[s]
           /\ \A u \in E \ {n} : Told(vr, t, who, pair)[u].neighbors = vr[u].neighbors
<1> DEFINE xr == setNeighbor(vr, n, pair[2], who[pair[2]])
           told == Told(vr, t, who, pair)
<1>1. getNeighbor(vr, t, pair[1]) = n
  BY DEF getNeighbor
<1>2. told = IF n = NoTree THEN vr ELSE xr
  BY <1>1 DEF Told
<1>3. pair[2] \in Cells
  BY DEF Pairs
<1>4. SameButTables(vr, vr)
  BY DEF SameButTables
<1> HIDE DEF told
<1>5. CASE n = NoTree
  <2>1. \A u \in E : \A s : ~Hits(tr, t, pair, u, s)
    BY <1>5 DEF Hits
  <2> QED
    BY <1>2, <1>4, <1>5, <2>1 DEF told
<1>6. CASE n # NoTree
  <2>1. n \in E /\ vr[n].box = tr[n].box /\ told = xr
    BY <1>2, <1>6
  <2>2. xr \in [E -> Node(E)] /\ SameButTables(vr, xr)
    BY <1>3, <2>1, SetTyped
  <2>3. /\ \A u \in E \ {n} : xr[u] = vr[u]
        /\ \A s \in Slot : xr[n].neighbors[s]
              = IF s = getNeighborIndex(vr[n].box, pair[2]) THEN who[pair[2]] ELSE vr[n].neighbors[s]
    BY <1>3, <2>1, SetSlot
  <2> HIDE DEF xr
  <2>4. ASSUME NEW u \in E, NEW s \in Slot
        PROVE  xr[u].neighbors[s]
                 = IF Hits(tr, t, pair, u, s) THEN who[pair[2]] ELSE vr[u].neighbors[s]
    <3>1. CASE u = n
      <4>1. Hits(tr, t, pair, u, s) <=> s = getNeighborIndex(vr[n].box, pair[2])
        BY <2>1, <3>1 DEF Hits
      <4> QED
        BY <2>3, <3>1, <4>1
    <3>2. CASE u # n
      <4>1. ~Hits(tr, t, pair, u, s)
        BY <3>2 DEF Hits
      <4> QED
        BY <2>3, <3>2, <4>1
    <3> QED
      BY <3>1, <3>2
  <2> QED
    BY <2>1, <2>2, <2>3, <2>4 DEF told
<1> QED
  BY <1>5, <1>6

\* A split writes what Written says.
LEMMA SplitWrites ==
    ASSUME NEW D, NoTree \notin D, NEW tr \in [D -> Node(D)], NEW t \in D,
           tr[t].box.size % 2 = 0, Outside(tr),
           NEW W, NEW kids \in [Child -> W], NoTree \notin W, W \cap D = {},
           \A j, k \in Child : kids[j] = kids[k] => j = k
    PROVE  Written(tr, t, kids, split(tr, t, kids))
<1> DEFINE E == D \union {kids[k] : k \in Child}
           box == tr[t].box
           b == border(box)
           n == Len(b)
           made == withChildren(tr, t, kids)
           who == [cell \in edge(box) |-> behind(tr, t, kids, cell)]
           told == tellNeighbors(made, t, who)
           Own(vr) == /\ vr[t].neighbors = tr[t].neighbors
                      /\ \A k \in Child : vr[kids[k]].neighbors = childTable(tr, t, kids, k)
           V == {vr \in [E -> Node(E)] : SameButTables(made, vr) /\ Own(vr)}
           Hit(vr, u, s) == \E j \in 1 .. n : /\ Hits(tr, t, b[j], u, s)
                                             /\ vr[u].neighbors[s] = behind(tr, t, kids, b[j][2])
           Missed(vr, u, s, i) == /\ vr[u].neighbors[s] = tr[u].neighbors[s]
                                  /\ \A j \in 1 .. i : ~Hits(tr, t, b[j], u, s)
           G == [i \in 0 .. n |-> {vr \in V : \A u \in D \ {t} : \A s \in Slot :
                                                 Hit(vr, u, s) \/ Missed(vr, u, s, i)}]
<1>1. Grown(tr, t, kids, made) /\ Given(tr, t, kids, made)
  <2>1. t \notin W
    OBVIOUS
  <2> QED
    BY <2>1, WithChildrenGrown, TablesGiven
<1>2. box \in Square /\ DOMAIN tr = D
  <2>1. tr[t] \in Node(D)
    OBVIOUS
  <2> QED
    BY <2>1 DEF Node
<1>3. /\ n \in Nat /\ \A i \in 1 .. n : /\ b[i] \in Around(box) /\ b[i] \in Pairs
                                        /\ b[i][2] \in edge(box)
  <2>1. n \in Nat /\ DOMAIN b = 1 .. n /\ \A i \in 1 .. n : b[i] \in Around(box)
    BY <1>2, BorderPlaces
  <2> QED
    BY <2>1 DEF Around, edge, ToSet
<1>4. /\ made \in [E -> Node(E)] /\ DOMAIN made = E /\ t \in E /\ NoTree \notin E
      /\ \A u \in D : u \in E /\ made[u].box = tr[u].box
      /\ \A k \in Child : kids[k] \in E /\ kids[k] \notin D
  BY <1>1, <1>2 DEF Grown
<1>5. made \in V
  BY <1>1, <1>2, <1>4 DEF SameButTables, Given
<1>6. ASSUME NEW pair \in Around(box), pair[2] \in edge(box)
      PROVE  /\ pair \in Pairs
             /\ \E k \in Child : behind(tr, t, kids, pair[2]) = kids[k]
             /\ who[pair[2]] = behind(tr, t, kids, pair[2])
             /\ LET m == getNeighbor(tr, t, pair[1])
                IN  m # NoTree => m \in D \ {t}
  <2>1. pair[1] \in Cells /\ pair[2] \in Cells /\ inside(box, pair[2]) /\ pair \in Pairs
    BY DEF Around, Pairs
  <2>2. \E j \in Child : inside(childBox(box, j), pair[2])
    <3> HIDE DEF box
    <3> QED
      BY <1>2, <2>1, QuartersTile DEF box
  <2>3. \E k \in Child : behind(tr, t, kids, pair[2]) = kids[k]
    BY <2>1, <2>2 DEF behind
  <2>4. ~Apart(box, box)
    BY <2>1 DEF Apart
  <2>5. LET m == getNeighbor(tr, t, pair[1])
        IN  m = NoTree \/ (m \in D /\ Apart(tr[t].box, tr[m].box))
    BY <2>1, GetApart
  <2> QED
    BY <1>6, <2>1, <2>3, <2>4, <2>5
<1> HIDE DEF made, who, box
<1>7. ASSUME NEW vr \in V, NEW pair \in Around(box), pair[2] \in edge(box)
      PROVE  /\ Told(vr, t, who, pair) \in V
             /\ \A u \in D \ {t} : \A s \in Slot :
                   Told(vr, t, who, pair)[u].neighbors[s]
                      = IF Hits(tr, t, pair, u, s) THEN behind(tr, t, kids, pair[2])
                        ELSE vr[u].neighbors[s]
  <2> DEFINE m == getNeighbor(tr, t, pair[1])
             xr == Told(vr, t, who, pair)
  <2>1. /\ vr \in [E -> Node(E)] /\ SameButTables(made, vr)
        /\ vr[t].neighbors = tr[t].neighbors
        /\ \A k \in Child : vr[kids[k]].neighbors = childTable(tr, t, kids, k)
    OBVIOUS
  <2>2. \A u \in D : vr[u].box = tr[u].box
    BY <1>4, <2>1 DEF SameButTables
  <2>3. pair \in Pairs /\ who[pair[2]] = behind(tr, t, kids, pair[2]) /\ (m # NoTree => m \in D \ {t})
    BY <1>6, <1>7
  <2>4. who[pair[2]] \in {NoTree} \union E
    BY <1>4, <1>6, <1>7
  <2> HIDE DEF m, E, V
  <2>5. m # NoTree => m \in E /\ vr[m].box = tr[m].box
    BY <1>4, <2>2, <2>3
  <2>6. /\ xr \in [E -> Node(E)] /\ SameButTables(vr, xr)
        /\ \A u \in E : \A s \in Slot :
              xr[u].neighbors[s]
                 = IF Hits(tr, t, pair, u, s) THEN who[pair[2]] ELSE vr[u].neighbors[s]
        /\ \A u \in E \ {m} : xr[u].neighbors = vr[u].neighbors
    BY <1>4, <2>1, <2>2, <2>3, <2>4, <2>5, RoundWrites DEF m
  <2> HIDE DEF xr
  <2>7. SameButTables(made, xr)
    BY <2>1, <2>6, SameTwice
  <2>8. /\ xr[t].neighbors = tr[t].neighbors
        /\ \A k \in Child : xr[kids[k]].neighbors = childTable(tr, t, kids, k)
    BY <1>4, <2>1, <2>3, <2>6
  <2>9. xr \in V
    BY <2>6, <2>7, <2>8 DEF V
  <2> QED
    BY <1>4, <2>3, <2>6, <2>9 DEF xr
<1>8. ASSUME NEW i \in 1 .. n, NEW vr \in G[i - 1]
      PROVE  Told(vr, t, who, b[i]) \in G[i]
  <2> DEFINE xr == Told(vr, t, who, b[i])
  <2>1. i - 1 \in 0 .. n /\ i \in 0 .. n
    BY <1>3
  <2>2. vr \in V /\ \A u \in D \ {t} : \A s \in Slot : Hit(vr, u, s) \/ Missed(vr, u, s, i - 1)
    BY <2>1
  <2> HIDE DEF V, n
  <2>3. /\ xr \in V
        /\ \A u \in D \ {t} : \A s \in Slot :
              xr[u].neighbors[s] = IF Hits(tr, t, b[i], u, s) THEN behind(tr, t, kids, b[i][2])
                                   ELSE vr[u].neighbors[s]
    BY <1>3, <1>7, <2>2
  <2> HIDE DEF xr
  <2>4. ASSUME NEW u \in D \ {t}, NEW s \in Slot
        PROVE  Hit(xr, u, s) \/ Missed(xr, u, s, i)
    <3>1. CASE Hits(tr, t, b[i], u, s)
      BY <2>3, <3>1
    <3>2. CASE ~Hits(tr, t, b[i], u, s)
      <4>1. xr[u].neighbors[s] = vr[u].neighbors[s]
        BY <2>3, <3>2
      <4>2. Hit(vr, u, s) => Hit(xr, u, s)
        BY <4>1
      <4>3. Missed(vr, u, s, i - 1) => Missed(xr, u, s, i)
        <5>1. \A j \in 1 .. i : j = i \/ j \in 1 .. i - 1
          BY <1>3
        <5> QED
          BY <3>2, <4>1, <5>1
      <4> HIDE DEF Hit, Missed
      <4> QED
        BY <2>2, <4>2, <4>3
    <3> QED
      BY <3>1, <3>2
  <2> HIDE DEF Hit, Missed
  <2>5. xr \in {yr \in V : \A u \in D \ {t} : \A s \in Slot : Hit(yr, u, s) \/ Missed(yr, u, s, i)}
    BY <2>3, <2>4
  <2> QED
    BY <2>1, <2>5 DEF xr
<1>9. made \in G[0] /\ \A i \in 0 .. n : G[i] \subseteq V
  <2>1. 0 \in 0 .. n /\ 1 .. 0 = {}
    BY <1>3
  <2>2. \A u \in D : made[u].neighbors = tr[u].neighbors
    BY <1>1, <1>2 DEF Given
  <2> HIDE DEF V, n
  <2> QED
    BY <1>5, <2>1, <2>2
<1> HIDE DEF V, G, b
<1>10. told \in G[n]
  <2>1. made[t].box = box /\ box \in Square
    BY <1>2, <1>4 DEF box
  <2>2. \A vr \in V : \A pair \in Around(made[t].box) :
           pair[2] \in edge(made[t].box) => Told(vr, t, who, pair) \in V
    BY <1>7, <2>1
  <2>3. b = border(made[t].box)
    BY <2>1 DEF b
  <2>4. \A i \in 0 .. Len(b) : G[i] \subseteq V
    BY <1>9
  <2>5. \A i \in 1 .. Len(b) : \A vr \in G[i - 1] : Told(vr, t, who, b[i]) \in G[i]
    BY <1>8
  <2> HIDE DEF n, told
  <2>6. tellNeighbors(made, t, who) \in G[Len(b)]
    BY <1>5, <1>9, <2>1, <2>2, <2>3, <2>4, <2>5, TellsReach
  <2> QED
    BY <2>6 DEF n, told
<1>11. /\ \A k \in Child : told[kids[k]].neighbors = childTable(tr, t, kids, k)
       /\ \A u \in D \ {t} : \A s \in Slot : Hit(told, u, s) \/ Missed(told, u, s, n)
       /\ told \in [E -> Node(E)]
  <2>1. n \in 0 .. n
    BY <1>3
  <2>2. told \in V /\ \A u \in D \ {t} : \A s \in Slot : Hit(told, u, s) \/ Missed(told, u, s, n)
    BY <1>10, <2>1 DEF G
  <2> QED
    BY <2>2 DEF V
<1> DEFINE ur == [told EXCEPT ![t].neighbors = [s \in Slot |-> NoTree]]
<1>12. split(tr, t, kids) = ur
  BY DEF split, made, who, box
<1> HIDE DEF told
<1>13. \A u \in E \ {t} : ur[u] = told[u]
  BY <1>11
<1> HIDE DEF ur
<1>14. /\ \A k \in Child : ur[kids[k]].neighbors = childTable(tr, t, kids, k)
       /\ \A u \in D \ {t} : \A s \in Slot : Hit(ur, u, s) \/ Missed(ur, u, s, n)
  <2>1. \A k \in Child : kids[k] \in E \ {t}
    BY <1>4
  <2>2. \A u \in D \ {t} : ur[u] = told[u]
    BY <1>4, <1>13
  <2> QED
    BY <1>11, <1>13, <2>1, <2>2
<1> QED
  BY <1>2, <1>12, <1>14 DEF Written, Hit, Missed, n, b, box

-----------------------------------------------------------------------------
\* What the tables know, as long as nothing was merged.

\* z is one of the leaves that are reached from the root.
Zone(tr, z) == z \in DOMAIN tr /\ Below(tr, Root, z) /\ tr[z].leaf_node

\* What the table of a zone with this box should have for the cell c: the zone
\* with c, none outside the world; at a corner maybe the tree that c was in when
\* the slot was last written, or none.
Knows(tr, box, c, v) ==
    /\ Side(box, c) => IF inside(World, c) THEN Zone(tr, v) /\ inside(tr[v].box, c)
                       ELSE v = NoTree
    /\ Corner(box, c) => v = NoTree \/ (v \in DOMAIN tr /\ inside(tr[v].box, c))

\* The boxes fit each other, and each zone knows what is behind its sides.
Neighborly(tr) ==
    /\ \A u \in DOMAIN tr : Aligned(tr[u].box)
    /\ \A u : Zone(tr, u) =>
          \A c \in Cells : Side(tr[u].box, c) \/ Corner(tr[u].box, c)
             => Knows(tr, tr[u].box, c, getNeighbor(tr, u, c))

\* A world that fits is aligned with itself.
LEMMA WorldAligned ==
    ASSUME WorldFits
    PROVE  Aligned(World)
<1>1. World.x - World.x = 0 /\ World.y - World.y = 0
  BY WorldAssumption, BoxFacts
<1> QED
  BY <1>1, WorldAssumption, MultipleOnes DEF Aligned, WorldFits

\* A cell of the world is in one zone, another in none.
LEMMA OneZone ==
    ASSUME NEW tr, NEW alloc, TreeShape(tr, alloc), NEW c \in Cells
    PROVE  IF inside(World, c)
           THEN \E z : /\ Zone(tr, z) /\ inside(tr[z].box, c)
                       /\ \A u : Zone(tr, u) /\ inside(tr[u].box, c) => u = z
           ELSE \A u : Zone(tr, u) => ~inside(tr[u].box, c)
<1> DEFINE ask == Asked(tr, c)
<1>1. \A u \in DOMAIN tr : Asks(tr, c, ask, u)
  BY AskDefined DEF TreeShape
<1> HIDE DEF ask
<1>2. Answers(tr, c, ask, Root)
  BY <1>1, AllAnswer
<1>3. tr[Root].box = World
  BY DEF TreeShape
<1> QED
  BY <1>2, <1>3 DEF Answers, Zone

\* What is known of one cell is known of every other with its slot.
LEMMA SameSlotKnows ==
    ASSUME WorldFits, NEW tr, \A u \in DOMAIN tr : Aligned(tr[u].box),
           NEW box, Aligned(box), NEW c \in Cells, Side(box, c) \/ Corner(box, c),
           NEW e \in Cells, Side(box, e) \/ Corner(box, e),
           getNeighborIndex(box, e) = getNeighborIndex(box, c),
           NEW v, Knows(tr, box, e, v)
    PROVE  Knows(tr, box, c, v)
<1>1. CASE Corner(box, c)
  <2>1. e = c
    BY <1>1, SameSlotCorner DEF Aligned
  <2> QED
    BY <2>1
<1>2. CASE Side(box, c) /\ ~Corner(box, c)
  <2>1. Side(box, e) /\ \A b : Aligned(b) => (inside(b, c) <=> inside(b, e))
    BY <1>2, SameSlotSide
  <2>2. inside(World, c) <=> inside(World, e)
    BY <2>1, WorldAligned
  <2>3. Zone(tr, v) => (inside(tr[v].box, c) <=> inside(tr[v].box, e))
    BY <2>1 DEF Zone
  <2> QED
    BY <1>2, <2>1, <2>2, <2>3 DEF Knows
<1> QED
  BY <1>1, <1>2

\* The leaf t may be split, and kids are the tokens of its children, all new.
Splits(tr, alloc, t, kids) ==
    /\ TreeShape(tr, alloc) /\ Outside(tr) /\ Zone(tr, t) /\ splittable(tr[t].box)
    /\ kids \in [Child -> {kids[k] : k \in Child}]
    /\ \A j, k \in Child : kids[j] = kids[k] => j = k
    /\ \A k \in Child : kids[k] # NoTree /\ kids[k] \notin DOMAIN tr

\* What a split does, in terms of what has been said of it.
SplitDone(tr, t, kids, ur) ==
    /\ tr \in [DOMAIN tr -> Node(DOMAIN tr)] /\ NoTree \notin DOMAIN tr
    /\ t \in DOMAIN tr /\ tr[t].box \in Square /\ tr[t].box.size % 2 = 0
    /\ DOMAIN ur = DOMAIN tr \union {kids[k] : k \in Child}
    /\ \A u \in DOMAIN tr : ur[u].box = tr[u].box
    /\ \A k \in Child : ur[kids[k]].box = childBox(tr[t].box, k)
    /\ Written(tr, t, kids, ur)
    /\ \A z : Zone(ur, z) <=> \/ z \in {kids[k] : k \in Child}
                              \/ Zone(tr, z) /\ z # t

LEMMA SplitFacts ==
    ASSUME NEW tr, NEW alloc, NEW t, NEW kids, Splits(tr, alloc, t, kids),
           NEW ur, ur = split(tr, t, kids)
    PROVE  SplitDone(tr, t, kids, ur)
<1> DEFINE D == DOMAIN tr
           K == {kids[k] : k \in Child}
<1>1. /\ TreeShape(tr, alloc) /\ Outside(tr) /\ splittable(tr[t].box)
      /\ t \in D /\ Below(tr, Root, t) /\ tr[t].leaf_node
      /\ kids \in [Child -> K] /\ \A j, k \in Child : kids[j] = kids[k] => j = k
      /\ NoTree \notin K /\ K \cap D = {}
  BY DEF Splits, Zone
<1>2. tr \in [D -> Node(D)] /\ NoTree \notin D /\ alloc \subseteq D
  BY <1>1 DEF TreeShape, Sound
<1>3. tr[t].box \in Square
  <2>1. tr[t] \in Node(D)
    BY <1>1, <1>2
  <2> QED
    BY <2>1 DEF Node
<1>4. tr[t].box.size % 2 = 0 /\ t \notin K /\ K \cap alloc = {}
  BY <1>1, <1>2 DEF splittable
<1> HIDE DEF D, K
<1>5. Grown(tr, t, kids, ur)
  BY <1>1, <1>2, <1>4, SplitGrows
<1>6. Written(tr, t, kids, ur)
  BY <1>1, <1>2, <1>4, SplitWrites
<1>7. \A u \in DOMAIN ur : Below(ur, Root, u) <=> \/ u \in {kids[k] : k \in Child}
                                                  \/ u \in DOMAIN tr /\ Below(tr, Root, u)
  <2>1. t \in DOMAIN tr
    BY <1>1 DEF D
  <2> QED
    BY <1>1, <1>4, <1>5, <2>1, SplitReach
<1> USE DEF D, K
<1>8. /\ DOMAIN ur = D \union K /\ ur[t].box = tr[t].box /\ ur[t].leaf_node = FALSE
      /\ \A k \in Child : /\ ur[kids[k]].box = childBox(tr[t].box, k)
                          /\ ur[kids[k]].leaf_node = TRUE
      /\ \A u \in D \ {t} : /\ ur[u].box = tr[u].box
                            /\ ur[u].leaf_node = tr[u].leaf_node
  BY <1>1, <1>5 DEF Grown
<1>9. ASSUME NEW z
      PROVE  Zone(ur, z) <=> z \in K \/ (Zone(tr, z) /\ z # t)
  <2>1. CASE z \in K
    <3>1. z \in DOMAIN ur /\ ur[z].leaf_node
      BY <1>8, <2>1
    <3>2. Below(ur, Root, z)
      BY <1>7, <2>1, <3>1
    <3> QED
      BY <2>1, <3>1, <3>2 DEF Zone
  <2>2. CASE z \in D
    <3>1. z \notin K
      BY <1>1, <2>2
    <3>2. Below(ur, Root, z) <=> Below(tr, Root, z)
      <4>1. z \in DOMAIN ur
        BY <1>8, <2>2
      <4> QED
        BY <1>7, <2>2, <3>1, <4>1
    <3> HIDE DEF D, K
    <3> QED
      BY <1>8, <2>2, <3>1, <3>2 DEF Zone, D
  <2>3. CASE z \notin D /\ z \notin K
    BY <1>8, <2>3 DEF Zone
  <2> QED
    BY <2>1, <2>2, <2>3
<1> QED
  BY <1>1, <1>2, <1>3, <1>4, <1>6, <1>8, <1>9 DEF SplitDone

\* What was known is still known of a cell that is not in the split leaf.
LEMMA KnowsStill ==
    ASSUME NEW tr, NEW alloc, NEW t, NEW kids, Splits(tr, alloc, t, kids),
           NEW ur, ur = split(tr, t, kids),
           NEW box, NEW c \in Cells, NEW v, Knows(tr, box, c, v),
           ~inside(tr[t].box, c) \/ ~Side(box, c)
    PROVE  Knows(ur, box, c, v)
<1>1. /\ DOMAIN ur = DOMAIN tr \union {kids[k] : k \in Child}
      /\ \A u \in DOMAIN tr : ur[u].box = tr[u].box
      /\ Zone(tr, v) /\ v # t => Zone(ur, v)
  <2>1. SplitDone(tr, t, kids, ur)
    BY SplitFacts
  <2> QED
    BY <2>1 DEF SplitDone
<1>2. ASSUME Side(box, c)
      PROVE  IF inside(World, c) THEN Zone(ur, v) /\ inside(ur[v].box, c) ELSE v = NoTree
  <2>1. CASE inside(World, c)
    <3>1. Zone(tr, v) /\ inside(tr[v].box, c)
      BY <1>2, <2>1 DEF Knows
    <3>2. v # t /\ v \in DOMAIN tr
      BY <1>2, <3>1 DEF Zone
    <3> QED
      BY <1>1, <2>1, <3>1, <3>2
  <2>2. CASE ~inside(World, c)
    BY <1>2, <2>2 DEF Knows
  <2> QED
    BY <2>1, <2>2
<1>3. Corner(box, c) => v = NoTree \/ (v \in DOMAIN ur /\ inside(ur[v].box, c))
  BY <1>1 DEF Knows
<1> QED
  BY <1>2, <1>3 DEF Knows

\* A child of the split leaf is what is to be known of a cell in it.
LEMMA KnowsKid ==
    ASSUME NEW tr, NEW alloc, NEW t, NEW kids, Splits(tr, alloc, t, kids),
           NEW ur, ur = split(tr, t, kids),
           NEW box, NEW c \in Cells, inside(tr[t].box, c)
    PROVE  Knows(ur, box, c, behind(tr, t, kids, c))
<1>1. /\ tr[t].box \in Square /\ tr[t].box.size % 2 = 0
      /\ DOMAIN ur = DOMAIN tr \union {kids[k] : k \in Child}
      /\ \A k \in Child : ur[kids[k]].box = childBox(tr[t].box, k)
      /\ \A k \in Child : Zone(ur, kids[k])
  <2>1. SplitDone(tr, t, kids, ur)
    BY SplitFacts
  <2> QED
    BY <2>1 DEF SplitDone
<1> DEFINE k == CHOOSE j \in Child : inside(childBox(tr[t].box, j), c)
<1>2. \E j \in Child : inside(childBox(tr[t].box, j), c)
  BY <1>1, QuartersTile
<1>3. k \in Child /\ inside(childBox(tr[t].box, k), c)
  BY <1>2
<1>4. behind(tr, t, kids, c) = kids[k]
  BY DEF behind
<1> HIDE DEF k
<1>5. Zone(ur, kids[k]) /\ inside(ur[kids[k]].box, c)
  BY <1>1, <1>3
<1>6. inside(World, c)
  <2>1. Zone(tr, t) /\ TreeShape(tr, alloc)
    BY DEF Splits
  <2> QED
    BY <2>1, OneZone
<1> QED
  BY <1>4, <1>5, <1>6 DEF Knows, Zone

\* What a child finds behind a cell around it is what is to be known of the cell.
LEMMA KnowsBehind ==
    ASSUME NEW tr, NEW alloc, NEW t, NEW kids, Splits(tr, alloc, t, kids), Neighborly(tr),
           NEW ur, ur = split(tr, t, kids), NEW k \in Child, NEW c \in Cells,
           Side(childBox(tr[t].box, k), c) \/ Corner(childBox(tr[t].box, k), c)
    PROVE  Knows(ur, childBox(tr[t].box, k), c, behind(tr, t, kids, c))
<1> DEFINE box == tr[t].box
           v == getNeighbor(tr, t, c)
<1>1. CASE inside(box, c)
  BY <1>1, KnowsKid
<1>2. CASE ~inside(box, c)
  <2>1. box \in Square /\ box.size % 2 = 0 /\ Zone(tr, t)
    <3>1. SplitDone(tr, t, kids, ur)
      BY SplitFacts
    <3> QED
      BY <3>1 DEF SplitDone, Splits
  <2>2. behind(tr, t, kids, c) = v
    BY <1>2 DEF behind
  <2>3. /\ Side(childBox(box, k), c) => Side(box, c)
        /\ Side(box, c) \/ Corner(box, c)
    <3> HIDE DEF box
    <3> QED
      BY <1>2, <2>1, QuarterTouches DEF box
  <2>4. Knows(tr, box, c, v)
    BY <2>1, <2>3 DEF Neighborly
  <2> HIDE DEF v
  <2>5. Knows(ur, box, c, v)
    BY <1>2, <2>4, KnowsStill
  <2>6. Side(box, c) => v = NoTree \/ (v \in DOMAIN ur /\ inside(ur[v].box, c))
    BY <2>5 DEF Knows, Zone
  <2>7. Knows(ur, childBox(box, k), c, v)
    BY <2>3, <2>5, <2>6 DEF Knows
  <2> QED
    BY <2>2, <2>7
<1> QED
  BY <1>1, <1>2

\* A child knows what is behind its sides.
LEMMA KidKnows ==
    ASSUME WorldFits, NEW tr, NEW alloc, NEW t, NEW kids, Splits(tr, alloc, t, kids),
           Neighborly(tr), NEW ur, ur = split(tr, t, kids), \A u \in DOMAIN ur : Aligned(ur[u].box),
           NEW k \in Child, NEW c \in Cells,
           Side(childBox(tr[t].box, k), c) \/ Corner(childBox(tr[t].box, k), c)
    PROVE  Knows(ur, childBox(tr[t].box, k), c, getNeighbor(ur, kids[k], c))
<1> DEFINE D == DOMAIN tr
           E == DOMAIN ur
           box == childBox(tr[t].box, k)
           b == border(box)
           W == {NoTree} \union E
<1>1. /\ tr \in [D -> Node(D)] /\ NoTree \notin D /\ t \in D
      /\ tr[t].box \in Square /\ tr[t].box.size % 2 = 0
      /\ E = D \union {kids[j] : j \in Child}
      /\ ur[kids[k]].box = box /\ Written(tr, t, kids, ur)
  <2>1. SplitDone(tr, t, kids, ur)
    BY SplitFacts
  <2> QED
    BY <2>1 DEF SplitDone
<1>2. ur[kids[k]].neighbors = childTable(tr, t, kids, k)
  BY <1>1 DEF Written
<1>3. kids[k] \in E /\ Aligned(box)
  BY <1>1
<1>4. \A pair \in Around(box) : behind(tr, t, kids, pair[1]) \in W
  <2>1. {NoTree} \union D \subseteq W /\ kids \in [Child -> W]
    BY <1>1 DEF Splits
  <2> HIDE DEF W, D, E, box
  <2> QED
    BY <1>1, <2>1, BehindTyped DEF Around, Pairs
<1>5. box \in Square /\ NoTree \in W
  BY <1>3 DEF Aligned
<1> HIDE DEF W, box
<1>6. PICK i \in 1 .. Len(b) : b[i][1] = c
  BY <1>5, BorderLists DEF box
<1> HIDE DEF b
<1>7. PICK j \in 1 .. Len(b) :
         /\ getNeighborIndex(box, b[j][1]) = getNeighborIndex(box, b[i][1])
         /\ childTable(tr, t, kids, k)[getNeighborIndex(box, b[i][1])] = behind(tr, t, kids, b[j][1])
  BY <1>1, <1>4, <1>5, ChildTableFilled DEF box, b
<1>8. b[j] \in Around(box) /\ b[j][1] \in Cells
  BY <1>5, <1>7, BorderPlaces DEF b, Around, Pairs
<1>9. Side(box, b[j][1]) \/ Corner(box, b[j][1])
  BY <1>5, <1>8, TouchedPlace
<1>10. Knows(ur, box, b[j][1], behind(tr, t, kids, b[j][1]))
  BY <1>8, <1>9, KnowsBehind DEF box
<1>11. getNeighbor(ur, kids[k], c) = behind(tr, t, kids, b[j][1])
  BY <1>1, <1>2, <1>6, <1>7 DEF getNeighbor
<1>12. Knows(ur, box, c, behind(tr, t, kids, b[j][1]))
  <2>1. Side(box, c) \/ Corner(box, c)
    BY DEF box
  <2> QED
    BY <1>3, <1>6, <1>7, <1>8, <1>9, <1>10, <2>1, SameSlotKnows
<1> QED
  BY <1>11, <1>12 DEF box

\* A cell of the split leaf is in no other zone.
LEMMA NotInOther ==
    ASSUME NEW tr, NEW alloc, TreeShape(tr, alloc), NEW t, Zone(tr, t), NEW u, Zone(tr, u),
           NEW c \in Cells, inside(tr[t].box, c), inside(tr[u].box, c)
    PROVE  u = t
BY OneZone

\* Of two cells that touch, the one inside a box is around the other's.
LEMMA TouchBack ==
    ASSUME NEW box \in Square, NEW other \in Square, NEW pair \in Around(box),
           inside(other, pair[1]), ~inside(other, pair[2])
    PROVE  Side(other, pair[2]) \/ Corner(other, pair[2])
<1> DEFINE back == <<pair[2], pair[1]>>
<1>1. /\ pair[1] \in Cells /\ pair[2] \in Cells /\ Touch(pair[1], pair[2])
  BY DEF Around, Pairs
<1>2. Touch(pair[2], pair[1])
  BY <1>1 DEF Touch, Cells
<1>3. back \in Pairs /\ back[1] = pair[2] /\ back[2] = pair[1]
  BY <1>1 DEF Pairs
<1> HIDE DEF back
<1>4. back \in Around(other)
  BY <1>2, <1>3 DEF Around
<1> QED
  BY <1>3, <1>4, TouchedPlace

\* What is written into the table of another zone is what is to be known there.
LEMMA HitKnows ==
    ASSUME WorldFits, NEW tr, NEW alloc, NEW t, NEW kids, Splits(tr, alloc, t, kids),
           Neighborly(tr), NEW ur, ur = split(tr, t, kids), \A z \in DOMAIN ur : Aligned(ur[z].box),
           NEW u, Zone(tr, u), u # t, NEW c \in Cells,
           Side(tr[u].box, c) \/ Corner(tr[u].box, c),
           NEW pair \in Around(tr[t].box),
           Hits(tr, t, pair, u, getNeighborIndex(tr[u].box, c))
    PROVE  Knows(ur, tr[u].box, c, behind(tr, t, kids, pair[2]))
<1>1. /\ tr[t].box \in Square /\ NoTree \notin DOMAIN tr
      /\ t \in DOMAIN tr /\ u \in DOMAIN tr /\ Zone(tr, t) /\ TreeShape(tr, alloc)
  <2>1. SplitDone(tr, t, kids, ur)
    BY SplitFacts
  <2> QED
    BY <2>1 DEF SplitDone, Splits, Zone
<1>2. /\ pair[1] \in Cells /\ pair[2] \in Cells /\ inside(tr[t].box, pair[2])
  BY DEF Around, Pairs
<1>3. getNeighbor(tr, t, pair[1]) = u
      /\ getNeighborIndex(tr[u].box, pair[2]) = getNeighborIndex(tr[u].box, c)
  BY DEF Hits
<1>4. Side(tr[t].box, pair[1]) \/ Corner(tr[t].box, pair[1])
  BY <1>1, TouchedPlace
<1>5. Knows(tr, tr[t].box, pair[1], u)
  BY <1>1, <1>2, <1>3, <1>4 DEF Neighborly
<1>6. inside(tr[u].box, pair[1])
  BY <1>1, <1>4, <1>5 DEF Knows
<1>7. ~inside(tr[u].box, pair[2])
  BY <1>1, <1>2, NotInOther
<1>8. Aligned(tr[u].box) /\ tr[u].box \in Square
  BY <1>1 DEF Neighborly, Aligned
<1>9. Side(tr[u].box, pair[2]) \/ Corner(tr[u].box, pair[2])
  BY <1>1, <1>6, <1>7, <1>8, TouchBack
<1>10. Knows(ur, tr[u].box, pair[2], behind(tr, t, kids, pair[2]))
  BY <1>2, KnowsKid
<1> QED
  BY <1>2, <1>3, <1>8, <1>9, <1>10, SameSlotKnows

\* Another tree keeps its box, and another zone stays one.
LEMMA BoxStays ==
    ASSUME NEW tr, NEW alloc, NEW t, NEW kids, Splits(tr, alloc, t, kids),
           NEW ur, ur = split(tr, t, kids), NEW u \in DOMAIN tr
    PROVE  ur[u].box = tr[u].box /\ (Zone(tr, u) /\ u # t => Zone(ur, u))
<1>1. /\ DOMAIN ur = DOMAIN tr \union {kids[k] : k \in Child}
      /\ \A w \in DOMAIN tr : ur[w].box = tr[w].box
      /\ Zone(tr, u) /\ u # t => Zone(ur, u)
  <2>1. SplitDone(tr, t, kids, ur)
    BY SplitFacts
  <2> QED
    BY <2>1 DEF SplitDone
<1> QED
  BY <1>1

\* Another zone knows what is behind its sides: it was told of the new children,
\* and of nothing else.
LEMMA OtherKnows ==
    ASSUME WorldFits, NEW tr, NEW alloc, NEW t, NEW kids, Splits(tr, alloc, t, kids),
           Neighborly(tr), NEW ur, ur = split(tr, t, kids), \A z \in DOMAIN ur : Aligned(ur[z].box),
           NEW u, Zone(tr, u), u # t, NEW c \in Cells,
           Side(tr[u].box, c) \/ Corner(tr[u].box, c)
    PROVE  Knows(ur, tr[u].box, c, getNeighbor(ur, u, c))
<1> DEFINE box == tr[t].box
           b == border(box)
           s == getNeighborIndex(tr[u].box, c)
           v == getNeighbor(ur, u, c)
<1>1. /\ box \in Square /\ t \in DOMAIN tr /\ u \in DOMAIN tr \ {t}
      /\ Zone(tr, t) /\ TreeShape(tr, alloc) /\ ur[u].box = tr[u].box
      /\ Written(tr, t, kids, ur)
  <2>1. u \in DOMAIN tr /\ Zone(tr, t) /\ TreeShape(tr, alloc)
    BY DEF Splits, Zone
  <2>2. tr[t].box \in Square /\ t \in DOMAIN tr
    <3>1. SplitDone(tr, t, kids, ur)
      BY SplitFacts
    <3> QED
      BY <3>1 DEF SplitDone
  <2>3. Written(tr, t, kids, ur)
    <3>1. SplitDone(tr, t, kids, ur)
      BY SplitFacts
    <3> QED
      BY <3>1 DEF SplitDone
  <2>4. ur[u].box = tr[u].box
    BY <2>1, BoxStays
  <2> HIDE DEF b, s, v
  <2> QED
    BY <2>1, <2>2, <2>3, <2>4
<1>2. Aligned(tr[u].box) /\ tr[u].box \in Square
  BY <1>1 DEF Neighborly, Aligned
<1>3. s \in Slot
  BY <1>2, IndexIsSlot
<1>4. v = ur[u].neighbors[s]
  BY <1>1 DEF getNeighbor
<1>5. \A j \in 1 .. Len(b) : b[j] \in Around(box)
  BY <1>1, BorderPlaces
<1>6. \/ \E j \in 1 .. Len(b) : Hits(tr, t, b[j], u, s) /\ v = behind(tr, t, kids, b[j][2])
      \/ v = tr[u].neighbors[s] /\ \A j \in 1 .. Len(b) : ~Hits(tr, t, b[j], u, s)
  BY <1>1, <1>3, <1>4 DEF Written
<1> HIDE DEF v, b
<1>7. CASE \E j \in 1 .. Len(b) : Hits(tr, t, b[j], u, s) /\ v = behind(tr, t, kids, b[j][2])
  <2>1. PICK j \in 1 .. Len(b) : Hits(tr, t, b[j], u, s) /\ v = behind(tr, t, kids, b[j][2])
    BY <1>7
  <2>2. b[j] \in Around(box)
    BY <1>5
  <2>3. Knows(ur, tr[u].box, c, behind(tr, t, kids, b[j][2]))
    BY <2>1, <2>2, HitKnows
  <2> QED
    BY <2>1, <2>3 DEF v
<1>8. CASE v = tr[u].neighbors[s] /\ \A j \in 1 .. Len(b) : ~Hits(tr, t, b[j], u, s)
  <2>1. v = getNeighbor(tr, u, c)
    BY <1>8 DEF getNeighbor
  <2>2. Knows(tr, tr[u].box, c, v)
    BY <2>1 DEF Neighborly
  <2>3. ~inside(box, c) \/ ~Side(tr[u].box, c)
    <3> SUFFICES ASSUME inside(box, c), Side(tr[u].box, c) PROVE FALSE
      OBVIOUS
    <3>1. PICK e \in Cells : inside(tr[u].box, e) /\ Beside(c, e)
      BY <1>2, SideBeside
    <3>2. ~inside(box, e)
      BY <1>1, <3>1, NotInOther
    <3>3. Beside(e, c) /\ Side(box, e)
      BY <1>1, <3>1, <3>2, BesideBack
    <3>4. PICK j \in 1 .. Len(b) : b[j] = <<e, c>>
      BY <1>1, <3>2, <3>3, BorderLists DEF b
    <3>5. Knows(tr, box, e, getNeighbor(tr, t, e))
      BY <1>1, <3>3 DEF Neighborly
    <3>6. inside(World, e)
      BY <1>1, <3>1, OneZone
    <3>7. Zone(tr, getNeighbor(tr, t, e)) /\ inside(tr[getNeighbor(tr, t, e)].box, e)
      BY <3>3, <3>5, <3>6 DEF Knows
    <3>8. getNeighbor(tr, t, e) = u
      BY <1>1, <3>1, <3>7, NotInOther
    <3>9. Hits(tr, t, b[j], u, s)
      BY <3>4, <3>8 DEF Hits
    <3> QED
      BY <1>8, <3>9
  <2>4. Knows(ur, tr[u].box, c, v)
    BY <2>2, <2>3, KnowsStill
  <2> QED
    BY <2>4 DEF v
<1> QED
  BY <1>6, <1>7, <1>8

\* A split of a leaf keeps what the zones know.
LEMMA SplitNeighborly ==
    ASSUME WorldFits, NEW tr, NEW alloc, NEW t, NEW kids, Splits(tr, alloc, t, kids), Neighborly(tr)
    PROVE  Neighborly(split(tr, t, kids))
<1> DEFINE ur == split(tr, t, kids)
<1>1. /\ t \in DOMAIN tr /\ DOMAIN ur = DOMAIN tr \union {kids[k] : k \in Child}
      /\ \A u \in DOMAIN tr : ur[u].box = tr[u].box
      /\ \A k \in Child : ur[kids[k]].box = childBox(tr[t].box, k)
      /\ \A z : Zone(ur, z) <=> \/ z \in {kids[k] : k \in Child}
                                \/ Zone(tr, z) /\ z # t
  <2> HIDE DEF ur
  <2>1. ur = split(tr, t, kids)
    BY DEF ur
  <2> QED
    <3>1. SplitDone(tr, t, kids, ur)
      BY <2>1, SplitFacts
    <3> QED
      BY <3>1 DEF SplitDone
<1> HIDE DEF ur
<1>2. Aligned(tr[t].box) /\ splittable(tr[t].box)
  BY <1>1 DEF Neighborly, Splits
<1>3. ASSUME NEW u \in DOMAIN ur PROVE Aligned(ur[u].box)
  <2>1. CASE u \in DOMAIN tr
    BY <1>1, <2>1 DEF Neighborly
  <2>2. CASE u \in {kids[k] : k \in Child}
    <3>1. PICK k \in Child : u = kids[k]
      BY <2>2
    <3>2. Aligned(childBox(tr[t].box, k))
      BY <1>2, QuarterAligned
    <3> QED
      BY <1>1, <3>1, <3>2
  <2> QED
    BY <1>1, <2>1, <2>2
<1>4. ASSUME NEW u, Zone(ur, u), NEW c \in Cells, Side(ur[u].box, c) \/ Corner(ur[u].box, c)
      PROVE  Knows(ur, ur[u].box, c, getNeighbor(ur, u, c))
  <2>1. ur = split(tr, t, kids) /\ \A z \in DOMAIN ur : Aligned(ur[z].box)
    BY <1>3 DEF ur
  <2>2. CASE u \in {kids[k] : k \in Child}
    <3>1. PICK k \in Child : u = kids[k]
      BY <2>2
    <3>2. ur[u].box = childBox(tr[t].box, k)
      BY <1>1, <3>1
    <3>3. Knows(ur, childBox(tr[t].box, k), c, getNeighbor(ur, kids[k], c))
      BY <1>4, <2>1, <3>2, KidKnows
    <3> QED
      BY <3>1, <3>2, <3>3
  <2>3. CASE Zone(tr, u) /\ u # t
    <3>1. ur[u].box = tr[u].box
      BY <1>1, <2>3 DEF Zone
    <3> QED
      BY <1>4, <2>1, <2>3, <3>1, OtherKnows
  <2> QED
    BY <1>1, <1>4, <2>2, <2>3
<1> QED
  BY <1>3, <1>4 DEF Neighborly, ur

\* As long as nothing was merged, the zones know their neighbors.
SidesInv == NeverMerged => Neighborly(tree)

\* A root alone is behind no side, and has none.
LEMMA RootAloneKnows ==
    ASSUME WorldFits
    PROVE  Neighborly(rootAlone)
<1>1. /\ DOMAIN rootAlone = {Root} /\ rootAlone[Root].box = World
      /\ \A s \in Slot : rootAlone[Root].neighbors[s] = NoTree
  BY DEF rootAlone, newTree
<1>2. ASSUME NEW c \in Cells, Side(World, c) \/ Corner(World, c)
      PROVE  Knows(rootAlone, World, c, getNeighbor(rootAlone, Root, c))
  <2>1. getNeighborIndex(World, c) \in Slot
    BY WorldAssumption, IndexIsSlot
  <2>2. getNeighbor(rootAlone, Root, c) = NoTree
    BY <1>1, <2>1 DEF getNeighbor
  <2>3. Side(World, c) => ~inside(World, c)
    BY WorldAssumption, SideBeside
  <2> QED
    BY <2>2, <2>3 DEF Knows
<1> QED
  BY <1>1, <1>2, WorldAligned DEF Neighborly, Zone

\* SidesInv holds at the start.
LEMMA SidesStart ==
    ASSUME WorldFits, Init
    PROVE  SidesInv
<1>1. tree = IF splittable(World) THEN rootSplit ELSE rootAlone
  BY DEF Init
<1>2. splittable(World) => Neighborly(rootSplit)
  <2> SUFFICES ASSUME splittable(World) PROVE Neighborly(rootSplit)
    OBVIOUS
  <2> DEFINE kids == [k \in Child |-> Root + k]
  <2>1. TreeShape(rootAlone, {Root}) /\ DOMAIN rootAlone = {Root} /\ Outside(rootAlone)
    BY RootAloneShape, RootAloneOutside
  <2>2. rootAlone[Root].leaf_node /\ rootAlone[Root].box = World
    BY DEF rootAlone, newTree
  <2>3. Below(rootAlone, Root, Root)
    BY <2>1, ReachEquation DEF TreeShape
  <2>4. /\ kids \in [Child -> {kids[k] : k \in Child}]
        /\ \A j, k \in Child : kids[j] = kids[k] => j = k
        /\ \A k \in Child : kids[k] # NoTree /\ kids[k] \notin {Root}
    BY DEF Child, Root, NoTree
  <2>5. rootSplit = split(rootAlone, Root, kids)
    BY DEF rootSplit
  <2> HIDE DEF kids
  <2>6. Splits(rootAlone, {Root}, Root, kids)
    BY <2>1, <2>2, <2>3, <2>4 DEF Splits, Zone
  <2> QED
    BY <2>5, <2>6, RootAloneKnows, SplitNeighborly
<1> QED
  BY <1>1, <1>2, RootAloneKnows DEF SidesInv

\* A granted request keeps SidesInv.
LEMMA SidesStep ==
    ASSUME WorldFits, TreeInv, AssertInv, SidesInv, [Next]_treeVars
    PROVE  SidesInv'
<1>1. /\ Len(free) \in Nat /\ frontier \in Nat \ {0} /\ DOMAIN tree = 1 .. frontier - 1
      /\ TreeShape(tree, allocated) /\ allocated \subseteq DOMAIN tree
      /\ requests \in Nat /\ firstFrontier \in Nat
  BY BoundAssumption, LenProperties DEF TreeInv, TreeShape, Registry, Lists, firstFrontier
<1>2. firstFrontier' = firstFrontier
  BY DEF firstFrontier
<1>3. CASE UNCHANGED treeVars
  BY <1>2, <1>3 DEF treeVars, SidesInv, NeverMerged
<1>4. CASE Next
  <2>1. PICK t \in allocated : /\ requests' = requests + 1
                               /\ \/ onMonitoringBalanceTreeStaticSplit(t)
                                  \/ onMonitoringBalanceTreeStaticMerge(t)
    BY <1>4 DEF Next, Granted
  <2>2. CASE onMonitoringBalanceTreeStaticMerge(t)
    <3>1. frontier' = frontier
      BY <2>2 DEF onMonitoringBalanceTreeStaticMerge
    <3>2. frontier <= firstFrontier + 4 * requests
      BY DEF AssertInv
    <3>3. ~NeverMerged'
      BY <1>1, <1>2, <2>1, <3>1, <3>2 DEF NeverMerged
    <3> QED
      BY <3>3 DEF SidesInv
  <2>3. CASE onMonitoringBalanceTreeStaticSplit(t)
    <3> DEFINE kids == [k \in Child |-> upcoming(k)]
    <3>1. /\ tree[t].leaf_node /\ splittable(tree[t].box)
          /\ tree' = split(tree, t, kids)
          /\ frontier' = IF Len(free) < 4 THEN frontier + 4 - Len(free) ELSE frontier
      BY <2>3 DEF onMonitoringBalanceTreeStaticSplit, canSplit
    <3> SUFFICES ASSUME NeverMerged'
                 PROVE  Neighborly(tree')
      BY DEF SidesInv
    <3>2. Len(free) = 0 /\ frontier = firstFrontier + 4 * requests
      BY <1>1, <1>2, <2>1, <3>1 DEF AssertInv, NeverMerged
    <3>3. Outside(tree) /\ Neighborly(tree)
      BY <3>2 DEF AssertInv, SidesInv, NeverMerged
    <3>4. \A k \in Child : kids[k] = frontier + k - 1
      BY <1>1, <3>2 DEF upcoming, Child
    <3>5. kids \in [Child -> {kids[k] : k \in Child}]
      OBVIOUS
    <3> HIDE DEF kids
    <3>6. /\ \A j, k \in Child : kids[j] = kids[k] => j = k
          /\ \A k \in Child : kids[k] # NoTree /\ kids[k] \notin DOMAIN tree
      BY <1>1, <3>4 DEF NoTree, Child
    <3>7. Zone(tree, t)
      BY <1>1, <2>1, <3>1 DEF Zone, TreeShape
    <3>8. Splits(tree, allocated, t, kids)
      BY <1>1, <3>1, <3>3, <3>5, <3>6, <3>7 DEF Splits
    <3> QED
      BY <3>1, <3>3, <3>8, SplitNeighborly
  <2> QED
    BY <2>1, <2>2, <2>3
<1> QED
  BY <1>3, <1>4

\* SidesKnown follows from what the zones know.
LEMMA SidesInvKnows ==
    ASSUME TreeInv, SidesInv
    PROVE  SidesKnown
<1> SUFFICES ASSUME NeverMerged, NEW t \in zones, NEW i \in 1 .. Len(sides(tree[t].box))
             PROVE  LET c == sides(tree[t].box)[i][1]
                    IN  getNeighbor(tree, t, c) = registerNewUser(c)
  BY DEF SidesKnown
<1> DEFINE c == sides(tree[t].box)[i][1]
           ask == Asked(tree, c)
<1>1. TreeShape(tree, allocated) /\ Neighborly(tree) /\ Sound(tree)
  BY DEF TreeInv, TreeShape, SidesInv
<1>2. \A u : Zone(tree, u) <=> u \in DOMAIN tree /\ InTree(u) /\ tree[u].leaf_node
  BY InTreeIsBelow DEF Zone
<1>3. Zone(tree, t)
  BY <1>1, <1>2 DEF zones, TreeShape
<1>4. tree[t].box \in Square
  BY <1>1, <1>3 DEF Neighborly, Aligned, Zone
<1>5. c \in Cells /\ Side(tree[t].box, c)
  <2>1. sides(tree[t].box) \in Seq({pair \in Pairs : Side(tree[t].box, pair[1])})
    BY <1>4, SidesListed
  <2>2. sides(tree[t].box)[i] \in {pair \in Pairs : Side(tree[t].box, pair[1])}
    BY <2>1, ElementOfSeq
  <2> QED
    BY <2>2 DEF Pairs
<1>6. registerNewUser(c) = ask[Root]
  BY DEF registerNewUser, Asked
<1> HIDE DEF c
<1>7. \A u \in DOMAIN tree : Asks(tree, c, ask, u)
  BY <1>1, AskDefined
<1> HIDE DEF ask
<1>8. Answers(tree, c, ask, Root)
  BY <1>1, <1>5, <1>7, AllAnswer
<1>9. tree[Root].box = World
  BY <1>1 DEF TreeShape
<1>10. Knows(tree, tree[t].box, c, getNeighbor(tree, t, c))
  BY <1>1, <1>3, <1>5 DEF Neighborly
<1>11. getNeighbor(tree, t, c) = ask[Root]
  BY <1>5, <1>8, <1>9, <1>10 DEF Answers, Knows, Zone
<1> QED
  BY <1>6, <1>11 DEF c

\* SidesKnown: in a world that is NODE_SIZE_MIN doubled some times, and as long
\* as nothing was merged, the table of every zone names the zone behind each cell
\* along its sides, and none behind the border of the world.
THEOREM SidesAlwaysKnown ==
    ASSUME WorldFits
    PROVE  Spec => []SidesKnown
<1>1. Init => SidesInv
  BY SidesStart
<1>2. OrderlyInv /\ AssertInv /\ SidesInv /\ [Next]_treeVars => SidesInv'
  <2>1. ~orderly /\ SidesInv /\ [Next]_treeVars => SidesInv'
    <3> SUFFICES ASSUME SidesInv, UNCHANGED treeVars PROVE SidesInv'
      BY Ended
    <3> QED
      BY DEF treeVars, SidesInv, NeverMerged, firstFrontier
  <2> QED
    BY <2>1, SidesStep DEF OrderlyInv
<1>3. OrderlyInv /\ AssertInv /\ SidesInv => SidesKnown
  BY SidesInvKnows DEF OrderlyInv, AssertInv, SidesKnown
<1> QED
  BY <1>1, <1>2, <1>3, AssertStart, AssertNext, TreeInvariant, PTL DEF Spec
=============================================================================
