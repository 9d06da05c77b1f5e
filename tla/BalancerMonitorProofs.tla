------------------------ MODULE BalancerMonitorProofs ------------------------
(***************************************************************************)
(* A patient user's monitor does not crash, for any world, sizes and number*)
(* of splits, merges, refreshes and proxies, as long as no datagram is     *)
(* lost.                                                                   *)
(***************************************************************************)
EXTENDS BalancerMonitor, ZoneProofs

\* What the monitor keeps of a tree, when the tokens ever given are D.
Entry(D) == [box : Square, leaf_node : BOOLEAN, children : [Child -> {NoTree} \union D],
             current_child_index_to_send : Nat]

Index(cp, t) == cp[t].current_child_index_to_send

\* In the copy cp children are lower too.
Lower(cp, m) ==
    \A t \in DOMAIN cp : \A k \in Child :
        cp[t].children[k] # NoTree => m[cp[t].children[k]] < m[t]

\* The trees and the copy have common heights: neither has a tree below itself.
Descends(tr, cp) == \E m, b : Heights(tr, m, b) /\ Lower(cp, m)

-----------------------------------------------------------------------------
\* What is below a tree in the copy.

\* below stays in every set that has the children of its elements.
LEMMA BelowStays ==
    ASSUME NEW cp, Cardinality(DOMAIN cp) \in Nat, NEW S \in SUBSET (DOMAIN cp),
           NEW ts \in SUBSET S, \A t \in S : heard(cp, t) \subseteq S
    PROVE  below(cp, ts) \subseteq S
<1> DEFINE C == Cardinality(DOMAIN cp)
           D == 0 .. C
           V == SUBSET S
           kids == [t \in DOMAIN cp |-> heard(cp, t)]
           next(n, f) == IF n = 0 THEN ts
                         ELSE LET found == f[n - 1]
                              IN  found \union UNION {kids[t] : t \in found}
           down == CHOOSE f : f = [n \in 0 .. Cardinality(DOMAIN cp) |-> next(n, f)]
           step == [n \in D |-> [f \in [D -> V] |-> next(n, f)]]
           m == [n \in D |-> n]
<1>1. below(cp, ts) = down[C]
  BY DEF below
<1>2. C \in Nat /\ m \in [D -> Nat] /\ (\A n \in D : m[n] < C + 1) /\ \A n \in D : m[n] = n
  OBVIOUS
<1>3. \A t \in S : kids[t] \subseteq S
  OBVIOUS
<1> HIDE DEF kids, m, C
<1>4. \A n \in D : n # 0 => n - 1 \in D
  BY <1>2
<1>5. \A n \in D : \A f \in [D -> V] : next(n, f) \in V
  <2> SUFFICES ASSUME NEW n \in D, NEW f \in [D -> V] PROVE next(n, f) \in V
    OBVIOUS
  <2>1. CASE n = 0
    BY <2>1
  <2>2. CASE n # 0
    <3>1. f[n - 1] \subseteq S
      BY <1>4, <2>2
    <3>2. f[n - 1] \union UNION {kids[t] : t \in f[n - 1]} \subseteq S
      BY <1>3, <3>1
    <3> QED
      BY <2>2, <3>2
  <2> QED
    BY <2>1, <2>2
<1>6. \A n \in D : \A f, g \in [D -> V] :
         (\A i \in D : m[i] < m[n] => f[i] = g[i]) => next(n, f) = next(n, g)
  <2> SUFFICES ASSUME NEW n \in D, NEW f \in [D -> V], NEW g \in [D -> V],
                      \A i \in D : m[i] < m[n] => f[i] = g[i]
               PROVE  next(n, f) = next(n, g)
    OBVIOUS
  <2>1. n # 0 => f[n - 1] = g[n - 1]
    BY <1>2, <1>4
  <2> QED
    BY <2>1
<1> HIDE DEF next
<1>7. step \in [D -> [[D -> V] -> V]] /\ \A n \in D : \A f \in [D -> V] : step[n][f] = next(n, f)
  BY <1>5
<1>8. [D -> V] # {}
  <2>1. [n \in D |-> ts] \in [D -> V]
    OBVIOUS
  <2> QED
    BY <2>1
<1> HIDE DEF step
<1>9. C + 1 \in Nat
  BY <1>2
<1>10. Recursive(D, V, m, C + 1, step)
  <2> HIDE DEF D, V
  <2>1. ASSUME NEW n \in D, NEW f \in [D -> V], NEW g \in [D -> V],
               \A i \in D : m[i] < m[n] => f[i] = g[i]
        PROVE  step[n][f] = step[n][g]
    <3>1. next(n, f) = next(n, g)
      BY <1>6, <2>1
    <3> QED
      BY <1>7, <3>1
  <2> QED
    BY <1>2, <1>7, <1>8, <1>9, <2>1 DEF Recursive
<1>11. \E f \in [D -> V] : \A n \in D : f[n] = step[n][f]
  <2> HIDE DEF D, V
  <2> QED
    BY <1>10, Recursion
<1>12. \E f : f = [n \in D |-> next(n, f)]
  BY <1>7, <1>11
<1>13. down = [n \in D |-> next(n, down)]
  BY <1>12 DEF C
<1> HIDE DEF down
<1> DEFINE Bad == {n \in D : ~(down[n] \subseteq S)}
<1>14. \A n \in D : down[n] = next(n, down)
  BY <1>13
<1>15. Bad = {}
  <2> SUFFICES ASSUME Bad # {} PROVE FALSE
    OBVIOUS
  <2>1. Bad \in SUBSET Nat
    BY <1>2
  <2>2. PICK n \in Bad : \A i \in Bad : n <= i
    BY <2>1, LeastNumber
  <2>3. n \in D /\ ~(down[n] \subseteq S)
    OBVIOUS
  <2>4. n # 0
    BY <1>14, <2>3 DEF next
  <2>5. n - 1 \in D /\ n - 1 \notin Bad
    BY <1>2, <1>4, <2>2, <2>3, <2>4
  <2>6. down[n - 1] \subseteq S
    BY <2>5
  <2>7. down[n - 1] \union UNION {kids[t] : t \in down[n - 1]} \subseteq S
    BY <1>3, <2>6
  <2>8. down[n] = down[n - 1] \union UNION {kids[t] : t \in down[n - 1]}
    BY <1>14, <2>3, <2>4 DEF next
  <2> QED
    BY <2>3, <2>7, <2>8
<1> QED
  BY <1>1, <1>2, <1>15

\* What is shown was heard of.
LEMMA ShowsCopy ==
    ASSUME NEW cp, Cardinality(DOMAIN cp) \in Nat
    PROVE  inCopy(cp) \subseteq DOMAIN cp
<1>1. {Root} \cap DOMAIN cp \in SUBSET (DOMAIN cp)
  OBVIOUS
<1>2. \A t \in DOMAIN cp : heard(cp, t) \subseteq DOMAIN cp
  BY DEF heard
<1> QED
  BY <1>1, <1>2, BelowStays DEF inCopy

\* A copy whose trees have heights has no tree below itself: what builds the
\* items of the window comes to an end.
LEMMA NotEndless ==
    ASSUME NEW tr, NEW cp, cp \in [DOMAIN cp -> Entry(DOMAIN tr)], NoTree \notin DOMAIN tr,
           Cardinality(DOMAIN cp) \in Nat, DOMAIN cp \subseteq DOMAIN tr, Descends(tr, cp)
    PROVE  ~endless(cp)
<1>1. PICK m, b : Heights(tr, m, b) /\ Lower(cp, m)
  BY DEF Descends
<1>2. m \in [DOMAIN tr -> Nat]
  BY <1>1 DEF Heights
<1>3. ASSUME NEW t \in DOMAIN cp, NEW c \in heard(cp, t)
      PROVE  c \in DOMAIN cp /\ m[c] < m[t]
  <2>1. c \in DOMAIN cp /\ c # 0 /\ \E k \in Child : cp[t].children[k] = c
    BY <1>3 DEF heard
  <2> QED
    BY <1>1, <2>1 DEF Lower, NoTree
<1>4. inCopy(cp) \subseteq DOMAIN cp
  BY ShowsCopy
<1>5. ASSUME NEW t \in DOMAIN cp
      PROVE  t \notin below(cp, heard(cp, t))
  <2> DEFINE S == {u \in DOMAIN cp : m[u] < m[t]}
  <2>1. heard(cp, t) \in SUBSET S
    BY <1>3
  <2>2. \A u \in S : heard(cp, u) \subseteq S
    <3> SUFFICES ASSUME NEW u \in S, NEW c \in heard(cp, u) PROVE c \in S
      OBVIOUS
    <3>1. c \in DOMAIN cp /\ m[c] < m[u]
      BY <1>3
    <3>2. m[c] \in Nat /\ m[u] \in Nat /\ m[t] \in Nat
      BY <1>2, <3>1
    <3> QED
      BY <3>1, <3>2
  <2>3. S \in SUBSET (DOMAIN cp) /\ t \notin S
    <3>1. m[t] \in Nat
      BY <1>2
    <3> QED
      BY <3>1
  <2> HIDE DEF S
  <2>4. below(cp, heard(cp, t)) \subseteq S
    BY <2>1, <2>2, <2>3, BelowStays
  <2> QED
    BY <2>3, <2>4
<1> QED
  BY <1>4, <1>5 DEF endless

-----------------------------------------------------------------------------
\* Datagrams on a channel.

\* What is read off a channel was first on it.
LEMMA TakenOff ==
    ASSUME NEW S, NEW s \in Seq(S), s # << >>
    PROVE  /\ Tail(s) \in Seq(S) /\ Head(s) \in S
           /\ ToSet(s) = {Head(s)} \union ToSet(Tail(s))
<1>1. Len(s) \in Nat /\ Len(s) > 0 /\ DOMAIN s = 1 .. Len(s) /\ \A i \in 1 .. Len(s) : s[i] \in S
  BY EmptySeq, LenProperties, ElementOfSeq
<1>2. /\ Tail(s) \in Seq(S) /\ Len(Tail(s)) = Len(s) - 1
      /\ \A i \in 1 .. Len(s) - 1 : Tail(s)[i] = s[i + 1]
  BY HeadTailProperties
<1>3. Head(s) = s[1]
  OBVIOUS
<1>4. DOMAIN Tail(s) = 1 .. Len(s) - 1
  BY <1>1, <1>2
<1>5. ASSUME NEW i \in 1 .. Len(s) PROVE s[i] \in {Head(s)} \union ToSet(Tail(s))
  <2>1. CASE i = 1
    BY <1>3, <2>1
  <2>2. CASE i # 1
    <3>1. i - 1 \in 1 .. Len(s) - 1 /\ Tail(s)[i - 1] = s[i]
      BY <1>1, <1>2, <2>2
    <3> QED
      BY <1>4, <3>1 DEF ToSet
  <2> QED
    BY <2>1, <2>2
<1>6. ASSUME NEW i \in 1 .. Len(s) - 1 PROVE Tail(s)[i] \in ToSet(s)
  <2>1. i + 1 \in 1 .. Len(s)
    BY <1>1
  <2> QED
    BY <1>1, <1>2, <2>1 DEF ToSet
<1>7. Head(s) \in ToSet(s) /\ Head(s) \in S
  BY <1>1, <1>3 DEF ToSet
<1> QED
  BY <1>1, <1>2, <1>4, <1>5, <1>6, <1>7 DEF ToSet

\* What is written to a channel is behind what was on it.
LEMMA PutBehind ==
    ASSUME NEW S, NEW s \in Seq(S), NEW r \in Seq(S)
    PROVE  /\ s \o r \in Seq(S)
           /\ ToSet(s \o r) = ToSet(s) \union ToSet(r)
           /\ s = << >> => s \o r = r
           /\ s # << >> => /\ s \o r # << >>
                           /\ Head(s \o r) = Head(s) /\ Tail(s \o r) = Tail(s) \o r
<1>1. /\ s \o r \in Seq(S) /\ Len(s \o r) = Len(s) + Len(r)
      /\ \A i \in 1 .. Len(s) : (s \o r)[i] = s[i]
      /\ \A i \in 1 .. Len(r) : (s \o r)[Len(s) + i] = r[i]
  BY ConcatProperties
<1>2. /\ Len(s) \in Nat /\ DOMAIN s = 1 .. Len(s) /\ Len(r) \in Nat /\ DOMAIN r = 1 .. Len(r)
      /\ DOMAIN (s \o r) = 1 .. Len(s) + Len(r)
  BY <1>1, LenProperties
<1>3. ToSet(s \o r) = ToSet(s) \union ToSet(r)
  <2>1. ASSUME NEW i \in 1 .. Len(s) + Len(r)
        PROVE  (s \o r)[i] \in ToSet(s) \union ToSet(r)
    <3>1. CASE i \in 1 .. Len(s)
      BY <1>1, <1>2, <3>1 DEF ToSet
    <3>2. CASE i \notin 1 .. Len(s)
      <4>1. i - Len(s) \in 1 .. Len(r) /\ Len(s) + (i - Len(s)) = i
        BY <1>2, <3>2
      <4>2. (s \o r)[i] = r[i - Len(s)]
        BY <1>1, <4>1
      <4> QED
        BY <1>2, <4>1, <4>2 DEF ToSet
    <3> QED
      BY <3>1, <3>2
  <2>2. ASSUME NEW i \in 1 .. Len(s) PROVE s[i] \in ToSet(s \o r)
    <3>1. i \in 1 .. Len(s) + Len(r)
      BY <1>2
    <3> QED
      BY <1>1, <1>2, <3>1 DEF ToSet
  <2>3. ASSUME NEW i \in 1 .. Len(r) PROVE r[i] \in ToSet(s \o r)
    <3>1. Len(s) + i \in 1 .. Len(s) + Len(r)
      BY <1>2
    <3> QED
      BY <1>1, <1>2, <3>1 DEF ToSet
  <2> QED
    BY <1>2, <2>1, <2>2, <2>3 DEF ToSet
<1>4. s = << >> => s \o r = r
  OBVIOUS
<1>5. ASSUME s # << >>
      PROVE  s \o r # << >> /\ Head(s \o r) = Head(s) /\ Tail(s \o r) = Tail(s) \o r
  <2>1. Len(s) > 0 /\ Len(s \o r) > 0
    BY <1>1, <1>2, <1>5, EmptySeq
  <2>2. s \o r # << >> /\ Head(s \o r) = Head(s)
    BY <1>1, <1>2, <2>1
  <2>3. /\ Tail(s) \in Seq(S) /\ Len(Tail(s)) = Len(s) - 1
        /\ \A i \in 1 .. Len(s) - 1 : Tail(s)[i] = s[i + 1]
    BY <1>5, HeadTailProperties
  <2>4. /\ Tail(s \o r) \in Seq(S) /\ Len(Tail(s \o r)) = Len(s) + Len(r) - 1
        /\ \A i \in 1 .. Len(s) + Len(r) - 1 : Tail(s \o r)[i] = (s \o r)[i + 1]
    BY <1>1, <2>2, HeadTailProperties
  <2>5. /\ Tail(s) \o r \in Seq(S) /\ Len(Tail(s) \o r) = Len(s) - 1 + Len(r)
        /\ \A i \in 1 .. Len(s) - 1 : (Tail(s) \o r)[i] = Tail(s)[i]
        /\ \A i \in 1 .. Len(r) : (Tail(s) \o r)[Len(s) - 1 + i] = r[i]
    BY <2>3, ConcatProperties
  <2>6. ASSUME NEW i \in 1 .. Len(s) + Len(r) - 1
        PROVE  Tail(s \o r)[i] = (Tail(s) \o r)[i]
    <3>1. CASE i <= Len(s) - 1
      <4>1. i \in 1 .. Len(s) - 1 /\ i + 1 \in 1 .. Len(s)
        BY <1>2, <3>1
      <4> QED
        BY <1>1, <2>3, <2>4, <2>5, <4>1
    <3>2. CASE i > Len(s) - 1
      <4> DEFINE j == i - (Len(s) - 1)
      <4>1. j \in 1 .. Len(r) /\ Len(s) - 1 + j = i /\ Len(s) + j = i + 1
        BY <1>2, <3>2
      <4> HIDE DEF j
      <4> QED
        BY <1>1, <2>4, <2>5, <4>1
    <3> QED
      BY <1>2, <3>1, <3>2
  <2>7. Len(Tail(s \o r)) = Len(Tail(s) \o r)
    BY <1>2, <2>4, <2>5
  <2>8. \A i \in 1 .. Len(Tail(s \o r)) : Tail(s \o r)[i] = (Tail(s) \o r)[i]
    BY <2>4, <2>6
  <2>9. Tail(s \o r) = Tail(s) \o r
    BY <2>4, <2>5, <2>7, <2>8, SeqEqual
  <2> QED
    BY <2>2, <2>9
<1> QED
  BY <1>1, <1>3, <1>4, <1>5

\* One datagram, and two.
LEMMA OneAndTwo ==
    ASSUME NEW S, NEW x \in S, NEW y \in S
    PROVE  /\ <<x>> \in Seq(S) /\ ToSet(<<x>>) = {x} /\ Head(<<x>>) = x /\ Tail(<<x>>) = << >>
           /\ <<x, y>> \in Seq(S) /\ ToSet(<<x, y>>) = {x, y} /\ Head(<<x, y>>) = x
           /\ Tail(<<x, y>>) = <<y>> /\ << >> \in Seq(S) /\ ToSet(<< >>) = {}
<1>1. <<x>> \in Seq(S) /\ <<x, y>> \in Seq(S) /\ << >> \in Seq(S)
  OBVIOUS
<1>2. Head(<<x>>) = x /\ Tail(<<x>>) = << >> /\ Head(<<x, y>>) = x /\ Tail(<<x, y>>) = <<y>>
  OBVIOUS
<1>3. ToSet(<<x>>) = {x} /\ ToSet(<< >>) = {}
  BY DEF ToSet
<1>4. DOMAIN <<x, y>> = {1, 2} /\ <<x, y>>[1] = x /\ <<x, y>>[2] = y
  OBVIOUS
<1>5. ToSet(<<x, y>>) = {x, y}
  BY <1>4 DEF ToSet
<1> QED
  BY <1>1, <1>2, <1>3, <1>5

\* An answer that is sent.
LEMMA PutLast ==
    ASSUME NEW S, NEW s \in Seq(S), NEW x \in S
    PROVE  /\ Append(s, x) \in Seq(S) /\ ToSet(Append(s, x)) = ToSet(s) \union {x}
           /\ Append(s, x) # << >>
           /\ Head(Append(s, x)) = IF s = << >> THEN x ELSE Head(s)
<1> DEFINE r == <<x>>
<1>1. Append(s, x) = s \o r /\ r \in Seq(S) /\ r # << >>
  BY AppendIsConcat
<1>2. ToSet(r) = {x} /\ Head(r) = x
  BY OneAndTwo
<1> HIDE DEF r
<1>3. /\ s \o r \in Seq(S) /\ ToSet(s \o r) = ToSet(s) \union ToSet(r)
      /\ s = << >> => s \o r = r
      /\ s # << >> => s \o r # << >> /\ Head(s \o r) = Head(s)
  BY <1>1, PutBehind
<1> QED
  BY <1>1, <1>2, <1>3

-----------------------------------------------------------------------------
\* The inductive invariant, as long as nothing is lost.

\* A tree that can be met from the root.
Live(t) == t \in DOMAIN tree /\ Below(tree, Root, t)

\* The copy is of places that were given.  What it says of a place that was
\* given back is that it has no children: only the tokens of leaves are.
IsCopy(cp) ==
    /\ cp \in [DOMAIN cp -> Entry(DOMAIN tree)]
    /\ DOMAIN cp \subseteq DOMAIN tree
    /\ Descends(tree, cp)
    /\ \A t \in DOMAIN cp : t \notin allocated => cp[t].children = NoChildren

CopyOK == IsCopy(token_to_tree_node)

\* A zone that was made by a merge keeps its old children in the copy, until
\* the monitor has asked for it again.
Stale(t) ==
    /\ t \in DOMAIN token_to_tree_node /\ t \in allocated /\ tree[t].leaf_node
    /\ token_to_tree_node[t].children # NoChildren

\* What generateNeighborRequests asks for.
Question == [type : {"NeighborInfo"}, success : {FALSE}, token : Nat, cell : Int \X Int]

\* What the balancer is asked for is in its tree, and what it has said of a
\* tree is still true.
Truth(a) ==
    /\ a.success /\ Live(a.token)
    /\ a.box = tree[a.token].box /\ a.leaf_node = tree[a.token].leaf_node
    /\ a.children = tree[a.token].children

MailOK ==
    /\ to_balancer \in Seq(Request) /\ to_monitor \in Seq(Answer)
    /\ proxies \in Nat /\ proxy_info_requests \in Seq(Nat)
    /\ neighbor_requests \in Seq(Question)
    /\ \A r \in ToSet(to_balancer) : r.type \in {"TreeInfo", "Split", "Merge"} => Live(r.token)
    /\ \A a \in ToSet(to_monitor) : a.type = "TreeInfo" => Truth(a)

\* The answer that makes server_info comes before all others.
InfoFirst ==
    ~server_info => \/ to_monitor # << >> /\ Head(to_monitor).type = "ServerInfo"
                    \/ /\ to_monitor = << >> /\ to_balancer # << >>
                       /\ Head(to_balancer).type = "ServerInfo"

Change == {"Split", "Merge"}
Asking == to_balancer # << >> /\ Head(to_balancer).type \in Change

\* A request to split or merge has nothing before it but the end of a walk,
\* and only refreshes behind it.
Alone ==
    /\ to_balancer # << >> => \A r \in ToSet(Tail(to_balancer)) : r.type \notin Change
    /\ Asking => /\ to_monitor = << >> /\ parent_stack = << >> /\ wait_token \in {0, Root}
                 /\ requests < MaxRequests /\ \A t : ~Stale(t)
                 /\ \A r \in ToSet(Tail(to_balancer)) : r = getBalanceTreeInfo(Root)

\* The walk is in the tree as it is.
OnStack(cp, stack) ==
    /\ stack \in Seq(DOMAIN cp)
    /\ \A p \in ToSet(stack) : /\ Live(p) /\ ~tree[p].leaf_node
                               /\ cp[p].children = tree[p].children
                               /\ Index(cp, p) > 0

WalkOK ==
    /\ wait_token # 0 => Live(wait_token)
    /\ OnStack(token_to_tree_node, parent_stack)

InFlight(t) == \/ \E r \in ToSet(to_balancer) : r.type = "TreeInfo" /\ r.token = t
             \/ \E a \in ToSet(to_monitor) : a.type = "TreeInfo" /\ a.token = t

\* The answer that is awaited is on its way, or what it answers.
Awaited == wait_token # 0 => InFlight(wait_token)

\* A new walk is about to begin.
Coming ==
    \/ \E r \in ToSet(to_balancer) : r.type = "ServerInfo"
    \/ \E a \in ToSet(to_monitor) : \/ a.type = "ServerInfo"
                                    \/ a.type = "Changed" /\ a.success

\* The walk still has to come by t.
Ahead(t) ==
    \/ wait_token # 0 /\ Below(tree, wait_token, t)
    \/ \E p \in ToSet(parent_stack) : \E k \in Child :
          /\ k > Index(token_to_tree_node, p)
          /\ Below(tree, tree[p].children[k], t)

StaleAhead == \A t : Stale(t) => Coming \/ Ahead(t)

\* The window shows what was heard of.
ShownOK == DOMAIN shown.zones \subseteq DOMAIN token_to_tree_node

\* Of an inner tree the copy knows the children that it has, or none yet.
CopyTrue ==
    \A t \in DOMAIN token_to_tree_node :
        ~tree[t].leaf_node =>
            token_to_tree_node[t].children \in {NoChildren, tree[t].children}

\* Between two walks the window shows what is in the copy.
ShownSame ==
    wait_token = 0 /\ parent_stack = << >> =>
        DOMAIN shown.zones \subseteq inCopy(token_to_tree_node)

\* What holds of a patient user's monitor while nothing is lost.
Calm ==
    /\ TreeInv /\ ~crashed /\ CopyOK /\ ShownOK /\ MailOK /\ InfoFirst /\ Alone
    /\ WalkOK /\ Awaited /\ StaleAhead

\* The inductive invariant.
MonitorInv == losses \in Nat /\ (losses = 0 /\ Patient => Calm /\ CopyTrue /\ ShownSame)

-----------------------------------------------------------------------------

\* The datagrams that are sent.
LEMMA Requests ==
    /\ Kind("ServerInfo") \in Request /\ Kind("ProxyCount") \in Request
    /\ \A t \in Nat : /\ About("TreeInfo", t) \in Request /\ About("ProxyInfo", t) \in Request
                      /\ About("Split", t) \in Request /\ About("Merge", t) \in Request
    /\ Question \subseteq Request /\ \A q \in Question : q.type = "NeighborInfo"
BY DEF Kind, About, Request, Question

\* What a handler of the balancer answers is an answer.
LEMMA AnswersSent ==
    /\ Kind("ServerInfo") \in Answer
    /\ \A n \in Nat : About("ProxyCount", n) \in Answer /\ About("ProxyInfo", n) \in Answer
    /\ changed(TRUE) \in Answer /\ changed(FALSE) \in Answer
BY DEF Kind, About, changed, Answer

\* Of a tree that is in its tree the balancer says what is true.
LEMMA TreeSaid ==
    ASSUME TreeInv, NEW t, Live(t)
    PROVE  LET a == getMonitoringInfo(t)
           IN  a \in Answer /\ a.type = "TreeInfo" /\ a.token = t /\ Truth(a)
<1> DEFINE a == getMonitoringInfo(t)
<1>1. /\ t \in allocated /\ t \in DOMAIN tree /\ tree[t] \in Node(DOMAIN tree)
      /\ DOMAIN tree \subseteq Nat
  BY DEF TreeInv, TreeShape, Sound, Live, Registry
<1>2. a = [type |-> "TreeInfo", success |-> t = 0 \/ t \in allocated, token |-> t,
           box |-> tree[t].box, leaf_node |-> tree[t].leaf_node, children |-> tree[t].children]
  BY <1>1 DEF getMonitoringInfo
<1>3. tree[t].box \in [x : Int, y : Int, size : Nat]
  BY <1>1, SizesAssumption DEF Node, Square
<1>4. tree[t].leaf_node \in BOOLEAN /\ tree[t].children \in [Child -> Nat]
  BY <1>1 DEF Node, NoTree
<1>5. (t = 0 \/ t \in allocated) \in BOOLEAN /\ (t = 0 \/ t \in allocated) = TRUE /\ t \in Nat
  BY <1>1
<1>6. a \in [type : {"TreeInfo"}, success : BOOLEAN, token : Nat, leaf_node : BOOLEAN,
             box : [x : Int, y : Int, size : Nat], children : [Child -> Nat]]
  BY <1>2, <1>3, <1>4, <1>5
<1>7. a \in Answer
  BY <1>6 DEF Answer
<1>8. a.type = "TreeInfo" /\ a.token = t /\ a.box = tree[t].box
      /\ a.leaf_node = tree[t].leaf_node /\ a.children = tree[t].children
  BY <1>2
<1>9. a.success
  <2>1. a = [type |-> "TreeInfo", success |-> TRUE, token |-> t, box |-> tree[t].box,
             leaf_node |-> tree[t].leaf_node, children |-> tree[t].children]
    BY <1>2, <1>5
  <2>2. a.success = TRUE
    BY <2>1
  <2> HIDE DEF a
  <2> QED
    BY <2>2
<1> HIDE DEF a
<1>10. Truth(a)
  BY <1>8, <1>9 DEF Truth
<1> QED
  BY <1>7, <1>8, <1>10 DEF a

\* The answer about a neighbor.
LEMMA NeighborSaid ==
    ASSUME NEW m \in Request, m.type = "NeighborInfo"
    PROVE  getMonitoringNeighborInfo(m) \in Answer /\ getMonitoringNeighborInfo(m).type = "NeighborInfo"
<1>1. m \in Question
  BY DEF Request, Question
<1>2. (m.token \in allocated) \in BOOLEAN
  OBVIOUS
<1>3. getMonitoringNeighborInfo(m) =
         [type |-> "NeighborInfo", success |-> m.token \in allocated, token |-> m.token, cell |-> m.cell]
  BY <1>1 DEF getMonitoringNeighborInfo, Question
<1>4. m.token \in Nat /\ m.cell \in Int \X Int
  BY <1>1 DEF Question
<1> QED
  BY <1>2, <1>3, <1>4 DEF Answer

-----------------------------------------------------------------------------
\* Steps that leave the trees and the walk alone.

treesVars == <<tree, allocated, free, frontier, requests, orderly>>
placeVars == <<wait_token, parent_stack, token_to_tree_node>>

\* A step that leaves the trees alone leaves alone what lives and which answers
\* are true.
LEMMA SameTrees ==
    ASSUME UNCHANGED tree
    PROVE  /\ \A t : Live(t)' <=> Live(t)
           /\ \A a : Truth(a)' <=> Truth(a)
BY DEF Live, Truth

\* The copy of a tree becomes stale with the trees or the copy only.
LEMMA SameStale ==
    ASSUME UNCHANGED <<tree, allocated, token_to_tree_node>>
    PROVE  \A t : Stale(t)' <=> Stale(t)
BY DEF Stale

\* A step that moves neither trees nor copy nor walk keeps Calm when it keeps
\* what is said of the channels.
LEMMA Frame ==
    ASSUME Calm, UNCHANGED treesVars, UNCHANGED placeVars, asserts_hold' \in BOOLEAN,
           ~crashed', ShownOK', MailOK', InfoFirst', Alone', Awaited', Coming => Coming'
    PROVE  Calm'
<1>1. /\ tree' = tree /\ allocated' = allocated /\ free' = free /\ frontier' = frontier
      /\ requests' = requests /\ orderly' = orderly
      /\ wait_token' = wait_token /\ parent_stack' = parent_stack
      /\ token_to_tree_node' = token_to_tree_node
  BY DEF treesVars, placeVars
<1>2. TreeInv'
  BY <1>1 DEF Calm, TreeInv
<1>3. CopyOK'
  BY <1>1 DEF Calm, CopyOK, IsCopy
<1>4. WalkOK'
  <2>1. \A t : Live(t)' <=> Live(t)
    BY <1>1, SameTrees
  <2> QED
    BY <1>1, <2>1 DEF Calm, WalkOK, OnStack
<1>5. StaleAhead'
  <2>1. \A t : Stale(t)' <=> Stale(t)
    BY <1>1, SameStale
  <2>2. \A t : Ahead(t)' <=> Ahead(t)
    BY <1>1 DEF Ahead, Index
  <2> QED
    BY <2>1, <2>2 DEF Calm, StaleAhead
<1> QED
  BY <1>2, <1>3, <1>4, <1>5 DEF Calm

\* The balancer answers.
LEMMA Answered ==
    ASSUME Calm, NEW k, k \notin Change, Takes(k), NEW a \in Answer, standardSend(a),
           UNCHANGED treesVars, asserts_hold' \in BOOLEAN, UNCHANGED proxies,
           k = "TreeInfo" => a.type = "TreeInfo" /\ a.token = Head(to_balancer).token,
           a.type = "TreeInfo" => Truth(a),
           k = "ServerInfo" => a.type = "ServerInfo"
    PROVE  Calm'
<1> DEFINE rest == Tail(to_balancer)
           r == Head(to_balancer)
<1>1. /\ to_balancer # << >> /\ r.type = k /\ to_balancer' = rest
      /\ to_monitor' = Append(to_monitor, a)
      /\ UNCHANGED placeVars /\ UNCHANGED <<server_info, crashed, proxy_info_requests, neighbor_requests>>
      /\ UNCHANGED shown
      /\ proxies' = proxies
  BY DEF Takes, standardSend, walkVars, proxyInfoVars, neighborVars, placeVars
<1>2. to_balancer \in Seq(Request) /\ to_monitor \in Seq(Answer)
  BY DEF Calm, MailOK
<1>3. rest \in Seq(Request) /\ ToSet(to_balancer) = {r} \union ToSet(rest)
  BY <1>1, <1>2, TakenOff
<1>4. /\ Append(to_monitor, a) \in Seq(Answer)
      /\ ToSet(Append(to_monitor, a)) = ToSet(to_monitor) \union {a}
      /\ Append(to_monitor, a) # << >>
      /\ Head(Append(to_monitor, a)) = IF to_monitor = << >> THEN a ELSE Head(to_monitor)
  BY <1>2, PutLast
<1>5. tree' = tree
  BY DEF treesVars
<1>6. (\A t : Live(t)' <=> Live(t)) /\ (\A b : Truth(b)' <=> Truth(b))
  BY <1>5, SameTrees
<1>7. rest # << >> => /\ Head(rest) \in ToSet(rest) /\ ToSet(Tail(rest)) \subseteq ToSet(rest)
  BY <1>3, TakenOff
<1> HIDE DEF rest, r
<1>8. MailOK'
  BY <1>1, <1>2, <1>3, <1>4, <1>6 DEF Calm, MailOK
<1>9. InfoFirst'
  BY <1>1, <1>4 DEF Calm, InfoFirst, r
<1>10. \A q \in ToSet(rest) : q.type \notin Change
  BY <1>1 DEF Calm, Alone, rest
<1>11. Alone'
  BY <1>1, <1>7, <1>10 DEF Alone, Asking
<1>12. Awaited'
  <2>1. \A t : InFlight(t) => InFlight(t)'
    <3> SUFFICES ASSUME NEW t, InFlight(t) PROVE InFlight(t)'
      OBVIOUS
    <3>1. CASE \E q \in ToSet(to_balancer) : q.type = "TreeInfo" /\ q.token = t
      <4>1. PICK q \in ToSet(to_balancer) : q.type = "TreeInfo" /\ q.token = t
        BY <3>1
      <4>2. CASE q = r
        BY <1>1, <1>4, <4>1, <4>2 DEF InFlight, r
      <4>3. CASE q \in ToSet(rest)
        BY <1>1, <4>1, <4>3 DEF InFlight
      <4> QED
        BY <1>3, <4>1, <4>2, <4>3
    <3>2. CASE \E b \in ToSet(to_monitor) : b.type = "TreeInfo" /\ b.token = t
      BY <1>1, <1>4, <3>2 DEF InFlight
    <3> QED
      BY <3>1, <3>2 DEF InFlight
  <2> QED
    BY <1>1, <2>1 DEF Calm, Awaited, placeVars
<1>13. Coming => Coming'
  <2> SUFFICES ASSUME Coming PROVE Coming'
    OBVIOUS
  <2>1. CASE \E q \in ToSet(to_balancer) : q.type = "ServerInfo"
    <3>1. PICK q \in ToSet(to_balancer) : q.type = "ServerInfo"
      BY <2>1
    <3>2. CASE q = r
      BY <1>1, <1>4, <3>1, <3>2 DEF Coming
    <3>3. CASE q \in ToSet(rest)
      BY <1>1, <3>1, <3>3 DEF Coming
    <3> QED
      BY <1>3, <3>1, <3>2, <3>3
  <2>2. CASE \E b \in ToSet(to_monitor) : b.type = "ServerInfo" \/ (b.type = "Changed" /\ b.success)
    BY <1>1, <1>4, <2>2 DEF Coming
  <2> QED
    BY <2>1, <2>2 DEF Coming
<1>14. ShownOK' /\ ~crashed'
  BY <1>1 DEF Calm, ShownOK, placeVars
<1> QED
  BY <1>1, <1>8, <1>9, <1>11, <1>12, <1>13, <1>14, Frame

\* The monitor hears of something that does not concern its walk, and sends
\* nothing that does.
LEMMA Heard ==
    ASSUME Calm, NEW k, Hears(k), NEW ms \in Seq(Request), writeDatagrams(ms),
           UNCHANGED placeVars, server_info' \in {server_info, TRUE}, ~crashed', ShownOK',
           proxy_info_requests' \in Seq(Nat), neighbor_requests' \in Seq(Question),
           \A q \in ToSet(ms) : q.type \notin {"TreeInfo", "Split", "Merge"},
           k # "ServerInfo",
           k = "TreeInfo" => wait_token = 0 \/ Head(to_monitor).token # wait_token,
           k = "Changed" /\ Head(to_monitor).success => \E q \in ToSet(ms) : q.type = "ServerInfo"
    PROVE  Calm'
<1> DEFINE rest == Tail(to_monitor)
           a == Head(to_monitor)
           all == to_balancer \o ms
<1>1. /\ to_monitor # << >> /\ a.type = k /\ to_monitor' = rest /\ to_balancer' = all
      /\ UNCHANGED treesVars /\ asserts_hold' = asserts_hold /\ proxies' = proxies
  BY DEF Hears, writeDatagrams, serverVars, treeVars, treesVars
<1>2. to_balancer \in Seq(Request) /\ to_monitor \in Seq(Answer)
  BY DEF Calm, MailOK
<1>3. rest \in Seq(Answer) /\ ToSet(to_monitor) = {a} \union ToSet(rest)
  BY <1>1, <1>2, TakenOff
<1>4. /\ all \in Seq(Request) /\ ToSet(all) = ToSet(to_balancer) \union ToSet(ms)
      /\ to_balancer = << >> => all = ms
      /\ to_balancer # << >> => all # << >> /\ Head(all) = Head(to_balancer)
  BY <1>2, PutBehind
<1>5. tree' = tree
  BY <1>1 DEF treesVars
<1>6. (\A t : Live(t)' <=> Live(t)) /\ (\A b : Truth(b)' <=> Truth(b))
  BY <1>5, SameTrees
<1>7. server_info
  BY <1>1 DEF Calm, InfoFirst
<1>8. ~Asking /\ \A q \in ToSet(to_balancer) : q.type \notin Change
  <2>1. ~Asking
    BY <1>1 DEF Calm, Alone
  <2>2. CASE to_balancer = << >>
    BY <2>1, <2>2 DEF ToSet
  <2>3. CASE to_balancer # << >>
    BY <1>2, <2>1, <2>3, TakenOff DEF Calm, Alone, Asking
  <2> QED
    BY <2>1, <2>2, <2>3
<1> HIDE DEF rest, a, all
<1>9. all # << >> => Head(all) \in ToSet(all) /\ ToSet(Tail(all)) \subseteq ToSet(all)
  BY <1>4, TakenOff
<1>10. MailOK'
  BY <1>1, <1>3, <1>4, <1>6 DEF Calm, MailOK
<1>11. InfoFirst'
  BY <1>7 DEF InfoFirst
<1>12. Alone'
  <2>1. \A q \in ToSet(all) : q.type \notin Change
    BY <1>4, <1>8 DEF Change
  <2> QED
    BY <1>1, <1>9, <2>1 DEF Alone, Asking
<1>13. Awaited'
  <2> SUFFICES ASSUME wait_token # 0 PROVE InFlight(wait_token)'
    BY DEF Awaited, placeVars
  <2>1. InFlight(wait_token)
    BY DEF Calm, Awaited
  <2>2. wait_token' = wait_token
    BY DEF placeVars
  <2>3. CASE \E q \in ToSet(to_balancer) : q.type = "TreeInfo" /\ q.token = wait_token
    BY <1>1, <1>4, <2>2, <2>3 DEF InFlight
  <2>4. CASE \E b \in ToSet(to_monitor) : b.type = "TreeInfo" /\ b.token = wait_token
    <3>1. PICK b \in ToSet(to_monitor) : b.type = "TreeInfo" /\ b.token = wait_token
      BY <2>4
    <3>2. b # a
      BY <1>1, <3>1 DEF a
    <3> QED
      BY <1>1, <1>3, <2>2, <3>1, <3>2 DEF InFlight
  <2> QED
    BY <2>1, <2>3, <2>4 DEF InFlight
<1>14. Coming => Coming'
  <2> SUFFICES ASSUME Coming PROVE Coming'
    OBVIOUS
  <2>1. CASE \E q \in ToSet(to_balancer) : q.type = "ServerInfo"
    BY <1>1, <1>4, <2>1 DEF Coming
  <2>2. CASE \E b \in ToSet(to_monitor) : b.type = "ServerInfo" \/ (b.type = "Changed" /\ b.success)
    <3>1. PICK b \in ToSet(to_monitor) : b.type = "ServerInfo" \/ (b.type = "Changed" /\ b.success)
      BY <2>2
    <3>2. CASE b = a
      <4>1. k = "Changed" /\ Head(to_monitor).success
        BY <1>1, <3>1, <3>2 DEF a
      <4> QED
        BY <1>1, <1>4, <4>1 DEF Coming
    <3>3. CASE b \in ToSet(rest)
      BY <1>1, <3>1, <3>3 DEF Coming
    <3> QED
      BY <1>3, <3>1, <3>2, <3>3
  <2> QED
    BY <2>1, <2>2 DEF Coming
<1>15. asserts_hold' \in BOOLEAN
  BY <1>1 DEF Calm, TreeInv
<1> QED
  BY <1>1, <1>10, <1>11, <1>12, <1>13, <1>14, <1>15, Frame

-----------------------------------------------------------------------------

\* The root is never given back.
LEMMA RootLive ==
    ASSUME TreeInv
    PROVE  /\ Live(Root) /\ Root # 0
           /\ \A t \in allocated : tree[t].leaf_node => Below(tree, Root, t)
<1>1. Root \in DOMAIN tree /\ Sound(tree)
  BY DEF TreeInv, TreeShape
<1>2. Below(tree, Root, Root)
  BY <1>1, ReachEquation
<1> QED
  BY <1>1, <1>2 DEF Live, TreeInv, TreeShape, Root

\* Every tree that the monitor has heard of can be counted.
LEMMA CopyCounted ==
    ASSUME NEW tr, NEW alloc, NEW list, NEW next, Registry(tr, alloc, list, next),
           NEW cp, DOMAIN cp \subseteq DOMAIN tr
    PROVE  Cardinality(DOMAIN cp) \in Nat
<1>1. DOMAIN tr = 1 .. next - 1 /\ next - 1 \in Nat
  BY DEF Registry
<1>2. DOMAIN cp \in SUBSET (1 .. next - 1)
  BY <1>1
<1> QED
  BY <1>1, <1>2, CountedPlaces

\* A copy with common heights can be shown.
LEMMA CopyEnds ==
    ASSUME TreeInv, CopyOK
    PROVE  ~endless(token_to_tree_node) /\ inCopy(token_to_tree_node) \subseteq DOMAIN token_to_tree_node
<1>1. NoTree \notin DOMAIN tree
  BY DEF TreeInv, TreeShape, Sound
<1>2. Cardinality(DOMAIN token_to_tree_node) \in Nat
  BY CopyCounted DEF TreeInv, CopyOK, IsCopy
<1> QED
  BY <1>1, <1>2, NotEndless, ShowsCopy DEF CopyOK, IsCopy

\* buildServerTree comes to an end.
LEMMA Built ==
    ASSUME TreeInv', CopyOK', ~crashed, buildServerTree
    PROVE  ~crashed' /\ ShownOK'
<1>1. ~endless(token_to_tree_node') /\ inCopy(token_to_tree_node') \subseteq DOMAIN token_to_tree_node'
  <2>1. NoTree \notin DOMAIN tree'
    BY DEF TreeInv, TreeShape, Sound
  <2>2. Cardinality(DOMAIN token_to_tree_node') \in Nat
    BY CopyCounted DEF TreeInv, CopyOK, IsCopy
  <2> QED
    BY <2>1, <2>2, NotEndless, ShowsCopy DEF CopyOK, IsCopy
<1>2. crashed' = crashed /\ shown' = buildServerHierarchy(token_to_tree_node', id_to_proxy')
  BY <1>1 DEF buildServerTree
<1>3. DOMAIN shown'.zones = inCopy(token_to_tree_node')
  BY <1>2 DEF buildServerHierarchy
<1> QED
  BY <1>1, <1>2, <1>3 DEF ShownOK

-----------------------------------------------------------------------------
\* A walk begins.

\* The root is asked for: whatever is stale will be met.
LEMMA WalkBegins ==
    ASSUME Calm, UNCHANGED treesVars, asserts_hold' \in BOOLEAN,
           writeDatagrams(<<getBalanceTreeInfo(Root)>>),
           wait_token' = Root, UNCHANGED <<parent_stack, token_to_tree_node>>,
           UNCHANGED <<proxies, proxy_info_requests, neighbor_requests>>,
           ~crashed', ShownOK', server_info',
           to_monitor' \in Seq(Answer), ToSet(to_monitor') \subseteq ToSet(to_monitor),
           Asking => to_monitor' = << >>
    PROVE  Calm'
<1> DEFINE q == getBalanceTreeInfo(Root)
           r == <<q>>
           all == to_balancer \o r
<1>1. /\ tree' = tree /\ allocated' = allocated /\ free' = free /\ frontier' = frontier
      /\ requests' = requests /\ orderly' = orderly /\ to_balancer' = all
      /\ parent_stack' = parent_stack /\ token_to_tree_node' = token_to_tree_node
      /\ proxies' = proxies /\ proxy_info_requests' = proxy_info_requests
      /\ neighbor_requests' = neighbor_requests
  BY DEF treesVars, writeDatagrams
<1>2. to_balancer \in Seq(Request)
  BY DEF Calm, MailOK
<1>3. TreeInv /\ Live(Root) /\ Root # 0 /\ Root \in Nat
  BY RootLive DEF Calm, Root
<1>4. q \in Request /\ q.type = "TreeInfo" /\ q.token = Root
  BY <1>3, Requests DEF getBalanceTreeInfo, About
<1> HIDE DEF q
<1>5. r \in Seq(Request) /\ ToSet(r) = {q} /\ Head(r) = q /\ Tail(r) = << >> /\ ToSet(<< >>) = {}
  BY <1>4, OneAndTwo
<1>6. r # << >>
  OBVIOUS
<1> HIDE DEF r
<1>7. /\ all \in Seq(Request) /\ ToSet(all) = ToSet(to_balancer) \union ToSet(r)
      /\ to_balancer = << >> => all = r
      /\ to_balancer # << >> => /\ all # << >> /\ Head(all) = Head(to_balancer)
                                /\ Tail(all) = Tail(to_balancer) \o r
  BY <1>2, <1>5, PutBehind
<1>8. to_balancer # << >> => ToSet(Tail(to_balancer) \o r) = ToSet(Tail(to_balancer)) \union {q}
  <2> SUFFICES ASSUME to_balancer # << >>
               PROVE  ToSet(Tail(to_balancer) \o r) = ToSet(Tail(to_balancer)) \union {q}
    OBVIOUS
  <2> DEFINE rest == Tail(to_balancer)
  <2>1. rest \in Seq(Request)
    BY <1>2, TakenOff
  <2> HIDE DEF rest
  <2>2. ToSet(rest \o r) = ToSet(rest) \union ToSet(r)
    BY <1>5, <2>1, PutBehind
  <2> QED
    BY <1>5, <2>2 DEF rest
<1> HIDE DEF all
<1>9. (\A t : Live(t)' <=> Live(t)) /\ (\A b : Truth(b)' <=> Truth(b)) /\ \A t : Stale(t)' <=> Stale(t)
  BY <1>1, SameTrees, SameStale
<1>10. MailOK'
  BY <1>1, <1>3, <1>4, <1>5, <1>7, <1>9 DEF Calm, MailOK
<1>11. Alone'
  <2>1. ASSUME NEW p \in ToSet(Tail(all)) PROVE p.type \notin Change
    <3>1. to_balancer # << >> /\ p \in ToSet(Tail(to_balancer)) \union {q}
      BY <1>5, <1>7, <1>8, <2>1
    <3> QED
      BY <1>4, <3>1 DEF Calm, Alone, Change
  <2>2. ASSUME Asking'
        PROVE  /\ to_monitor' = << >> /\ parent_stack = << >> /\ requests < MaxRequests
               /\ (\A t : ~Stale(t)) /\ \A p \in ToSet(Tail(all)) : p = q
    <3>1. Asking /\ to_balancer # << >>
      BY <1>1, <1>4, <1>5, <1>7, <2>2 DEF Asking, Change
    <3> QED
      BY <1>7, <1>8, <3>1 DEF Calm, Alone, q
  <2> QED
    BY <1>1, <1>9, <2>1, <2>2 DEF Alone, q
<1>12. Awaited'
  <2>1. q \in ToSet(all)
    BY <1>5, <1>7
  <2> QED
    BY <1>1, <1>4, <2>1 DEF Awaited, InFlight
<1>13. TreeInv'
  BY <1>1 DEF Calm, TreeInv
<1>14. CopyOK'
  BY <1>1 DEF Calm, CopyOK, IsCopy
<1>15. WalkOK'
  BY <1>1, <1>3, <1>9 DEF Calm, WalkOK, OnStack
<1>16. StaleAhead'
  <2> SUFFICES ASSUME NEW t, Stale(t) PROVE Ahead(t)'
    BY <1>9 DEF StaleAhead
  <2>1. Below(tree, Root, t)
    BY <1>3, RootLive DEF Stale
  <2> QED
    BY <1>1, <1>3, <2>1 DEF Ahead, Index
<1>17. InfoFirst'
  BY DEF InfoFirst
<1> QED
  BY <1>10, <1>11, <1>12, <1>13, <1>14, <1>15, <1>16, <1>17 DEF Calm

\* onMonitoringBalancerServerInfoAnswer, onRefreshServerTree.
LEMMA InfoAnswerStep == ASSUME Calm, onMonitoringBalancerServerInfoAnswer PROVE Calm'
<1>1. /\ Hears("ServerInfo") /\ server_info' = TRUE /\ wait_token' = Root
      /\ writeDatagrams(<<getBalanceTreeInfo(Root)>>)
      /\ UNCHANGED <<parent_stack, token_to_tree_node>>
      /\ UNCHANGED <<proxies, proxy_info_requests, neighbor_requests>>
      /\ UNCHANGED treesVars /\ asserts_hold' = asserts_hold /\ shown' = shown /\ crashed' = crashed
      /\ to_monitor # << >> /\ to_monitor' = Tail(to_monitor)
  BY DEF onMonitoringBalancerServerInfoAnswer, Hears, serverVars, treeVars, treesVars,
         proxyInfoVars, neighborVars
<1>2. to_monitor \in Seq(Answer)
  BY DEF Calm, MailOK
<1>3. to_monitor' \in Seq(Answer) /\ ToSet(to_monitor') \subseteq ToSet(to_monitor)
  BY <1>1, <1>2, TakenOff
<1>4. asserts_hold' \in BOOLEAN /\ ~crashed' /\ ShownOK' /\ ~Asking
  BY <1>1 DEF Calm, TreeInv, ShownOK, Alone
<1> QED
  BY <1>1, <1>3, <1>4, WalkBegins

\* onRefreshServerTree begins a new walk at the root, which will meet each
\* stale copy.
LEMMA RefreshStep == ASSUME Calm, onRefreshServerTree PROVE Calm'
<1>1. /\ server_info /\ server_info' = server_info /\ wait_token' = Root
      /\ writeDatagrams(<<getBalanceTreeInfo(Root)>>)
      /\ UNCHANGED <<parent_stack, token_to_tree_node>>
      /\ UNCHANGED <<proxies, proxy_info_requests, neighbor_requests>>
      /\ UNCHANGED treesVars /\ asserts_hold' = asserts_hold /\ shown' = shown /\ crashed' = crashed
      /\ to_monitor' = to_monitor
  BY DEF onRefreshServerTree, serverVars, treeVars, treesVars, proxyInfoVars, neighborVars
<1>2. to_monitor' \in Seq(Answer)
  BY <1>1 DEF Calm, MailOK
<1>3. ToSet(to_monitor') \subseteq ToSet(to_monitor)
  BY <1>1
<1>4. asserts_hold' \in BOOLEAN /\ ~crashed' /\ ShownOK'
  BY <1>1 DEF Calm, TreeInv, ShownOK
<1>5. Asking => to_monitor' = << >>
  BY <1>1 DEF Calm, Alone
<1> QED
  BY <1>1, <1>2, <1>3, <1>4, <1>5, WalkBegins

-----------------------------------------------------------------------------
\* The user.

\* When nothing is in flight no walk is under way, and the copy is true.
LEMMA AllQuiet ==
    ASSUME Calm, inFlight = {}, parent_stack = << >>
    PROVE  to_balancer = << >> /\ to_monitor = << >> /\ wait_token = 0 /\ \A t : ~Stale(t)
<1>1. to_balancer \in Seq(Request) /\ to_monitor \in Seq(Answer)
  BY DEF Calm, MailOK
<1>2. ToSet(to_balancer) = {} /\ ToSet(to_monitor) = {}
  BY DEF inFlight
<1>3. to_balancer = << >> /\ to_monitor = << >>
  <2>1. to_balancer # << >> => ToSet(to_balancer) # {}
    BY <1>1, TakenOff
  <2>2. to_monitor # << >> => ToSet(to_monitor) # {}
    BY <1>1, TakenOff
  <2> QED
    BY <1>2, <2>1, <2>2
<1>4. wait_token = 0
  BY <1>2 DEF Calm, Awaited, InFlight
<1>5. ToSet(parent_stack) = {}
  BY DEF ToSet
<1>6. \A t : ~Stale(t)
  BY <1>2, <1>4, <1>5 DEF Calm, StaleAhead, Coming, Ahead, Index
<1> QED
  BY <1>3, <1>4, <1>6

\* The children of a tree in its tree are in its tree.
LEMMA ChildLive ==
    ASSUME TreeInv, NEW t, Live(t), ~tree[t].leaf_node, NEW k \in Child
    PROVE  /\ tree[t].children[k] \in Nat /\ tree[t].children[k] # 0
           /\ Live(tree[t].children[k])
           /\ \A u \in DOMAIN tree : Below(tree, tree[t].children[k], u) => Below(tree, t, u)
<1> DEFINE c == tree[t].children[k]
<1>1. /\ t \in DOMAIN tree /\ Below(tree, Root, t) /\ Quartered(tree, t) /\ Sound(tree)
      /\ NoTree \notin DOMAIN tree /\ DOMAIN tree \subseteq Nat /\ Root \in DOMAIN tree
  BY DEF Live, TreeInv, TreeShape, Sound, Registry
<1>2. c \in DOMAIN tree
  BY <1>1 DEF Quartered
<1>3. Below(tree, c, c)
  BY <1>1, <1>2, ReachEquation
<1>4. \A u \in DOMAIN tree : Below(tree, c, u) => Below(tree, t, u)
  BY <1>1, BelowChildren
<1>5. Below(tree, Root, c)
  BY <1>1, <1>2, <1>3, <1>4, BelowBelow
<1> QED
  BY <1>1, <1>2, <1>4, <1>5 DEF Live, NoTree

\* What is in a true copy can be met from the root, when nothing in it is stale.
LEMMA CopyLive ==
    ASSUME TreeInv, CopyOK, CopyTrue, \A t : ~Stale(t)
    PROVE  \A t \in inCopy(token_to_tree_node) : Live(t)
<1> DEFINE cp == token_to_tree_node
           S == {t \in DOMAIN cp : Live(t)}
<1>1. Cardinality(DOMAIN cp) \in Nat
  BY CopyCounted DEF TreeInv, CopyOK, IsCopy
<1>2. {Root} \cap DOMAIN cp \in SUBSET S
  BY RootLive
<1>3. ASSUME NEW t \in S PROVE heard(cp, t) \subseteq S
  <2> SUFFICES ASSUME NEW c \in heard(cp, t) PROVE Live(c)
    BY DEF heard
  <2>1. PICK k \in Child : cp[t].children[k] = c
    BY DEF heard
  <2>2. c # NoTree
    BY DEF heard, NoTree
  <2>3. cp[t].children # NoChildren
    BY <2>1, <2>2 DEF NoChildren
  <2>4. t \in allocated
    BY DEF Live, TreeInv, TreeShape
  <2>5. ~tree[t].leaf_node
    BY <2>3, <2>4 DEF Stale
  <2>6. cp[t].children = tree[t].children
    BY <2>3, <2>5 DEF CopyTrue
  <2> QED
    BY <2>1, <2>5, <2>6, ChildLive
<1>4. S \in SUBSET (DOMAIN cp)
  OBVIOUS
<1> HIDE DEF cp, S
<1>5. inCopy(cp) \subseteq S
  BY <1>1, <1>2, <1>3, <1>4, BelowStays DEF inCopy
<1> QED
  BY <1>5 DEF S, cp

\* A patient user clicks on trees of the tree.
LEMMA ShownLive ==
    ASSUME Calm, CopyTrue, ShownSame, inFlight = {}, parent_stack = << >>,
           NEW t \in DOMAIN shown.zones
    PROVE  Live(t)
<1>1. wait_token = 0 /\ \A u : ~Stale(u)
  BY AllQuiet
<1>2. t \in inCopy(token_to_tree_node)
  BY <1>1 DEF ShownSame
<1> QED
  BY <1>1, <1>2, CopyLive DEF Calm

\* onStaticSplit, onStaticMerge.
LEMMA ClickStep ==
    ASSUME Calm, CopyTrue, ShownSame, Patient, NEW t \in DOMAIN shown.zones, NEW kind \in Change, Click(t, kind)
    PROVE  Calm'
<1>1. ~endless(token_to_tree_node)
  BY CopyEnds DEF Calm
<1>2. /\ requests < MaxRequests /\ inFlight = {} /\ parent_stack = << >> /\ server_info
      /\ writeDatagrams(<<About(kind, t)>>) /\ crashed' = crashed /\ to_monitor' = to_monitor
      /\ UNCHANGED treesVars /\ UNCHANGED placeVars /\ asserts_hold' = asserts_hold
      /\ UNCHANGED <<server_info, proxies, proxy_info_requests, neighbor_requests, shown>>
  BY <1>1 DEF Click, MayAsk, serverVars, treeVars, treesVars, walkVars, placeVars, proxyInfoVars, neighborVars
<1>3. to_balancer = << >> /\ to_monitor = << >> /\ wait_token = 0 /\ \A u : ~Stale(u)
  BY <1>2, AllQuiet
<1> DEFINE q == About(kind, t)
           r == <<q>>
<1>4. t \in DOMAIN tree /\ t \in Nat
  BY DEF Calm, TreeInv, TreeShape, Registry, ShownOK, CopyOK, IsCopy
<1>5. Live(t)
  BY <1>2, ShownLive
<1>6. q \in Request /\ q.type = kind /\ q.token = t
  BY <1>4, Requests DEF About, Change
<1> HIDE DEF q
<1>7. r \in Seq(Request) /\ ToSet(r) = {q} /\ Head(r) = q /\ Tail(r) = << >> /\ ToSet(<< >>) = {}
  BY <1>6, OneAndTwo
<1>8. to_balancer' = r
  BY <1>2, <1>3 DEF writeDatagrams, q
<1> HIDE DEF r
<1>9. tree' = tree /\ requests' = requests /\ wait_token' = wait_token /\ parent_stack' = parent_stack
      /\ allocated' = allocated /\ token_to_tree_node' = token_to_tree_node
  BY <1>2 DEF treesVars, placeVars
<1>10. (\A u : Live(u)' <=> Live(u)) /\ (\A u : Stale(u)' <=> Stale(u))
  BY <1>9, SameTrees, SameStale
<1>11. MailOK'
  BY <1>2, <1>3, <1>5, <1>6, <1>7, <1>8, <1>10 DEF Calm, MailOK
<1>12. Alone'
  BY <1>2, <1>3, <1>7, <1>8, <1>9, <1>10 DEF Alone
<1>13. ~Coming
  BY <1>3, <1>7 DEF Coming
<1>14. Awaited'
  BY <1>3, <1>9 DEF Awaited
<1>15. ShownOK' /\ ~crashed' /\ InfoFirst' /\ asserts_hold' \in BOOLEAN
  BY <1>2, <1>9 DEF Calm, ShownOK, InfoFirst, TreeInv
<1> QED
  BY <1>2, <1>11, <1>12, <1>13, <1>14, <1>15, Frame

\* Proxies register at the balancer; nothing else happens.
LEMMA AsideStep ==
    ASSUME Calm, proxies' \in Nat, UNCHANGED treesVars, UNCHANGED placeVars, asserts_hold' = asserts_hold,
           UNCHANGED <<server_info, proxy_info_requests, neighbor_requests, shown, crashed>>,
           UNCHANGED channelVars
    PROVE  Calm'
<1>1. /\ tree' = tree /\ requests' = requests /\ wait_token' = wait_token /\ parent_stack' = parent_stack
      /\ allocated' = allocated /\ token_to_tree_node' = token_to_tree_node
      /\ to_balancer' = to_balancer /\ to_monitor' = to_monitor
  BY DEF treesVars, placeVars, channelVars
<1>2. (\A u : Live(u)' <=> Live(u)) /\ (\A u : Stale(u)' <=> Stale(u)) /\ \A b : Truth(b)' <=> Truth(b)
  BY <1>1, SameTrees, SameStale
<1>3. MailOK'
  BY <1>1, <1>2 DEF Calm, MailOK
<1>4. Alone' /\ Awaited'
  BY <1>1, <1>2 DEF Calm, Alone, Asking, Awaited, InFlight
<1>5. ShownOK' /\ ~crashed' /\ InfoFirst' /\ asserts_hold' \in BOOLEAN
  BY <1>1 DEF Calm, ShownOK, InfoFirst, TreeInv
<1>6. Coming => Coming'
  BY <1>1 DEF Coming
<1> QED
  BY <1>3, <1>4, <1>5, <1>6, Frame

\* onRegisterProxy touches neither trees nor copy.
LEMMA RegisterStep == ASSUME Calm, onRegisterProxy PROVE Calm'
<1>1. /\ proxies' = proxies + 1 /\ UNCHANGED treesVars /\ UNCHANGED placeVars /\ asserts_hold' = asserts_hold
      /\ UNCHANGED <<server_info, proxy_info_requests, neighbor_requests, shown, crashed>>
      /\ UNCHANGED channelVars
  BY DEF onRegisterProxy, treeVars, treesVars, walkVars, placeVars, proxyInfoVars, neighborVars
<1>2. proxies' \in Nat
  BY <1>1 DEF Calm, MailOK
<1> QED
  BY <1>1, <1>2, AsideStep

\* Nothing changes.
LEMMA StutterStep == ASSUME Calm, UNCHANGED monitorVars PROVE Calm'
<1>1. /\ proxies' = proxies /\ UNCHANGED treesVars /\ UNCHANGED placeVars /\ asserts_hold' = asserts_hold
      /\ UNCHANGED <<server_info, proxy_info_requests, neighbor_requests, shown, crashed>>
      /\ UNCHANGED channelVars
  BY DEF monitorVars, serverVars, treeVars, treesVars, walkVars, placeVars, proxyInfoVars, neighborVars
<1>2. proxies' \in Nat
  BY <1>1 DEF Calm, MailOK
<1> QED
  BY <1>1, <1>2, AsideStep

-----------------------------------------------------------------------------
\* The balancer's answers.

\* What a request is about.
LEMMA RequestRead ==
    ASSUME NEW r \in Request
    PROVE  /\ r.type \in {"TreeInfo", "Split", "Merge", "ProxyInfo"} => r.token \in Nat
           /\ r.type = "NeighborInfo" => r \in Question
BY DEF Request, Question

\* onMonitoringBalancerServerInfo only answers.
LEMMA InfoStep == ASSUME Calm, onMonitoringBalancerServerInfo PROVE Calm'
<1> DEFINE a == Kind("ServerInfo")
<1>1. a \in Answer /\ a.type = "ServerInfo"
  BY AnswersSent DEF Kind
<1>2. /\ Takes("ServerInfo") /\ standardSend(a) /\ UNCHANGED treesVars
      /\ asserts_hold' = asserts_hold /\ proxies' = proxies
  BY DEF onMonitoringBalancerServerInfo, serverVars, treeVars, treesVars
<1> HIDE DEF a
<1>3. asserts_hold' \in BOOLEAN
  BY <1>2 DEF Calm, TreeInv
<1>4. "ServerInfo" \notin Change
  BY DEF Change
<1> QED
  BY <1>1, <1>2, <1>3, <1>4, Answered

\* onMonitoringBalanceTreeInfo answers with what the trees are at that moment.
LEMMA TreeInfoStep == ASSUME Calm, onMonitoringBalanceTreeInfo PROVE Calm'
<1> DEFINE t == Head(to_balancer).token
           a == getMonitoringInfo(t)
<1>1. /\ Takes("TreeInfo") /\ standardSend(a) /\ UNCHANGED treesVars
      /\ asserts_hold' = asserts_hold /\ proxies' = proxies
  BY DEF onMonitoringBalanceTreeInfo, serverVars, treeVars, treesVars
<1>2. to_balancer \in Seq(Request) /\ to_balancer # << >> /\ Head(to_balancer).type = "TreeInfo"
  BY <1>1 DEF Calm, MailOK, Takes
<1>3. Head(to_balancer) \in ToSet(to_balancer)
  BY <1>2, TakenOff
<1>4. Live(t) /\ TreeInv
  BY <1>2, <1>3 DEF Calm, MailOK
<1>5. t = Head(to_balancer).token
  OBVIOUS
<1> HIDE DEF t
<1>6. a \in Answer /\ a.type = "TreeInfo" /\ a.token = t /\ Truth(a)
  BY <1>4, TreeSaid
<1> HIDE DEF a
<1>7. asserts_hold' \in BOOLEAN
  BY <1>1 DEF Calm, TreeInv
<1>8. "TreeInfo" \notin Change
  BY DEF Change
<1> QED
  BY <1>1, <1>5, <1>6, <1>7, <1>8, Answered

\* onMonitoringBalanceTreeNeighborInfo only answers.
LEMMA NeighborInfoStep == ASSUME Calm, onMonitoringBalanceTreeNeighborInfo PROVE Calm'
<1> DEFINE m == Head(to_balancer)
           a == getMonitoringNeighborInfo(m)
<1>1. /\ Takes("NeighborInfo") /\ standardSend(a) /\ UNCHANGED treesVars
      /\ asserts_hold' \in BOOLEAN /\ proxies' = proxies
  BY DEF onMonitoringBalanceTreeNeighborInfo, treesVars
<1>2. to_balancer \in Seq(Request) /\ to_balancer # << >> /\ m.type = "NeighborInfo"
  BY <1>1 DEF Calm, MailOK, Takes
<1>3. m \in Request
  BY <1>2, TakenOff
<1>4. a \in Answer /\ a.type = "NeighborInfo"
  BY <1>2, <1>3, NeighborSaid
<1> HIDE DEF a
<1>5. "NeighborInfo" \notin Change
  BY DEF Change
<1> QED
  BY <1>1, <1>4, <1>5, Answered

\* onMonitoringGetProxyCount only answers.
LEMMA ProxyCountStep == ASSUME Calm, onMonitoringGetProxyCount PROVE Calm'
<1> DEFINE a == About("ProxyCount", proxies)
<1>1. /\ Takes("ProxyCount") /\ standardSend(a) /\ UNCHANGED treesVars
      /\ asserts_hold' = asserts_hold /\ proxies' = proxies
  BY DEF onMonitoringGetProxyCount, treeVars, treesVars
<1>2. a \in Answer /\ a.type = "ProxyCount"
  BY AnswersSent DEF About, Calm, MailOK
<1> HIDE DEF a
<1>3. asserts_hold' \in BOOLEAN
  BY <1>1 DEF Calm, TreeInv
<1>4. "ProxyCount" \notin Change
  BY DEF Change
<1> QED
  BY <1>1, <1>2, <1>3, <1>4, Answered

\* onMonitoringGetProxyInfo only answers.
LEMMA ProxyInfoStep == ASSUME Calm, onMonitoringGetProxyInfo PROVE Calm'
<1> DEFINE n == Head(to_balancer).token
           a == About("ProxyInfo", n)
<1>1. /\ Takes("ProxyInfo") /\ standardSend(a) /\ UNCHANGED treesVars
      /\ asserts_hold' = asserts_hold /\ proxies' = proxies
  BY DEF onMonitoringGetProxyInfo, serverVars, treeVars, treesVars
<1>2. to_balancer \in Seq(Request) /\ to_balancer # << >> /\ Head(to_balancer).type = "ProxyInfo"
  BY <1>1 DEF Calm, MailOK, Takes
<1>3. Head(to_balancer) \in Request
  BY <1>2, TakenOff
<1>4. n \in Nat
  BY <1>2, <1>3, RequestRead
<1> HIDE DEF n
<1>5. a \in Answer /\ a.type = "ProxyInfo"
  BY <1>4, AnswersSent DEF About
<1> HIDE DEF a
<1>6. asserts_hold' \in BOOLEAN
  BY <1>1 DEF Calm, TreeInv
<1>7. "ProxyInfo" \notin Change
  BY DEF Change
<1> QED
  BY <1>1, <1>5, <1>6, <1>7, Answered

-----------------------------------------------------------------------------
\* What the monitor hears that is not its walk's.

\* What an answer says.
LEMMA AnswerRead ==
    ASSUME NEW a \in Answer
    PROVE  /\ a.type \in {"ProxyCount", "ProxyInfo", "NeighborInfo", "TreeInfo"} => a.token \in Nat
           /\ a.type = "TreeInfo" => a.leaf_node \in BOOLEAN
BY DEF Answer

\* Nothing is sent.
LEMMA NothingSent ==
    ASSUME Calm, UNCHANGED to_balancer
    PROVE  \E ms \in Seq(Request) : writeDatagrams(ms) /\ ToSet(ms) = {}
<1>1. to_balancer \in Seq(Request)
  BY DEF Calm, MailOK
<1>2. to_balancer \o << >> = to_balancer
  BY <1>1
<1>3. << >> \in Seq(Request) /\ writeDatagrams(<< >>) /\ ToSet(<< >>) = {}
  BY <1>2 DEF writeDatagrams, ToSet
<1> QED
  BY <1>3

\* An answer that the walk does not await.
LEMMA DroppedStep ==
    ASSUME Calm, onMonitoringBalanceTreeInfoAnswer,
           ~(Head(to_monitor).token = wait_token /\ Head(to_monitor).success)
    PROVE  Calm'
<1> DEFINE a == Head(to_monitor)
<1>1. /\ Hears("TreeInfo") /\ UNCHANGED placeVars /\ to_balancer' = to_balancer
      /\ UNCHANGED <<server_info, proxy_info_requests, neighbor_requests, shown, crashed>>
  BY DEF onMonitoringBalanceTreeInfoAnswer, placeVars, proxyInfoVars
<1>2. to_monitor \in Seq(Answer) /\ to_monitor # << >> /\ a.type = "TreeInfo"
  BY <1>1 DEF Calm, MailOK, Hears
<1>3. a \in ToSet(to_monitor)
  BY <1>2, TakenOff
<1>4. a.token # wait_token
  BY <1>2, <1>3 DEF Calm, MailOK, Truth
<1>5. PICK ms \in Seq(Request) : writeDatagrams(ms) /\ ToSet(ms) = {}
  BY <1>1, NothingSent
<1>6. server_info' \in {server_info, TRUE} /\ ~crashed' /\ ShownOK'
      /\ proxy_info_requests' \in Seq(Nat) /\ neighbor_requests' \in Seq(Question)
  BY <1>1 DEF Calm, ShownOK, placeVars, MailOK
<1> QED
  BY <1>1, <1>4, <1>5, <1>6, Heard

\* The first request of a list is sent.
LEMMA NextSent ==
    ASSUME Calm, NEW list \in Seq(Question), nextNeighborRequest(list)
    PROVE  /\ neighbor_requests' \in Seq(Question)
           /\ \E ms \in Seq(Request) : /\ writeDatagrams(ms)
                                       /\ \A q \in ToSet(ms) : q.type = "NeighborInfo"
<1>1. CASE list = << >>
  <2>1. \E ms \in Seq(Request) : writeDatagrams(ms) /\ ToSet(ms) = {}
    BY <1>1, NothingSent DEF nextNeighborRequest
  <2> QED
    BY <1>1, <2>1 DEF nextNeighborRequest
<1>2. CASE list # << >>
  <2> DEFINE q == Head(list)
             ms == <<q>>
  <2>1. q \in Question /\ Tail(list) \in Seq(Question)
    BY <1>2, TakenOff
  <2>2. q \in Request /\ q.type = "NeighborInfo"
    BY <2>1, Requests
  <2>3. neighbor_requests' = Tail(list) /\ writeDatagrams(ms)
    BY <1>2 DEF nextNeighborRequest
  <2> HIDE DEF q
  <2>4. ms \in Seq(Request) /\ ToSet(ms) = {q}
    BY <2>2, OneAndTwo
  <2> QED
    BY <2>1, <2>2, <2>3, <2>4
<1> QED
  BY <1>1, <1>2

\* onMonitoringBalanceTreeNeighborInfoAnswer leaves the copy and the walk
\* alone.
LEMMA NeighborAnswerStep == ASSUME Calm, onMonitoringBalanceTreeNeighborInfoAnswer PROVE Calm'
<1>1. /\ Hears("NeighborInfo") /\ UNCHANGED placeVars
      /\ UNCHANGED <<server_info, proxy_info_requests, shown, crashed>>
  BY DEF onMonitoringBalanceTreeNeighborInfoAnswer, walkVars, placeVars, proxyInfoVars, neighborVars
<1>2. neighbor_requests \in Seq(Question)
  BY DEF Calm, MailOK
<1>3. /\ neighbor_requests' \in Seq(Question)
      /\ \E ms \in Seq(Request) : /\ writeDatagrams(ms)
                                  /\ \A q \in ToSet(ms) : q.type = "NeighborInfo"
  <2>1. CASE nextNeighborRequest(neighbor_requests)
    BY <1>2, <2>1, NextSent
  <2>2. CASE UNCHANGED <<neighbor_requests, to_balancer>>
    BY <1>2, <2>2, NothingSent
  <2> QED
    BY <2>1, <2>2 DEF onMonitoringBalanceTreeNeighborInfoAnswer, neighborVars
<1>4. PICK ms \in Seq(Request) : writeDatagrams(ms) /\ \A q \in ToSet(ms) : q.type = "NeighborInfo"
  BY <1>3
<1>5. server_info' \in {server_info, TRUE} /\ ~crashed' /\ ShownOK' /\ proxy_info_requests' \in Seq(Nat)
  BY <1>1 DEF Calm, ShownOK, placeVars, MailOK
<1>6. \A q \in ToSet(ms) : q.type \notin {"TreeInfo", "Split", "Merge"}
  BY <1>4
<1> QED
  BY <1>1, <1>3, <1>4, <1>5, <1>6, Heard

\* onMonitoringChangeAnswer: a split or merge that succeeded has the whole tree
\* walked again.
LEMMA ChangeAnswerStep == ASSUME Calm, onMonitoringChangeAnswer PROVE Calm'
<1> DEFINE a == Head(to_monitor)
           x == Kind("ServerInfo")
           y == Kind("ProxyCount")
           ms == IF a.success THEN <<x, y>> ELSE << >>
<1>1. /\ Hears("Changed") /\ UNCHANGED placeVars /\ writeDatagrams(ms)
      /\ UNCHANGED <<server_info, proxy_info_requests, neighbor_requests, shown, crashed>>
  BY DEF onMonitoringChangeAnswer, walkVars, placeVars, proxyInfoVars, neighborVars, getBalancerServerInfo
<1>2. x \in Request /\ y \in Request /\ x.type = "ServerInfo" /\ y.type = "ProxyCount"
  BY Requests DEF Kind
<1> HIDE DEF x, y
<1>3. ms \in Seq(Request) /\ ToSet(ms) = IF a.success THEN {x, y} ELSE {}
  <2>1. <<x, y>> \in Seq(Request) /\ ToSet(<<x, y>>) = {x, y} /\ << >> \in Seq(Request) /\ ToSet(<< >>) = {}
    BY <1>2, OneAndTwo
  <2> QED
    BY <2>1
<1> HIDE DEF ms
<1>4. server_info' \in {server_info, TRUE} /\ ~crashed' /\ ShownOK'
      /\ proxy_info_requests' \in Seq(Nat) /\ neighbor_requests' \in Seq(Question)
  BY <1>1 DEF Calm, ShownOK, placeVars, MailOK
<1>5. \A q \in ToSet(ms) : q.type \notin {"TreeInfo", "Split", "Merge"}
  BY <1>2, <1>3
<1>6. a.success => \E q \in ToSet(ms) : q.type = "ServerInfo"
  BY <1>2, <1>3
<1> QED
  BY <1>1, <1>3, <1>4, <1>5, <1>6, Heard

\* The next proxy is asked for, or the trees are shown.
LEMMA ProxyAsked ==
    ASSUME Calm, NEW k, k \in {"ProxyCount", "ProxyInfo"}, Hears(k),
           NEW todo \in Seq(Nat), NEW ids, AskProxy(todo, ids)
    PROVE  Calm'
<1>1. UNCHANGED placeVars /\ UNCHANGED <<server_info, neighbor_requests>>
      /\ UNCHANGED <<tree, allocated, free, frontier, requests, orderly, asserts_hold>>
  BY DEF AskProxy, Hears, serverVars, treeVars, walkVars, placeVars, neighborVars
<1>2. server_info' \in {server_info, TRUE} /\ neighbor_requests' \in Seq(Question)
  BY <1>1 DEF Calm, MailOK
<1>3. CASE todo = << >>
  <2>1. buildServerTree /\ proxy_info_requests' = << >> /\ to_balancer' = to_balancer
    BY <1>3 DEF AskProxy
  <2>2. TreeInv'
    BY <1>1 DEF Calm, TreeInv
  <2>3. CopyOK'
    BY <1>1 DEF Calm, CopyOK, IsCopy, placeVars
  <2>4. ~crashed' /\ ShownOK'
    BY <2>1, <2>2, <2>3, Built DEF Calm
  <2>5. PICK ms \in Seq(Request) : writeDatagrams(ms) /\ ToSet(ms) = {}
    BY <2>1, NothingSent
  <2>6. proxy_info_requests' \in Seq(Nat)
    BY <2>1
  <2> QED
    BY <1>1, <1>2, <2>4, <2>5, <2>6, Heard
<1>4. CASE todo # << >>
  <2> DEFINE q == About("ProxyInfo", Head(todo))
             ms == <<q>>
  <2>1. /\ proxy_info_requests' = Tail(todo) /\ writeDatagrams(ms) /\ UNCHANGED <<shown, crashed>>
    BY <1>4 DEF AskProxy
  <2>2. Tail(todo) \in Seq(Nat) /\ Head(todo) \in Nat
    BY <1>4, TakenOff
  <2>3. q \in Request /\ q.type = "ProxyInfo"
    BY <2>2, Requests DEF About
  <2> HIDE DEF q
  <2>4. ms \in Seq(Request) /\ ToSet(ms) = {q}
    BY <2>3, OneAndTwo
  <2> HIDE DEF ms
  <2>5. \A r \in ToSet(ms) : r.type \notin {"TreeInfo", "Split", "Merge"}
    BY <2>3, <2>4
  <2>6. ~crashed' /\ ShownOK' /\ proxy_info_requests' \in Seq(Nat)
    BY <1>1, <2>1, <2>2 DEF Calm, ShownOK, placeVars
  <2> QED
    BY <1>1, <1>2, <2>1, <2>4, <2>5, <2>6, Heard
<1> QED
  BY <1>3, <1>4

\* onMonitoringGetProxyCountAnswer: server_info is there, as its answer came
\* before.
LEMMA CountAnswerStep == ASSUME Calm, onMonitoringGetProxyCountAnswer PROVE Calm'
<1> DEFINE n == Head(to_monitor).token
           todo == [i \in 1 .. n |-> i]
<1>1. Hears("ProxyCount") /\ to_monitor # << >> /\ Head(to_monitor).type = "ProxyCount"
  BY DEF onMonitoringGetProxyCountAnswer, Hears
<1>2. server_info
  BY <1>1 DEF Calm, InfoFirst
<1>3. AskProxy(todo, {})
  BY <1>2 DEF onMonitoringGetProxyCountAnswer
<1>4. Head(to_monitor) \in Answer
  BY <1>1, TakenOff DEF Calm, MailOK
<1>5. n \in Nat
  BY <1>1, <1>4, AnswerRead
<1> HIDE DEF n
<1>6. todo \in Seq(Nat)
  <2>1. \A i \in 1 .. n : i \in Nat
    BY <1>5
  <2> QED
    BY <1>5, <2>1, IsASeq
<1> HIDE DEF todo
<1> QED
  BY <1>1, <1>3, <1>6, ProxyAsked

\* onMonitoringGetProxyInfoAnswer touches neither trees nor copy.
LEMMA ProxyAnswerStep == ASSUME Calm, onMonitoringGetProxyInfoAnswer PROVE Calm'
<1> DEFINE ids == id_to_proxy \union {Head(to_monitor).token}
<1>1. Hears("ProxyInfo") /\ AskProxy(proxy_info_requests, ids)
  BY DEF onMonitoringGetProxyInfoAnswer
<1>2. proxy_info_requests \in Seq(Nat)
  BY DEF Calm, MailOK
<1> HIDE DEF ids
<1> QED
  BY <1>1, <1>2, ProxyAsked

-----------------------------------------------------------------------------
\* Splits and merges.

\* The root is where it is whatever was split and merged.
LEMMA RootStays ==
    ASSUME NEW tr, NEW alloc, TreeShape(tr, alloc)
    PROVE  Root \in DOMAIN tr /\ Below(tr, Root, Root)
<1>1. Root \in DOMAIN tr /\ Sound(tr)
  BY DEF TreeShape
<1> QED
  BY <1>1, ReachEquation

\* A split or merge is answered.
LEMMA Judged ==
    ASSUME Calm, NEW kind \in Change, Takes(kind), NEW ok \in BOOLEAN, standardSend(changed(ok)),
           UNCHANGED proxies, TreeInv', CopyOK', \A t : Stale(t)' => ok
    PROVE  Calm'
<1> DEFINE rest == Tail(to_balancer)
           a == changed(ok)
<1>1. /\ to_balancer # << >> /\ Head(to_balancer).type = kind /\ to_balancer' = rest
      /\ to_monitor' = Append(to_monitor, a)
      /\ UNCHANGED <<wait_token, parent_stack, token_to_tree_node>>
      /\ UNCHANGED <<server_info, crashed, proxy_info_requests, neighbor_requests, shown, proxies>>
  BY DEF Takes, standardSend, walkVars, proxyInfoVars, neighborVars
<1>2. to_balancer \in Seq(Request)
  BY DEF Calm, MailOK
<1>3. /\ to_monitor = << >> /\ parent_stack = << >> /\ wait_token \in {0, Root}
      /\ \A r \in ToSet(rest) : r = getBalanceTreeInfo(Root)
  BY <1>1 DEF Calm, Alone, Asking
<1>4. rest \in Seq(Request) /\ ToSet(to_balancer) = {Head(to_balancer)} \union ToSet(rest)
  BY <1>1, <1>2, TakenOff
<1>5. rest # << >> => Head(rest) \in ToSet(rest) /\ ToSet(Tail(rest)) \subseteq ToSet(rest)
  BY <1>4, TakenOff
<1>6. \A r \in ToSet(rest) : r.type = "TreeInfo" /\ r.token = Root
  BY <1>3 DEF getBalanceTreeInfo, About
<1>7. server_info
  BY <1>1, <1>3 DEF Calm, InfoFirst, Change
<1>8. a \in Answer /\ a.type = "Changed" /\ a.success = ok
  BY AnswersSent DEF changed
<1> HIDE DEF a
<1>9. << >> \in Seq(Answer) /\ ToSet(<< >>) = {}
  BY DEF ToSet
<1>10. to_monitor' \in Seq(Answer) /\ ToSet(to_monitor') = {a}
  <2>1. <<a>> \in Seq(Answer) /\ ToSet(<<a>>) = {a}
    BY <1>8, OneAndTwo
  <2>2. Append(<< >>, a) = <<a>>
    OBVIOUS
  <2> QED
    BY <1>1, <1>3, <2>1, <2>2
<1> HIDE DEF rest
<1>11. Live(Root)'
  BY RootStays DEF TreeInv, Live
<1>12. MailOK'
  BY <1>1, <1>4, <1>6, <1>8, <1>10, <1>11 DEF Calm, MailOK
<1>13. InfoFirst'
  BY <1>1, <1>7 DEF InfoFirst
<1>14. Alone'
  BY <1>1, <1>5, <1>6 DEF Alone, Asking, Change
<1>15. WalkOK'
  <2>1. << >> \in Seq(DOMAIN token_to_tree_node) /\ ToSet(parent_stack') = {}
    BY <1>1, <1>3, <1>9
  <2> QED
    BY <1>1, <1>3, <1>11, <2>1 DEF WalkOK, OnStack
<1>16. Awaited'
  <2> SUFFICES ASSUME wait_token # 0 PROVE InFlight(wait_token)'
    BY <1>1 DEF Awaited
  <2>1. InFlight(wait_token)
    BY DEF Calm, Awaited
  <2>2. PICK r \in ToSet(to_balancer) : r.type = "TreeInfo" /\ r.token = wait_token
    BY <1>3, <1>9, <2>1 DEF InFlight
  <2>3. r \in ToSet(rest)
    BY <1>1, <1>4, <2>2 DEF Change
  <2> QED
    BY <1>1, <2>2, <2>3 DEF InFlight
<1>17. StaleAhead'
  <2> SUFFICES ASSUME NEW t, Stale(t)' PROVE Coming'
    BY DEF StaleAhead
  <2> QED
    BY <1>8, <1>10 DEF Coming
<1>18. ShownOK' /\ ~crashed'
  BY <1>1 DEF Calm, ShownOK
<1> QED
  BY <1>12, <1>13, <1>14, <1>15, <1>16, <1>17, <1>18 DEF Calm

\* What is refused changes nothing.
LEMMA RefusedStep ==
    ASSUME Calm, NEW kind \in Change, Takes(kind), standardSend(changed(FALSE)),
           UNCHANGED proxies, UNCHANGED treeVars
    PROVE  Calm'
<1>1. Asking
  BY DEF Takes, Asking
<1>2. /\ UNCHANGED <<tree, allocated, free, frontier, requests, orderly, asserts_hold>>
      /\ token_to_tree_node' = token_to_tree_node
  BY DEF treeVars, Takes, walkVars
<1>3. TreeInv'
  BY <1>2 DEF Calm, TreeInv
<1>4. CopyOK'
  BY <1>2 DEF Calm, CopyOK, IsCopy
<1>5. \A t : ~Stale(t)'
  BY <1>1, <1>2, SameStale DEF Calm, Alone
<1>6. \A t : Stale(t)' => FALSE
  BY <1>5
<1> QED
  BY <1>3, <1>4, <1>6, Judged

\* The tree and the copy keep common heights when a leaf gets children: where
\* they are now nothing was that has any.
LEMMA SplitDescends ==
    ASSUME NEW tr, Sound(tr), NEW t \in DOMAIN tr, NEW W, NEW kids \in [Child -> W],
           \A k \in Child : kids[k] # t, NEW ur, Grown(tr, t, kids, ur),
           NEW cp, cp \in [DOMAIN cp -> Entry(DOMAIN tr)], DOMAIN cp \subseteq DOMAIN tr,
           Descends(tr, cp),
           \A k \in Child : kids[k] \in DOMAIN cp => cp[kids[k]].children = NoChildren
    PROVE  Descends(ur, cp)
<1> DEFINE D == DOMAIN tr
           K == {kids[k] : k \in Child}
           E == D \union K
<1>1. PICK m, b : Heights(tr, m, b) /\ Lower(cp, m)
  BY DEF Descends
<1> DEFINE h == [u \in E |-> IF u \in K THEN 0 ELSE m[u] + 1]
<1>2. b \in Nat /\ (\A u \in D : m[u] \in Nat /\ m[u] < b)
  BY <1>1 DEF Heights
<1>3. \A k \in Child : kids[k] \in K
  OBVIOUS
<1>4. \A u \in D : u \in E
  OBVIOUS
<1>5. \A u \in E : u \notin K => u \in D
  OBVIOUS
<1>6. DOMAIN ur = E
  BY DEF Grown
<1>7. t \notin K
  OBVIOUS
<1>8. \A u \in K : ur[u].leaf_node
  BY DEF Grown
<1>9. ur[t].children = kids
  BY DEF Grown
<1>10. \A u \in D : u # t /\ u \notin K => ur[u].leaf_node = tr[u].leaf_node /\ ur[u].children = tr[u].children
  BY DEF Grown
<1> HIDE DEF K, E
<1>11. \A u \in E : h[u] = IF u \in K THEN 0 ELSE m[u] + 1
  OBVIOUS
<1>12. \A u \in E : h[u] \in Nat /\ h[u] < b + 1
  BY <1>2, <1>5, <1>11
<1>13. h \in [E -> Nat]
  BY <1>12
<1> HIDE DEF h
<1>14. \A u \in D : h[u] <= m[u] + 1
  BY <1>2, <1>4, <1>11
<1>15. ASSUME NEW u \in E, ~ur[u].leaf_node, NEW k \in Child
       PROVE  h[ur[u].children[k]] < h[u]
  <2>1. u \notin K /\ u \in D /\ h[u] = m[u] + 1 /\ m[u] \in Nat
    BY <1>2, <1>5, <1>8, <1>11, <1>15
  <2>2. CASE u = t
    <3>1. kids[k] \in K /\ kids[k] \in E
      BY <1>3 DEF E
    <3>2. h[kids[k]] = 0
      BY <1>11, <3>1
    <3> QED
      BY <1>9, <2>1, <2>2, <3>2
  <2>3. CASE u # t
    <3>1. ~tr[u].leaf_node /\ ur[u].children = tr[u].children
      BY <1>10, <1>15, <2>1, <2>3
    <3>2. m[tr[u].children[k]] < m[u]
      BY <1>1, <2>1, <3>1 DEF Heights
    <3>3. tr[u].children[k] \in D
      BY <2>1, <3>1 DEF Sound, LeavesChildless
    <3>4. h[tr[u].children[k]] <= m[tr[u].children[k]] + 1 /\ m[tr[u].children[k]] \in Nat
          /\ h[tr[u].children[k]] \in Nat
      BY <1>2, <1>4, <1>12, <1>14, <3>3
    <3> QED
      BY <2>1, <3>1, <3>2, <3>4
  <2> QED
    BY <2>2, <2>3
<1>16. Heights(ur, h, b + 1)
  <2>1. b + 1 \in Nat
    BY <1>2
  <2> QED
    BY <1>6, <1>12, <1>13, <1>15, <2>1 DEF Heights
<1>17. Lower(cp, h)
  <2> SUFFICES ASSUME NEW u \in DOMAIN cp, NEW k \in Child, cp[u].children[k] # NoTree
               PROVE  h[cp[u].children[k]] < h[u]
    BY DEF Lower
  <2>1. cp[u] \in Entry(D) /\ u \in D
    OBVIOUS
  <2>2. cp[u].children[k] \in D
    BY <2>1 DEF Entry
  <2>3. u \notin K
    <3> SUFFICES ASSUME u \in K PROVE FALSE
      OBVIOUS
    <3>1. cp[u].children = NoChildren
      BY DEF K
    <3> QED
      BY <3>1 DEF NoChildren
  <2>4. m[cp[u].children[k]] < m[u]
    BY <1>1 DEF Lower
  <2>5. h[u] = m[u] + 1 /\ m[u] \in Nat
    BY <1>2, <1>4, <1>11, <2>1, <2>3
  <2>6. h[cp[u].children[k]] <= m[cp[u].children[k]] + 1 /\ m[cp[u].children[k]] \in Nat
        /\ h[cp[u].children[k]] \in Nat
    BY <1>2, <1>4, <1>12, <1>14, <2>2
  <2> QED
    BY <2>4, <2>5, <2>6
<1> QED
  BY <1>16, <1>17 DEF Descends

\* ... and when an inner tree becomes a leaf.
LEMMA MergeDescends ==
    ASSUME NEW tr, NEW t, NEW ur, Merged(tr, t, ur), NEW cp, Descends(tr, cp)
    PROVE  Descends(ur, cp)
<1>1. PICK m, b : Heights(tr, m, b) /\ Lower(cp, m)
  BY DEF Descends
<1>2. DOMAIN ur = DOMAIN tr
  BY DEF Merged
<1>3. \A u \in DOMAIN tr : ~ur[u].leaf_node => ~tr[u].leaf_node /\ ur[u].children = tr[u].children
  BY DEF Merged
<1>4. Heights(ur, m, b)
  BY <1>1, <1>2, <1>3 DEF Heights
<1> QED
  BY <1>1, <1>4 DEF Descends

\* A request that is granted, as the tree has it.
LEMMA SplitsTree ==
    ASSUME TreeInv, NEW t \in allocated, Below(tree, Root, t),
           onMonitoringBalanceTreeStaticSplit(t)
    PROVE  \E kids : LET K == {kids[k] : k \in Child}
                     IN  /\ kids \in [Child -> K] /\ K \cap allocated = {} /\ t \notin K
                         /\ allocated' = allocated \union K /\ Grown(tree, t, kids, tree')
<1> DEFINE D == DOMAIN tree
           kids == [k \in Child |-> upcoming(k)]
           K == {kids[k] : k \in Child}
<1>1. /\ Sound(tree) /\ allocated \subseteq D
      /\ Registry(tree, allocated, free, frontier)
  BY DEF TreeInv, TreeShape
<1>2. /\ tree[t].leaf_node /\ tree[t].box.size % 2 = 0
      /\ tree' = split(tree, t, kids)
      /\ allocated' = allocated \union K
  BY DEF onMonitoringBalanceTreeStaticSplit, canSplit, splittable
<1>3. Taken(free, frontier, kids)
  BY DEF Taken, upcoming
<1> HIDE DEF kids
<1>4. /\ \A j, k \in Child : kids[j] = kids[k] => j = k
      /\ \A k \in Child : kids[k] \notin allocated /\ kids[k] # NoTree
  BY <1>1, <1>3, TakenTokens
<1>5. kids \in [Child -> K]
  BY <1>3 DEF Taken
<1>6. NoTree \notin K /\ K \cap allocated = {} /\ t \notin K /\ t \in D
  BY <1>1, <1>4
<1>7. tree \in [D -> Node(D)] /\ NoTree \notin D
  BY <1>1 DEF Sound
<1> HIDE DEF K
<1>8. Grown(tree, t, kids, tree')
  BY <1>2, <1>4, <1>5, <1>6, <1>7, SplitGrows
<1> QED
  BY <1>2, <1>5, <1>6, <1>8 DEF K

\* What a merge that the balancer grants does to the trees.
LEMMA MergesTree ==
    ASSUME TreeInv, NEW t \in allocated, Below(tree, Root, t),
           onMonitoringBalanceTreeStaticMerge(t)
    PROVE  /\ Merged(tree, t, tree')
           /\ \A u \in allocated : u \notin allocated' => tree[u].leaf_node
<1> DEFINE D == DOMAIN tree
           gone == destroyed(tree, t)
           leaves == LeavesBelow(tree, t)
<1>1. /\ TreeShape(tree, allocated) /\ Sound(tree) /\ t \in D /\ allocated \subseteq D /\ Root \in D
  BY DEF TreeInv, TreeShape
<1>2. tree' = merge(tree, t) /\ allocated' = allocated \ ToSet(gone)
  BY DEF onMonitoringBalanceTreeStaticMerge
<1>3. \A u \in D : Below(tree, t, u) => u \in allocated /\ Quartered(tree, u)
  <2> SUFFICES ASSUME NEW u \in D, Below(tree, t, u)
               PROVE  u \in allocated /\ Quartered(tree, u)
    OBVIOUS
  <2>1. Below(tree, Root, u)
    BY <1>1, BelowBelow
  <2> QED
    BY <1>1, <2>1 DEF TreeShape
<1>4. ToSet(gone) = leaves
  <2>1. Lists(gone, leaves, D)
    BY <1>1, <1>3, DestroysLeaves
  <2> QED
    BY <2>1 DEF Lists
<1> HIDE DEF gone
<1>5. PICK m, b : Heights(tree, m, b)
  BY <1>1 DEF Sound
<1>6. tree \in [D -> Node(D)] /\ NoTree \notin D /\ LeavesChildless(tree)
  BY <1>1 DEF Sound
<1>7. Merged(tree, t, tree')
  BY <1>1, <1>2, <1>5, <1>6, MergeShape
<1> QED
  BY <1>2, <1>4, <1>7 DEF LeavesBelow


\* There is more that children may point to.
LEMMA EntryGrows ==
    ASSUME NEW D, NEW E, D \subseteq E, NEW e \in Entry(D)
    PROVE  e \in Entry(E)
<1>1. {NoTree} \union D \subseteq {NoTree} \union E
  OBVIOUS
<1>2. e.children \in [Child -> {NoTree} \union E]
  BY <1>1 DEF Entry
<1> QED
  BY <1>2 DEF Entry

\* What is asked for first is in its tree, and nothing shown has been merged.
LEMMA ChangeAsked ==
    ASSUME Calm, NEW kind \in Change, Takes(kind)
    PROVE  /\ Head(to_balancer).token \in DOMAIN tree
           /\ Below(tree, Root, Head(to_balancer).token)
           /\ requests < MaxRequests
           /\ \A t : ~Stale(t)
<1>1. to_balancer \in Seq(Request) /\ to_balancer # << >> /\ Head(to_balancer).type = kind
  BY DEF Calm, MailOK, Takes
<1>2. Head(to_balancer) \in ToSet(to_balancer)
  BY <1>1, TakenOff
<1>3. Asking
  BY <1>1 DEF Asking
<1>4. Live(Head(to_balancer).token)
  BY <1>1, <1>2 DEF Calm, MailOK, Change
<1> QED
  BY <1>3, <1>4 DEF Live, Calm, Alone

\* onMonitoringBalanceTreeStaticSplit: the request stood alone, so that no
\* answer on its way tells of the leaf.
LEMMA StaticSplitStep == ASSUME Calm, StaticSplit PROVE Calm'
<1> DEFINE t == Head(to_balancer).token
           kind == "Split"
<1>1. /\ Takes(kind) /\ proxies' = proxies
      /\ \/ /\ onMonitoringBalanceTreeStaticSplit(t)
            /\ Granted(t)
            /\ standardSend(changed(TRUE))
         \/ /\ standardSend(changed(FALSE))
            /\ UNCHANGED treeVars
  BY DEF StaticSplit
<1>2. kind \in Change
  BY DEF Change
<1> HIDE DEF kind
<1>3. t \in DOMAIN tree /\ Below(tree, Root, t) /\ requests < MaxRequests /\ \A u : ~Stale(u)
  BY <1>1, <1>2, ChangeAsked
<1> HIDE DEF t
<1>4. CASE standardSend(changed(FALSE)) /\ UNCHANGED treeVars
  BY <1>1, <1>2, <1>4, RefusedStep
<1>5. CASE /\ onMonitoringBalanceTreeStaticSplit(t)
           /\ Granted(t)
           /\ standardSend(changed(TRUE))
  <2>1. TreeInv /\ t \in allocated /\ InTree(t)
    BY <1>3, <1>5, InTreeIsBelow DEF Calm, onMonitoringBalanceTreeStaticSplit
  <2>2. TreeInv'
    <3>1. requests' = requests + 1 /\ orderly'
      BY <1>5, <2>1 DEF Granted
    <3> QED
      BY <1>3, <1>5, <2>1, <3>1, SplitStep
  <2>3. PICK kids : LET K == {kids[k] : k \in Child}
                    IN  /\ kids \in [Child -> K] /\ K \cap allocated = {} /\ t \notin K
                        /\ allocated' = allocated \union K /\ Grown(tree, t, kids, tree')
    BY <1>3, <1>5, <2>1, SplitsTree
  <2> DEFINE K == {kids[k] : k \in Child}
             cp == token_to_tree_node
  <2>4. /\ kids \in [Child -> K] /\ K \cap allocated = {} /\ t \notin K
        /\ allocated' = allocated \union K /\ Grown(tree, t, kids, tree')
        /\ \A k \in Child : kids[k] \in K
    BY <2>3
  <2>5. token_to_tree_node' = cp
    BY <1>1 DEF Takes, walkVars
  <2>6. /\ cp \in [DOMAIN cp -> Entry(DOMAIN tree)] /\ DOMAIN cp \subseteq DOMAIN tree
        /\ Descends(tree, cp) /\ Sound(tree)
        /\ \A u \in DOMAIN cp : u \notin allocated => cp[u].children = NoChildren
    BY <2>1 DEF Calm, CopyOK, IsCopy, TreeInv, TreeShape
  <2>7. DOMAIN tree \subseteq DOMAIN tree' /\ tree'[t].leaf_node = FALSE
        /\ \A u \in DOMAIN tree : u # t /\ u \notin K => tree'[u].leaf_node = tree[u].leaf_node
    BY <2>4 DEF Grown
  <2> HIDE DEF cp, K
  <2>8. Descends(tree', cp)
    <3>1. \A k \in Child : kids[k] # t /\ (kids[k] \in DOMAIN cp => cp[kids[k]].children = NoChildren)
      BY <2>4, <2>6
    <3> QED
      BY <1>3, <2>4, <2>6, <3>1, SplitDescends
  <2>9. cp \in [DOMAIN cp -> Entry(DOMAIN tree')]
    <3>1. \A u \in DOMAIN cp : cp[u] \in Entry(DOMAIN tree')
      BY <2>6, <2>7, EntryGrows
    <3> QED
      BY <2>6, <3>1
  <2>10. CopyOK'
    BY <2>4, <2>5, <2>6, <2>7, <2>8, <2>9 DEF CopyOK, IsCopy
  <2>11. \A u : Stale(u)' => TRUE
    OBVIOUS
  <2> QED
    BY <1>1, <1>2, <1>5, <2>2, <2>10, <2>11, Judged
<1> QED
  BY <1>1, <1>4, <1>5

\* onMonitoringBalanceTreeStaticMerge: what the merge makes stale is met by the
\* walk that its answer begins.
LEMMA StaticMergeStep == ASSUME Calm, StaticMerge PROVE Calm'
<1> DEFINE t == Head(to_balancer).token
           kind == "Merge"
<1>1. /\ Takes(kind) /\ proxies' = proxies
      /\ \/ /\ onMonitoringBalanceTreeStaticMerge(t)
            /\ Granted(t)
            /\ standardSend(changed(TRUE))
         \/ /\ standardSend(changed(FALSE))
            /\ UNCHANGED treeVars
  BY DEF StaticMerge
<1>2. kind \in Change
  BY DEF Change
<1> HIDE DEF kind
<1>3. t \in DOMAIN tree /\ Below(tree, Root, t) /\ requests < MaxRequests /\ \A u : ~Stale(u)
  BY <1>1, <1>2, ChangeAsked
<1> HIDE DEF t
<1>4. CASE standardSend(changed(FALSE)) /\ UNCHANGED treeVars
  BY <1>1, <1>2, <1>4, RefusedStep
<1>5. CASE /\ onMonitoringBalanceTreeStaticMerge(t)
           /\ Granted(t)
           /\ standardSend(changed(TRUE))
  <2>1. TreeInv /\ t \in allocated /\ InTree(t)
    BY <1>3, <1>5, InTreeIsBelow DEF Calm, onMonitoringBalanceTreeStaticMerge
  <2>2. TreeInv'
    <3>1. requests' = requests + 1 /\ orderly'
      BY <1>5, <2>1 DEF Granted
    <3> QED
      BY <1>3, <1>5, <2>1, <3>1, MergeStep
  <2>3. Merged(tree, t, tree') /\ \A u \in allocated : u \notin allocated' => tree[u].leaf_node
    BY <1>3, <1>5, <2>1, MergesTree
  <2> DEFINE cp == token_to_tree_node
  <2>4. token_to_tree_node' = cp
    BY <1>1 DEF Takes, walkVars
  <2>5. /\ cp \in [DOMAIN cp -> Entry(DOMAIN tree)] /\ DOMAIN cp \subseteq DOMAIN tree
        /\ Descends(tree, cp)
        /\ \A u \in DOMAIN cp : u \notin allocated => cp[u].children = NoChildren
    BY DEF Calm, CopyOK, IsCopy
  <2>6. DOMAIN tree' = DOMAIN tree
    BY <2>3 DEF Merged
  <2>7. ASSUME NEW u \in DOMAIN cp, u \notin allocated' PROVE cp[u].children = NoChildren
    <3>1. CASE u \in allocated
      <4>1. tree[u].leaf_node /\ ~Stale(u)
        BY <1>3, <2>3, <2>7, <3>1
      <4> QED
        BY <3>1, <4>1 DEF Stale
    <3>2. CASE u \notin allocated
      BY <2>5, <3>2
    <3> QED
      BY <3>1, <3>2
  <2> HIDE DEF cp
  <2>8. Descends(tree', cp)
    BY <2>3, <2>5, MergeDescends
  <2>9. CopyOK'
    BY <2>4, <2>5, <2>6, <2>7, <2>8 DEF CopyOK, IsCopy
  <2>10. \A u : Stale(u)' => TRUE
    OBVIOUS
  <2> QED
    BY <1>1, <1>2, <1>5, <2>2, <2>9, <2>10, Judged
<1> QED
  BY <1>1, <1>4, <1>5


-----------------------------------------------------------------------------
\* The loop that goes on with the walk.

\* The greatest of a set of places, 0 when there is none.
LEMMA MaxOrNone ==
    ASSUME NEW n \in Nat, NEW s \in SUBSET (1 .. n)
    PROVE  Max(s \union {0}) \in s \union {0} /\ \A y \in s : Max(s \union {0}) >= y
<1> DEFINE z == s \union {0}
<1>1. \E x \in z : \A y \in z : x >= y
  <2>1. CASE s = {}
    BY <2>1
  <2>2. CASE s # {}
    <3>1. Max(s) \in s /\ \A x \in s : Max(s) >= x
      BY <2>2, MaxIsIn
    <3> DEFINE x == Max(s)
    <3>2. x \in 1 .. n
      BY <3>1
    <3> HIDE DEF x
    <3>3. x >= 0
      BY <3>2
    <3>4. x \in z /\ \A y \in z : x >= y
      BY <3>1, <3>3 DEF x
    <3> QED
      BY <3>4
  <2> QED
    BY <2>1, <2>2
<1>2. Max(z) \in z /\ \A y \in z : Max(z) >= y
  <2> HIDE DEF z
  <2> QED
    BY <1>1 DEF Max
<1> QED
  BY <1>2

\* The innermost tree on the stack that has a child left to ask for is at stop; no
\* tree behind it has one, so that it is not on the stack behind it again.
StopsAt(cp, stack, stop) ==
    /\ stop \in 0 .. Len(stack)
    /\ \A n \in 1 .. Len(stack) : n > stop => Index(cp, stack[n]) >= 4
    /\ stop > 0 => /\ Index(cp, stack[stop]) < 4
                   /\ Cardinality({i \in 1 .. Len(stack) : i >= stop /\ stack[i] = stack[stop]}) = 1

\* resume finds the last tree of the stack whose children were not all asked
\* for.
LEMMA Resumed ==
    ASSUME NEW cp, NEW stack \in Seq(DOMAIN cp), \A p \in ToSet(stack) : Index(cp, p) \in Nat,
           NEW stop, stop = resume(cp, stack)
    PROVE  StopsAt(cp, stack, stop)
<1> DEFINE L == Len(stack)
           times(n) == Cardinality({i \in n .. L : stack[i] = stack[n]})
           next(n) == cp[stack[n]].current_child_index_to_send + times(n)
           open == {n \in 1 .. L : next(n) < ChildLast}
<1>1. L \in Nat /\ DOMAIN stack = 1 .. L
  BY LenProperties
<1>2. stop = Max(open \union {0})
  BY DEF resume
<1>3. \A n \in 1 .. L : Index(cp, stack[n]) \in Nat
  BY <1>1 DEF ToSet
<1>4. \A n \in 1 .. L : next(n) = Index(cp, stack[n]) + times(n)
  BY DEF Index
<1> HIDE DEF L
<1>5. \A n \in 1 .. L : times(n) \in Nat /\ times(n) >= 1
  <2> SUFFICES ASSUME NEW n \in 1 .. L PROVE times(n) \in Nat /\ times(n) >= 1
    OBVIOUS
  <2> DEFINE T == {i \in n .. L : stack[i] = stack[n]}
  <2>1. T \in SUBSET (1 .. L) /\ {n} \in SUBSET T
    BY <1>1
  <2> HIDE DEF T
  <2>2. IsFiniteSet(T) /\ Cardinality(T) \in Nat
    BY <1>1, <2>1, CountedPlaces
  <2>3. Cardinality({n}) <= Cardinality(T) /\ Cardinality({n}) = 1
    BY <2>1, <2>2, FS_Subset, FS_Singleton
  <2> QED
    BY <2>2, <2>3 DEF T
<1> HIDE DEF times, next
<1>6. open \in SUBSET (1 .. L) /\ \A n \in 1 .. L : n \in open <=> next(n) < ChildLast
  OBVIOUS
<1> HIDE DEF open
<1>7. stop \in open \union {0} /\ \A n \in open : stop >= n
  BY <1>1, <1>2, <1>6, MaxOrNone
<1>8. stop \in 0 .. L
  BY <1>1, <1>6, <1>7
<1>9. ASSUME NEW n \in 1 .. L, n > stop
      PROVE  Index(cp, stack[n]) >= 4
  <2> DEFINE T == {i \in n .. L : stack[i] = stack[n]}
             j == Max(T)
  <2>1. T \in SUBSET (1 .. L) /\ n \in T /\ \A i \in T : i \in n .. L /\ stack[i] = stack[n]
    BY <1>1
  <2> HIDE DEF T
  <2>2. j \in T /\ \A i \in T : j >= i
    BY <1>1, <2>1, MaxIsIn
  <2>3. j \in 1 .. L /\ j >= n /\ stack[j] = stack[n]
    BY <2>1, <2>2
  <2> HIDE DEF j
  <2>4. {i \in j .. L : stack[i] = stack[j]} = {j}
    <3>1. ASSUME NEW i \in j .. L, stack[i] = stack[j] PROVE i = j
      <4>1. i \in T
        BY <1>1, <2>3, <3>1 DEF T
      <4>2. j >= i /\ i >= j
        BY <1>1, <2>2, <2>3, <4>1
      <4> QED
        BY <1>1, <2>3, <4>2
    <3>2. j \in j .. L
      BY <1>1, <2>3
    <3> QED
      BY <3>1, <3>2
  <2>5. times(j) = 1
    BY <2>4, FS_Singleton DEF times
  <2>6. j \notin open
    <3>1. j > stop
      BY <1>1, <1>8, <1>9, <2>3
    <3>2. \A m \in open : m \in 1 .. L /\ stop >= m
      BY <1>6, <1>7
    <3> QED
      BY <1>1, <1>8, <2>3, <3>1, <3>2
  <2>7. ~(Index(cp, stack[j]) + 1 < ChildLast) /\ Index(cp, stack[j]) \in Nat
    BY <1>3, <1>4, <1>6, <2>3, <2>5, <2>6
  <2> QED
    BY <2>3, <2>7 DEF ChildLast
<1>10. ASSUME stop > 0
       PROVE  /\ Index(cp, stack[stop]) < 4
              /\ Cardinality({i \in 1 .. L : i >= stop /\ stack[i] = stack[stop]}) = 1
  <2>1. stop \in open /\ stop \in 1 .. L
    BY <1>6, <1>7, <1>10
  <2>2. Index(cp, stack[stop]) + times(stop) < 5 /\ Index(cp, stack[stop]) \in Nat
    BY <1>3, <1>4, <1>6, <2>1 DEF ChildLast
  <2>3. Index(cp, stack[stop]) < 4
    BY <1>5, <2>1, <2>2
  <2>4. \A i \in 1 .. L : i >= stop /\ stack[i] = stack[stop] => i = stop
    <3> SUFFICES ASSUME NEW i \in 1 .. L, i >= stop, stack[i] = stack[stop], i # stop PROVE FALSE
      OBVIOUS
    <3>1. i > stop
      BY <1>1, <2>1
    <3>2. Index(cp, stack[i]) >= 4
      BY <1>9, <3>1
    <3> QED
      BY <2>2, <2>3, <3>2
  <2>5. {i \in 1 .. L : i >= stop /\ stack[i] = stack[stop]} = {stop}
    BY <1>1, <2>1, <2>4
  <2> QED
    BY <2>3, <2>5, FS_Singleton
<1> QED
  BY <1>8, <1>9, <1>10 DEF StopsAt, L

\* after is cp with the indices of the trees that the loop has passed counted up.
CountedUp(D, cp, stack, stop, after) ==
    /\ DOMAIN after = DOMAIN cp
    /\ \A t \in DOMAIN cp :
          LET e == after[t]
              n == Cardinality({i \in 1 .. Len(stack) : i >= stop /\ stack[i] = t})
          IN  /\ e \in Entry(D) /\ n \in Nat
              /\ e.children = cp[t].children
              /\ e.current_child_index_to_send = Index(cp, t) + n
              /\ (\A i \in 1 .. Len(stack) : i >= stop => stack[i] # t) => n = 0

\* passed counts up the trees of the stack from there on, and nothing else.
LEMMA Passed ==
    ASSUME NEW D, NEW cp, cp \in [DOMAIN cp -> Entry(D)], NEW stack \in Seq(DOMAIN cp), NEW stop
    PROVE  CountedUp(D, cp, stack, stop, passed(cp, stack, stop))
<1> DEFINE after == passed(cp, stack, stop)
           L == Len(stack)
<1>1. L \in Nat
  BY LenProperties
<1>2. DOMAIN after = DOMAIN cp
  BY DEF passed
<1>3. ASSUME NEW t \in DOMAIN cp
      PROVE  LET e == after[t]
                 n == Cardinality({i \in 1 .. L : i >= stop /\ stack[i] = t})
             IN  /\ e \in Entry(D) /\ n \in Nat
                 /\ e.children = cp[t].children
                 /\ e.current_child_index_to_send = Index(cp, t) + n
                 /\ (\A i \in 1 .. L : i >= stop => stack[i] # t) => n = 0
  <2> DEFINE T == {i \in 1 .. L : i >= stop /\ stack[i] = t}
             n == Cardinality(T)
             e == after[t]
  <2>1. e = [cp[t] EXCEPT !.current_child_index_to_send = @ + n]
    BY DEF passed
  <2>2. T \in SUBSET (1 .. L)
    OBVIOUS
  <2>3. (\A i \in 1 .. L : i >= stop => stack[i] # t) => T = {}
    OBVIOUS
  <2> HIDE DEF L, after
  <2>4. n \in Nat
    <3> HIDE DEF T
    <3> QED
      BY <1>1, <2>2, CountedPlaces
  <2>5. T = {} => n = 0
    BY FS_EmptySet
  <2> HIDE DEF T
  <2> HIDE DEF n
  <2>6. cp[t] \in Entry(D)
    OBVIOUS
  <2> HIDE DEF e
  <2>7. e \in Entry(D) /\ e.children = cp[t].children
        /\ e.current_child_index_to_send = cp[t].current_child_index_to_send + n
    BY <2>1, <2>4, <2>6 DEF Entry
  <2> QED
    BY <2>3, <2>4, <2>5, <2>7 DEF T, n, e, Index
<1> QED
  BY <1>2, <1>3 DEF CountedUp

-----------------------------------------------------------------------------
\* The answer that the walk awaits.

\* The first child to ask for is the first one.
LEMMA FirstOfFour ==
    ASSUME TreeInv, NEW a, Truth(a)
    PROVE  firstChild(a) = 1
<1> DEFINE t == a.token
           s == {k \in Child : a.children[k] # 0} \union {ChildLast}
<1>1. t \in DOMAIN tree /\ Below(tree, Root, t) /\ a.leaf_node = tree[t].leaf_node
      /\ a.children = tree[t].children
  BY DEF Truth, Live
<1>2. CASE a.leaf_node
  BY <1>2 DEF firstChild
<1>3. CASE ~a.leaf_node
  <2>1. Quartered(tree, t) /\ NoTree \notin DOMAIN tree
    BY <1>1 DEF TreeInv, TreeShape, Sound
  <2>2. \A k \in Child : a.children[k] # 0
    BY <1>1, <1>3, <2>1 DEF Quartered, NoTree
  <2>3. s = 1 .. 5
    BY <2>2 DEF Child, ChildLast
  <2> HIDE DEF s
  <2>4. Min(s) = 1
    BY <2>3 DEF Min
  <2> QED
    BY <1>3, <2>4 DEF firstChild, s
<1> QED
  BY <1>2, <1>3

\* What the answer says of its tree is remembered.
LEMMA Remembered ==
    ASSUME Calm, NEW a, Truth(a), a.token # 0
    PROVE  LET cp == token_to_tree_node
               copy == remembered(a)
               t == a.token
           IN  /\ DOMAIN copy = DOMAIN cp \union {t}
               /\ copy[t].children = tree[t].children
               /\ Index(copy, t) = 1
               /\ \A u \in DOMAIN cp : u # t => copy[u] = cp[u]
               /\ IsCopy(copy)
<1> DEFINE cp == token_to_tree_node
           copy == remembered(a)
           t == a.token
           e == [box |-> a.box, children |-> a.children, leaf_node |-> a.leaf_node,
                 current_child_index_to_send |-> firstChild(a)]
           D == DOMAIN tree
<1>1. /\ t \in D /\ Below(tree, Root, t) /\ a.leaf_node = tree[t].leaf_node
      /\ a.children = tree[t].children /\ a.box = tree[t].box
  BY DEF Truth, Live
<1>2. firstChild(a) = 1
  BY FirstOfFour DEF Calm
<1>3. copy = [u \in DOMAIN cp \union {t} |-> IF u = t THEN e ELSE cp[u]]
  BY DEF remembered
<1>4. e.children = tree[t].children /\ e.current_child_index_to_send = 1
  BY <1>1, <1>2
<1>5. /\ cp \in [DOMAIN cp -> Entry(D)] /\ DOMAIN cp \subseteq D /\ Descends(tree, cp)
      /\ \A u \in DOMAIN cp : u \notin allocated => cp[u].children = NoChildren
  BY DEF Calm, CopyOK, IsCopy
<1>6. /\ t \in allocated /\ tree[t] \in Node(D) /\ LeavesChildless(tree)
  BY <1>1 DEF Calm, TreeInv, TreeShape, Sound
<1>7. e \in Entry(D)
  BY <1>1, <1>2, <1>6 DEF Entry, Node
<1> HIDE DEF e, copy, cp
<1>8. /\ DOMAIN copy = DOMAIN cp \union {t} /\ copy[t] = e
      /\ \A u \in DOMAIN cp : u # t => copy[u] = cp[u]
  BY <1>3
<1>9. copy \in [DOMAIN copy -> Entry(D)]
  BY <1>3, <1>5, <1>7
<1>10. Descends(tree, copy)
  <2>1. PICK m, b : Heights(tree, m, b) /\ Lower(cp, m)
    BY <1>5 DEF Descends
  <2>2. ASSUME NEW u \in DOMAIN copy, NEW k \in Child, copy[u].children[k] # NoTree
        PROVE  m[copy[u].children[k]] < m[u]
    <3>1. CASE u = t
      <4>1. copy[u].children = tree[t].children
        BY <1>4, <1>8, <3>1
      <4>2. ~tree[t].leaf_node
        BY <1>1, <1>6, <2>2, <4>1 DEF LeavesChildless, NoChildren
      <4> QED
        BY <1>1, <2>1, <3>1, <4>1, <4>2 DEF Heights
    <3>2. CASE u # t
      BY <1>8, <2>1, <2>2, <3>2 DEF Lower
    <3> QED
      BY <3>1, <3>2
  <2> QED
    BY <2>1, <2>2 DEF Descends, Lower
<1>11. IsCopy(copy)
  BY <1>1, <1>5, <1>6, <1>8, <1>9, <1>10 DEF IsCopy
<1> QED
  BY <1>4, <1>8, <1>11 DEF Index, copy, cp

\* The trees on the stack are inner trees that the monitor knows as they are.
LEMMA Stacked ==
    ASSUME Calm, NEW a, Truth(a), a.token # 0
    PROVE  OnStack(remembered(a), stacked(a))
<1> DEFINE cp == token_to_tree_node
           copy == remembered(a)
           t == a.token
<1>1. /\ DOMAIN copy = DOMAIN cp \union {t} /\ copy[t].children = tree[t].children
      /\ Index(copy, t) = 1 /\ \A u \in DOMAIN cp : u # t => copy[u] = cp[u]
  BY Remembered
<1> HIDE DEF copy
<1>2. /\ parent_stack \in Seq(DOMAIN cp)
      /\ \A p \in ToSet(parent_stack) : /\ Live(p) /\ ~tree[p].leaf_node
                                        /\ cp[p].children = tree[p].children /\ Index(cp, p) > 0
  BY DEF Calm, WalkOK, OnStack
<1>3. parent_stack \in Seq(DOMAIN copy)
  <2>1. \A i \in 1 .. Len(parent_stack) : parent_stack[i] \in DOMAIN copy
    BY <1>1, <1>2, ElementOfSeq
  <2> QED
    BY <1>2, <2>1, LenProperties, IsASeq
<1>4. \A p \in ToSet(parent_stack) : p \in DOMAIN cp
  BY <1>2, LenProperties, ElementOfSeq DEF ToSet
<1>5. \A p \in ToSet(parent_stack) : /\ Live(p) /\ ~tree[p].leaf_node
                                     /\ copy[p].children = tree[p].children /\ Index(copy, p) > 0
  BY <1>1, <1>2, <1>4 DEF Index
<1>6. CASE a.leaf_node
  BY <1>3, <1>5, <1>6 DEF OnStack, stacked, copy
<1>7. CASE ~a.leaf_node
  <2>1. stacked(a) = Append(parent_stack, t)
    BY <1>7 DEF stacked
  <2>2. t \in DOMAIN copy /\ Live(t) /\ ~tree[t].leaf_node
    BY <1>1, <1>7 DEF Truth
  <2>3. stacked(a) \in Seq(DOMAIN copy) /\ ToSet(stacked(a)) = ToSet(parent_stack) \union {t}
    BY <1>3, <2>1, <2>2, PutLast
  <2>4. \A p \in ToSet(stacked(a)) : /\ Live(p) /\ ~tree[p].leaf_node
                                     /\ copy[p].children = tree[p].children /\ Index(copy, p) > 0
    BY <1>1, <1>5, <2>2, <2>3
  <2> QED
    BY <2>3, <2>4 DEF OnStack, copy
<1> QED
  BY <1>6, <1>7

\* The walk goes on, with what it sends.
LEMMA Walked ==
    ASSUME Calm, Hears("TreeInfo"), NEW ms \in Seq(Request), writeDatagrams(ms),
           ~crashed', ShownOK', UNCHANGED <<server_info, proxy_info_requests>>,
           neighbor_requests' \in Seq(Question), CopyOK', WalkOK',
           \A q \in ToSet(ms) : /\ q.type \notin Change
                                /\ q.type = "TreeInfo" => Live(q.token),
           wait_token' # 0 =>
               \E q \in ToSet(ms) : q.type = "TreeInfo" /\ q.token = wait_token',
           \A t : Stale(t)' => Coming \/ Ahead(t)'
    PROVE  Calm'
<1> DEFINE rest == Tail(to_monitor)
           a == Head(to_monitor)
           all == to_balancer \o ms
<1>1. /\ to_monitor # << >> /\ a.type = "TreeInfo" /\ to_monitor' = rest /\ to_balancer' = all
      /\ UNCHANGED treesVars /\ asserts_hold' = asserts_hold /\ proxies' = proxies
      /\ server_info' = server_info /\ proxy_info_requests' = proxy_info_requests
  BY DEF Hears, writeDatagrams, serverVars, treeVars, treesVars
<1>2. to_balancer \in Seq(Request) /\ to_monitor \in Seq(Answer)
  BY DEF Calm, MailOK
<1>3. rest \in Seq(Answer) /\ ToSet(to_monitor) = {a} \union ToSet(rest)
  BY <1>1, <1>2, TakenOff
<1>4. all \in Seq(Request) /\ ToSet(all) = ToSet(to_balancer) \union ToSet(ms)
  BY <1>2, PutBehind
<1>5. tree' = tree /\ allocated' = allocated /\ free' = free /\ frontier' = frontier
      /\ requests' = requests /\ orderly' = orderly
  BY <1>1 DEF treesVars
<1>6. (\A t : Live(t)' <=> Live(t)) /\ (\A b : Truth(b)' <=> Truth(b))
  BY <1>5, SameTrees
<1>7. server_info
  BY <1>1 DEF Calm, InfoFirst
<1>8. \A q \in ToSet(to_balancer) : q.type \notin Change
  <2>1. ~Asking
    BY <1>1 DEF Calm, Alone
  <2>2. CASE to_balancer = << >>
    BY <2>2 DEF ToSet
  <2>3. CASE to_balancer # << >>
    BY <1>2, <2>1, <2>3, TakenOff DEF Calm, Alone, Asking
  <2> QED
    BY <2>2, <2>3
<1> HIDE DEF rest, a, all
<1>9. all # << >> => Head(all) \in ToSet(all) /\ ToSet(Tail(all)) \subseteq ToSet(all)
  BY <1>4, TakenOff
<1>10. MailOK'
  <2>1. \A q \in ToSet(all) : q.type \in {"TreeInfo", "Split", "Merge"} => Live(q.token)
    BY <1>4 DEF Calm, MailOK, Change
  <2> QED
    BY <1>1, <1>3, <1>4, <1>6, <2>1 DEF Calm, MailOK
<1>11. InfoFirst'
  BY <1>1, <1>7 DEF InfoFirst
<1>12. Alone'
  <2>1. \A q \in ToSet(all) : q.type \notin Change
    BY <1>4, <1>8
  <2> QED
    BY <1>1, <1>9, <2>1 DEF Alone, Asking
<1>13. Awaited'
  BY <1>1, <1>4 DEF Awaited, InFlight
<1>14. Coming => Coming'
  BY <1>1, <1>3, <1>4 DEF Coming
<1>15. StaleAhead'
  BY <1>14 DEF StaleAhead
<1>16. TreeInv'
  BY <1>1, <1>5 DEF Calm, TreeInv
<1> QED
  BY <1>10, <1>11, <1>12, <1>13, <1>15, <1>16 DEF Calm


\* The cells around a box that are asked for.
LEMMA AskedTyped ==
    ASSUME NEW box \in [x : Int, y : Int, size : Nat]
    PROVE  askedAround(box) \in Seq(Cells)
<1> DEFINE P == Seq(Cells)
           asked(x, y) == IF <<x, y>> \in AskedCells THEN << <<x, y>> >> ELSE << >>
           columns == [i \in 1 .. box.size + 2 |->
                         asked(box.x - 2 + i, box.y - 1)
                             \o asked(box.x - 2 + i, box.y + box.size)]
           rows == [i \in 1 .. box.size |->
                      asked(box.x - 1, box.y - 1 + i)
                          \o asked(box.x + box.size, box.y - 1 + i)]
           all == columns \o rows
<1>1. askedAround(box) = FlattenSeq(all)
  BY DEF askedAround
<1>2. box.x \in Int /\ box.y \in Int /\ box.size \in Nat
  OBVIOUS
<1>3. \A x, y \in Int : asked(x, y) \in P
  <2> SUFFICES ASSUME NEW x \in Int, NEW y \in Int PROVE asked(x, y) \in P
    OBVIOUS
  <2>1. <<x, y>> \in Cells
    BY DEF Cells
  <2> QED
    BY <2>1
<1> HIDE DEF asked
<1>4. \A s, r \in P : s \o r \in P
  BY ConcatProperties
<1>5. \A i \in 1 .. box.size + 2 :
         /\ asked(box.x - 2 + i, box.y - 1) \in P
         /\ asked(box.x - 2 + i, box.y + box.size) \in P
  <2> SUFFICES ASSUME NEW i \in 1 .. box.size + 2
               PROVE  /\ asked(box.x - 2 + i, box.y - 1) \in P
                      /\ asked(box.x - 2 + i, box.y + box.size) \in P
    OBVIOUS
  <2>1. box.x - 2 + i \in Int /\ box.y - 1 \in Int /\ box.y + box.size \in Int
    BY <1>2
  <2> QED
    BY <1>3, <2>1, Zenon
<1>6. \A i \in 1 .. box.size :
         /\ asked(box.x - 1, box.y - 1 + i) \in P
         /\ asked(box.x + box.size, box.y - 1 + i) \in P
  <2> SUFFICES ASSUME NEW i \in 1 .. box.size
               PROVE  /\ asked(box.x - 1, box.y - 1 + i) \in P
                      /\ asked(box.x + box.size, box.y - 1 + i) \in P
    OBVIOUS
  <2>1. box.x - 1 \in Int /\ box.x + box.size \in Int /\ box.y - 1 + i \in Int
    BY <1>2
  <2> QED
    BY <1>3, <2>1, Zenon
<1> HIDE DEF P
<1>7. \A i \in 1 .. box.size + 2 : columns[i] \in P
  BY <1>4, <1>5
<1>8. \A i \in 1 .. box.size : rows[i] \in P
  BY <1>4, <1>6
<1>9. columns \in Seq(P) /\ Len(columns) = box.size + 2
  <2>1. columns = [i \in 1 .. box.size + 2 |-> columns[i]] /\ box.size + 2 \in Nat
    BY <1>2
  <2> HIDE DEF columns
  <2>2. columns \in Seq(P)
    BY <1>7, <2>1, IsASeq
  <2> QED
    BY <2>1, <2>2, LenProperties
<1>10. rows \in Seq(P)
  <2>1. rows = [i \in 1 .. box.size |-> rows[i]]
    OBVIOUS
  <2> HIDE DEF rows
  <2> QED
    BY <1>2, <1>8, <2>1, IsASeq
<1> HIDE DEF columns, rows
<1>11. all \in Seq(P) /\ Len(all) = Len(columns) + Len(rows)
  BY <1>9, <1>10, ConcatProperties
<1>12. Len(all) \in Nat \ {0}
  <2>1. Len(rows) \in Nat
    BY <1>10, LenProperties
  <2> QED
    BY <1>2, <1>9, <1>11, <2>1
<1> HIDE DEF all
<1>13. all \in [1 .. Len(all) -> P]
  BY <1>11, LenProperties
<1> DEFINE n == Len(all)
<1> HIDE DEF n
<1>14. n \in Nat \ {0} /\ all \in [1 .. n -> Seq(Cells)]
  BY <1>12, <1>13 DEF n, P
<1>15. FlattenSeq(all) \in Seq(Cells)
  BY <1>14, FlattenSteps
<1> QED
  BY <1>1, <1>15

\* The list of the cells to ask for stays one of questions.
LEMMA Questions ==
    ASSUME Calm, NEW a \in Answer, a.type = "TreeInfo"
    PROVE  neighbor_requests \o generateNeighborRequests(a) \in Seq(Question)
<1> DEFINE asked == askedAround(a.box)
           more == [i \in 1 .. Len(asked) |-> [type |-> "NeighborInfo", success |-> FALSE,
                                               token |-> a.token, cell |-> asked[i]]]
<1>1. a.box \in [x : Int, y : Int, size : Nat] /\ a.token \in Nat
  BY DEF Answer
<1>2. asked \in Seq(Cells)
  BY <1>1, AskedTyped
<1> HIDE DEF asked
<1>3. Len(asked) \in Nat /\ \A i \in 1 .. Len(asked) : asked[i] \in Int \X Int
  BY <1>2, LenProperties, ElementOfSeq DEF Cells
<1>4. \A i \in 1 .. Len(asked) :
         [type |-> "NeighborInfo", success |-> FALSE, token |-> a.token, cell |-> asked[i]] \in Question
  BY <1>1, <1>3 DEF Question
<1>5. more \in Seq(Question)
  BY <1>3, <1>4, IsASeq
<1>6. generateNeighborRequests(a) \in Seq(Question)
  <2>1. generateNeighborRequests(a) = IF ~a.leaf_node THEN << >> ELSE more
    BY DEF generateNeighborRequests, asked
  <2> HIDE DEF more
  <2> QED
    BY <1>5, <2>1
<1>7. neighbor_requests \in Seq(Question)
  BY DEF Calm, MailOK
<1> QED
  BY <1>6, <1>7, ConcatProperties

\* What AskNext sends.
LEMMA AskedNext ==
    ASSUME NEW copy, NEW stack, AskNext(copy, stack), NEW c, c \in Nat, Live(c), c # 0,
           copy[Last(stack)].children[Index(copy, Last(stack))] = c
    PROVE  /\ token_to_tree_node' = copy /\ parent_stack' = stack /\ wait_token' = c
           /\ UNCHANGED <<proxy_info_requests, shown, crashed>>
           /\ \E ms \in Seq(Request) :
                 /\ writeDatagrams(ms)
                 /\ \A q \in ToSet(ms) : /\ q.type \notin Change
                                         /\ q.type = "TreeInfo" => Live(q.token)
                 /\ \E q \in ToSet(ms) : q.type = "TreeInfo" /\ q.token = c
<1> DEFINE q == getBalanceTreeInfo(c)
           ms == <<q>>
<1>1. /\ token_to_tree_node' = copy /\ parent_stack' = stack /\ wait_token' = c
      /\ UNCHANGED <<proxy_info_requests, shown, crashed>> /\ writeDatagrams(ms)
  BY DEF AskNext, Index, proxyInfoVars
<1>2. q \in Request /\ q.type = "TreeInfo" /\ q.token = c
  BY Requests DEF getBalanceTreeInfo, About
<1> HIDE DEF q
<1>3. ms \in Seq(Request) /\ ToSet(ms) = {q}
  BY <1>2, OneAndTwo
<1> HIDE DEF ms
<1>4. \A r \in ToSet(ms) : r.type \notin Change /\ (r.type = "TreeInfo" => Live(r.token))
  BY <1>2, <1>3 DEF Change
<1>5. \E r \in ToSet(ms) : r.type = "TreeInfo" /\ r.token = c
  BY <1>2, <1>3
<1> QED
  BY <1>1, <1>3, <1>4, <1>5


\* The answer that the walk waits for is about a tree of the copy, or the root.
LEMMA AwaitedAnswer ==
    ASSUME Calm, Hears("TreeInfo")
    PROVE  LET a == Head(to_monitor)
           IN  a \in Answer /\ a.type = "TreeInfo" /\ Truth(a) /\ a.token # 0
<1>1. to_monitor \in Seq(Answer) /\ to_monitor # << >> /\ Head(to_monitor).type = "TreeInfo"
  BY DEF Calm, MailOK, Hears
<1>2. Head(to_monitor) \in Answer /\ Head(to_monitor) \in ToSet(to_monitor)
  BY <1>1, TakenOff
<1>3. Truth(Head(to_monitor))
  BY <1>1, <1>2 DEF Calm, MailOK
<1>4. Head(to_monitor).token # 0
  BY <1>3 DEF Truth, Live, Calm, TreeInv, TreeShape, Sound, NoTree
<1> QED
  BY <1>1, <1>2, <1>3, <1>4

\* An inner tree: the walk descends.
LEMMA DescendStep ==
    ASSUME Calm, Hears("TreeInfo"), NEW a, a = Head(to_monitor), a.token = wait_token,
           ~a.leaf_node, AskNext(remembered(a), stacked(a)),
           UNCHANGED <<neighbor_requests, server_info>>
    PROVE  Calm'
<1> DEFINE t == a.token
           cp == token_to_tree_node
           copy == remembered(a)
           stack == stacked(a)
           c == tree[t].children[1]
<1>1. Truth(a) /\ t # 0 /\ TreeInv
  BY AwaitedAnswer DEF Calm
<1>2. /\ DOMAIN copy = DOMAIN cp \union {t} /\ copy[t].children = tree[t].children
      /\ Index(copy, t) = 1 /\ (\A u \in DOMAIN cp : u # t => copy[u] = cp[u]) /\ IsCopy(copy)
  BY <1>1, Remembered
<1>3. OnStack(copy, stack)
  BY <1>1, Stacked
<1> HIDE DEF copy
<1>4. stack = Append(parent_stack, t)
  BY DEF stacked
<1>5. /\ parent_stack \in Seq(DOMAIN cp)
      /\ DOMAIN cp \subseteq DOMAIN copy
  BY <1>2 DEF Calm, WalkOK, OnStack
<1>6. parent_stack \in Seq(DOMAIN copy)
  <2>1. \A i \in 1 .. Len(parent_stack) : parent_stack[i] \in DOMAIN copy
    BY <1>5, ElementOfSeq
  <2> QED
    BY <1>5, <2>1, LenProperties, IsASeq
<1>7. ToSet(stack) = ToSet(parent_stack) \union {t} /\ Last(stack) = t
  <2>1. t \in DOMAIN copy
    BY <1>2
  <2>2. ToSet(stack) = ToSet(parent_stack) \union {t}
    <3> HIDE DEF stack, t
    <3>1. ToSet(Append(parent_stack, t)) = ToSet(parent_stack) \union {t}
      BY <1>6, <2>1, PutLast
    <3> QED
      BY <1>4, <3>1
  <2>3. Len(stack) = Len(parent_stack) + 1 /\ stack[Len(parent_stack) + 1] = t
    BY <1>4, <1>6, <2>1, AppendProperties
  <2> QED
    BY <2>2, <2>3 DEF Last
<1> HIDE DEF stack
<1>8. 1 \in Child
  BY DEF Child
<1>9. /\ t \in DOMAIN tree /\ Below(tree, Root, t) /\ ~tree[t].leaf_node /\ Live(t)
  BY <1>1 DEF Truth, Live
<1>10. c \in Nat /\ c # 0 /\ Live(c)
  BY <1>1, <1>8, <1>9, ChildLive
<1>11. copy[Last(stack)].children[Index(copy, Last(stack))] = c
  BY <1>2, <1>7
<1>12. AskNext(copy, stack)
  BY DEF copy, stack
<1> HIDE DEF c
<1>13. /\ token_to_tree_node' = copy /\ parent_stack' = stack /\ wait_token' = c
       /\ UNCHANGED <<proxy_info_requests, shown, crashed>>
  BY <1>10, <1>11, <1>12, AskedNext
<1>14. PICK ms \in Seq(Request) :
          /\ writeDatagrams(ms)
          /\ \A q \in ToSet(ms) : q.type \notin Change /\ (q.type = "TreeInfo" => Live(q.token))
          /\ \E q \in ToSet(ms) : q.type = "TreeInfo" /\ q.token = c
  BY <1>10, <1>11, <1>12, AskedNext
<1>15. tree' = tree /\ allocated' = allocated
  BY DEF Hears, serverVars, treeVars
<1>16. CopyOK'
  BY <1>2, <1>13, <1>15 DEF CopyOK, IsCopy
<1>17. WalkOK'
  <2>1. \A u : Live(u)' <=> Live(u)
    BY <1>15, SameTrees
  <2> QED
    BY <1>3, <1>10, <1>13, <1>15, <2>1 DEF WalkOK, OnStack
<1>18. ShownOK' /\ ~crashed'
  BY <1>2, <1>13 DEF Calm, ShownOK
<1>19. ASSUME NEW u, Stale(u)' PROVE Coming \/ Ahead(u)'
  <2>1. /\ u \in DOMAIN copy /\ u \in allocated /\ tree[u].leaf_node
        /\ copy[u].children # NoChildren
    BY <1>13, <1>15, <1>19 DEF Stale
  <2>2. u # t /\ u \in DOMAIN tree
    BY <1>1, <1>9, <2>1 DEF TreeInv, TreeShape
  <2>3. Stale(u)
    BY <1>2, <2>1, <2>2 DEF Stale
  <2>4. Coming \/ Ahead(u)
    BY <2>3 DEF Calm, StaleAhead
  <2>5. CASE Below(tree, t, u)
    <3>1. Quartered(tree, t) /\ Sound(tree)
      BY <1>1, <1>9 DEF TreeInv, TreeShape
    <3>2. PICK k \in Child : Below(tree, tree[t].children[k], u)
      BY <1>9, <2>2, <2>5, <3>1, BelowChildren
    <3>3. CASE k = 1
      BY <1>10, <1>13, <1>15, <3>2, <3>3 DEF Ahead, c
    <3>4. CASE k # 1
      <4>1. k > Index(copy, t) /\ t \in ToSet(stack)
        BY <1>2, <1>7, <3>4 DEF Child
      <4>2. /\ t \in ToSet(parent_stack') /\ k > Index(token_to_tree_node', t)
            /\ Below(tree', tree'[t].children[k], u)
        BY <1>13, <1>15, <3>2, <4>1
      <4> QED
        BY <4>2 DEF Ahead, Index
    <3> QED
      BY <3>3, <3>4
  <2>6. CASE Ahead(u) /\ ~Below(tree, t, u)
    <3>1. PICK p \in ToSet(parent_stack), k \in Child :
             k > Index(cp, p) /\ Below(tree, tree[p].children[k], u)
      BY <2>6 DEF Ahead
    <3>2. Live(p) /\ ~tree[p].leaf_node /\ p \in DOMAIN cp
      BY <1>5, ElementOfSeq, LenProperties DEF Calm, WalkOK, OnStack, ToSet
    <3>3. p # t
      BY <1>1, <2>2, <2>6, <3>1, <3>2, ChildLive
    <3>4. copy[p] = cp[p]
      BY <1>2, <3>2, <3>3
    <3>5. /\ p \in ToSet(parent_stack') /\ k > Index(token_to_tree_node', p)
          /\ Below(tree', tree'[p].children[k], u)
      BY <1>7, <1>13, <1>15, <3>1, <3>4 DEF Index
    <3> QED
      BY <3>5 DEF Ahead, Index
  <2> QED
    BY <2>4, <2>5, <2>6
<1>20. server_info' = server_info /\ neighbor_requests' \in Seq(Question)
       /\ proxy_info_requests' = proxy_info_requests
  BY <1>13 DEF Calm, MailOK
<1>21. wait_token' # 0 => \E q \in ToSet(ms) : q.type = "TreeInfo" /\ q.token = wait_token'
  BY <1>13, <1>14
<1> QED
  BY <1>14, <1>16, <1>17, <1>18, <1>19, <1>20, <1>21, Walked


\* The loop changes nothing in the copy but indices.
LEMMA PassedCopy ==
    ASSUME NEW cp, IsCopy(cp), NEW stack \in Seq(DOMAIN cp), NEW stop
    PROVE  IsCopy(passed(cp, stack, stop))
<1> DEFINE after == passed(cp, stack, stop)
           D == DOMAIN tree
<1>1. /\ cp \in [DOMAIN cp -> Entry(D)] /\ DOMAIN cp \subseteq D /\ Descends(tree, cp)
      /\ \A t \in DOMAIN cp : t \notin allocated => cp[t].children = NoChildren
  BY DEF IsCopy
<1> HIDE DEF D
<1>2. /\ DOMAIN after = DOMAIN cp
      /\ \A t \in DOMAIN cp : after[t] \in Entry(D) /\ after[t].children = cp[t].children
  <2>1. CountedUp(D, cp, stack, stop, after)
    BY <1>1, Passed
  <2> HIDE DEF after
  <2> QED
    BY <2>1 DEF CountedUp
<1>3. after = [t \in DOMAIN after |-> after[t]]
  BY DEF passed
<1> HIDE DEF after
<1>4. after \in [DOMAIN after -> Entry(D)]
  BY <1>2, <1>3
<1>5. Descends(tree, after)
  <2>1. PICK m, b : Heights(tree, m, b) /\ Lower(cp, m)
    BY <1>1 DEF Descends
  <2>2. Lower(after, m)
    BY <1>2, <2>1 DEF Lower
  <2> QED
    BY <2>1, <2>2 DEF Descends
<1> QED
  BY <1>1, <1>2, <1>4, <1>5 DEF IsCopy, after, D

\* After a leaf what is still ahead is ahead on the stack.
LEMMA OnlyOnStack ==
    ASSUME Calm, NEW a, Truth(a), a.token = wait_token, a.token # 0, a.leaf_node,
           NEW u \in DOMAIN remembered(a), u \in allocated, tree[u].leaf_node,
           remembered(a)[u].children # NoChildren, ~Coming
    PROVE  \E p \in ToSet(parent_stack), k \in Child :
              k > Index(remembered(a), p) /\ Below(tree, tree[p].children[k], u)
<1> DEFINE t == a.token
           cp == token_to_tree_node
           copy == remembered(a)
<1>1. /\ DOMAIN copy = DOMAIN cp \union {t} /\ copy[t].children = tree[t].children
      /\ \A v \in DOMAIN cp : v # t => copy[v] = cp[v]
  BY Remembered
<1> HIDE DEF copy
<1>2. /\ t \in DOMAIN tree /\ tree[t].leaf_node /\ TreeInv
      /\ Quartered(tree, t) /\ Sound(tree) /\ allocated \subseteq DOMAIN tree
      /\ tree[t].children = NoChildren
  BY DEF Truth, Live, Calm, TreeInv, TreeShape, Sound, LeavesChildless
<1>3. u # t /\ u \in DOMAIN cp /\ copy[u] = cp[u] /\ u \in DOMAIN tree
  BY <1>1, <1>2 DEF copy
<1>4. Stale(u)
  BY <1>3 DEF Stale, copy
<1>5. Ahead(u)
  BY <1>4 DEF Calm, StaleAhead
<1>6. ~Below(tree, t, u)
  BY <1>2, <1>3, BelowChildren
<1>7. PICK p \in ToSet(parent_stack), k \in Child :
         k > Index(cp, p) /\ Below(tree, tree[p].children[k], u)
  BY <1>5, <1>6 DEF Ahead
<1>8. ~tree[p].leaf_node /\ p \in DOMAIN cp
  BY ElementOfSeq, LenProperties DEF Calm, WalkOK, OnStack, ToSet
<1>9. copy[p] = cp[p]
  BY <1>1, <1>2, <1>8
<1>10. k > Index(copy, p)
  BY <1>7, <1>9 DEF Index
<1> QED
  BY <1>7, <1>10 DEF copy

\* What a leaf that was awaited leaves of the walk.
LEMMA AtLeaf ==
    ASSUME Calm, NEW a, Truth(a), a.token # 0, a.leaf_node
    PROVE  LET copy == remembered(a)
           IN  /\ stacked(a) = parent_stack /\ IsCopy(copy) /\ OnStack(copy, parent_stack)
               /\ DOMAIN token_to_tree_node \subseteq DOMAIN copy
               /\ \A p \in ToSet(parent_stack) : Index(copy, p) \in Nat
<1> DEFINE copy == remembered(a)
<1>1. stacked(a) = parent_stack
  BY DEF stacked
<1>2. IsCopy(copy) /\ DOMAIN token_to_tree_node \subseteq DOMAIN copy
  BY Remembered
<1>3. OnStack(copy, parent_stack)
  BY <1>1, Stacked
<1> HIDE DEF copy
<1>4. ASSUME NEW p \in ToSet(parent_stack) PROVE Index(copy, p) \in Nat
  <2>1. p \in DOMAIN copy
    BY <1>3, LenProperties, ElementOfSeq DEF OnStack, ToSet
  <2>2. copy[p] \in Entry(DOMAIN tree)
    BY <1>2, <2>1 DEF IsCopy
  <2> QED
    BY <2>2 DEF Entry, Index
<1> QED
  BY <1>1, <1>2, <1>3, <1>4 DEF copy


\* A leaf, and a child is left to ask for.
LEMMA GoOnStep ==
    ASSUME Calm, Hears("TreeInfo"), NEW a, a = Head(to_monitor), a.token = wait_token,
           a.leaf_node, NEW stop, stop = resume(remembered(a), stacked(a)), stop > 0,
           AskNext(passed(remembered(a), stacked(a), stop), SubSeq(stacked(a), 1, stop)),
           neighbor_requests' = neighbor_requests \o generateNeighborRequests(a),
           UNCHANGED server_info
    PROVE  Calm'
<1> DEFINE t == a.token
           cp == token_to_tree_node
           copy == remembered(a)
           stack == parent_stack
           after == passed(copy, stack, stop)
           short == SubSeq(stack, 1, stop)
           p0 == stack[stop]
           i0 == Index(copy, p0)
           c == tree[p0].children[i0 + 1]
<1>1. a \in Answer /\ a.type = "TreeInfo" /\ Truth(a) /\ t # 0 /\ TreeInv
  BY AwaitedAnswer DEF Calm
<1>2. /\ stacked(a) = stack /\ IsCopy(copy) /\ OnStack(copy, stack) /\ DOMAIN cp \subseteq DOMAIN copy
      /\ \A p \in ToSet(stack) : Index(copy, p) \in Nat
  BY <1>1, AtLeaf
<1>3. stop = resume(copy, stack) /\ AskNext(after, short)
  BY <1>2
<1>4. ASSUME ~Coming, NEW u \in DOMAIN copy, u \in allocated, tree[u].leaf_node,
             copy[u].children # NoChildren
      PROVE  \E p \in ToSet(stack), k \in Child :
                k > Index(copy, p) /\ Below(tree, tree[p].children[k], u)
  BY <1>1, <1>4, OnlyOnStack
<1> HIDE DEF copy
<1>5. /\ stack \in Seq(DOMAIN copy)
      /\ \A p \in ToSet(stack) : /\ Live(p) /\ ~tree[p].leaf_node
                                 /\ copy[p].children = tree[p].children /\ Index(copy, p) > 0
  BY <1>2 DEF OnStack
<1>6. Len(stack) \in Nat /\ DOMAIN stack = 1 .. Len(stack) /\ \A i \in 1 .. Len(stack) : stack[i] \in DOMAIN copy
  BY <1>5, LenProperties, ElementOfSeq
<1>7. \A i \in 1 .. Len(stack) : stack[i] \in ToSet(stack)
  BY <1>6 DEF ToSet
<1>8. /\ stop \in 0 .. Len(stack)
      /\ \A n \in 1 .. Len(stack) : n > stop => Index(copy, stack[n]) >= 4
      /\ i0 < 4 /\ Cardinality({i \in 1 .. Len(stack) : i >= stop /\ stack[i] = p0}) = 1
  <2>1. StopsAt(copy, stack, stop)
    BY <1>2, <1>3, <1>5, Resumed
  <2> QED
    BY <2>1 DEF StopsAt
<1>9. stop \in 1 .. Len(stack) /\ p0 \in ToSet(stack) /\ p0 \in DOMAIN copy
  BY <1>6, <1>7, <1>8
<1>10. CountedUp(DOMAIN tree, copy, stack, stop, after)
  BY <1>2, <1>5, Passed DEF IsCopy
<1>11. IsCopy(after)
  BY <1>2, <1>5, PassedCopy
<1> HIDE DEF after, p0
<1>12. /\ DOMAIN after = DOMAIN copy
       /\ \A u \in DOMAIN copy :
             /\ after[u].children = copy[u].children
             /\ Index(after, u) = Index(copy, u)
                   + Cardinality({i \in 1 .. Len(stack) : i >= stop /\ stack[i] = u})
             /\ Cardinality({i \in 1 .. Len(stack) : i >= stop /\ stack[i] = u}) \in Nat
             /\ (\A i \in 1 .. Len(stack) : i >= stop => stack[i] # u) => 
                   Cardinality({i \in 1 .. Len(stack) : i >= stop /\ stack[i] = u}) = 0
  BY <1>10 DEF CountedUp, Index
<1>13. i0 \in Nat /\ i0 > 0 /\ i0 + 1 \in Child /\ Index(after, p0) = i0 + 1
  <2>1. i0 \in Nat /\ i0 > 0
    BY <1>2, <1>5, <1>9
  <2>2. Index(after, p0) = i0 + 1
    BY <1>8, <1>9, <1>12
  <2> HIDE DEF i0
  <2>3. i0 < 4
    BY <1>8 DEF i0
  <2> QED
    BY <2>1, <2>2, <2>3 DEF Child
<1> HIDE DEF i0
<1>14. short \in Seq(DOMAIN after) /\ ToSet(short) \subseteq ToSet(stack) /\ Last(short) = p0
       /\ \A i \in 1 .. stop : stack[i] \in ToSet(short)
  <2>1. Len(short) = stop /\ DOMAIN short = 1 .. stop /\ \A i \in 1 .. stop : short[i] = stack[i]
    BY <1>5, <1>6, <1>9
  <2>2. short \in Seq(DOMAIN copy)
    BY <1>5, <1>6, <1>9
  <2> HIDE DEF short
  <2>3. ToSet(short) \subseteq ToSet(stack)
    BY <1>6, <1>7, <1>9, <2>1 DEF ToSet
  <2>4. Last(short) = p0
    BY <1>9, <2>1 DEF Last, p0
  <2>5. \A i \in 1 .. stop : stack[i] \in ToSet(short)
    BY <2>1 DEF ToSet
  <2> QED
    BY <1>12, <2>2, <2>3, <2>4, <2>5
<1> HIDE DEF short
<1>15. p0 \in ToSet(short)
  BY <1>9, <1>14 DEF p0
<1>16. c \in Nat /\ c # 0 /\ Live(c)
  BY <1>1, <1>5, <1>9, <1>13, ChildLive
<1>17. after[Last(short)].children[Index(after, Last(short))] = c
  BY <1>5, <1>9, <1>12, <1>13, <1>14
<1> HIDE DEF c
<1>18. /\ token_to_tree_node' = after /\ parent_stack' = short /\ wait_token' = c
       /\ UNCHANGED <<proxy_info_requests, shown, crashed>>
  BY <1>3, <1>16, <1>17, AskedNext
<1>19. PICK ms \in Seq(Request) :
          /\ writeDatagrams(ms)
          /\ \A q \in ToSet(ms) : q.type \notin Change /\ (q.type = "TreeInfo" => Live(q.token))
          /\ \E q \in ToSet(ms) : q.type = "TreeInfo" /\ q.token = c
  BY <1>3, <1>16, <1>17, AskedNext
<1>20. tree' = tree /\ allocated' = allocated
  BY DEF Hears, serverVars, treeVars
<1>21. CopyOK'
  BY <1>11, <1>18, <1>20 DEF CopyOK, IsCopy
<1>22. WalkOK'
  <2>1. \A u : Live(u)' <=> Live(u)
    BY <1>20, SameTrees
  <2>2. ASSUME NEW p \in ToSet(short)
        PROVE  /\ Live(p) /\ ~tree[p].leaf_node
               /\ after[p].children = tree[p].children /\ Index(after, p) > 0
    <3>1. p \in ToSet(stack) /\ p \in DOMAIN copy
      BY <1>6, <1>14 DEF ToSet
    <3>2. Index(copy, p) \in Nat /\ Index(copy, p) > 0
      BY <1>2, <1>5, <3>1
    <3> DEFINE n == Cardinality({i \in 1 .. Len(stack) : i >= stop /\ stack[i] = p})
    <3>3. n \in Nat /\ Index(after, p) = Index(copy, p) + n
      BY <1>12, <3>1
    <3> HIDE DEF n
    <3>4. Index(after, p) > 0
      BY <3>2, <3>3
    <3> QED
      BY <1>5, <1>12, <3>1, <3>4
  <2> QED
    BY <1>14, <1>16, <1>18, <1>20, <2>1, <2>2 DEF WalkOK, OnStack
<1>23. ShownOK' /\ ~crashed'
  BY <1>2, <1>12, <1>18 DEF Calm, ShownOK
<1>24. ASSUME NEW u, Stale(u)' PROVE Coming \/ Ahead(u)'
  <2> SUFFICES ASSUME ~Coming PROVE Ahead(u)'
    OBVIOUS
  <2>1. /\ u \in DOMAIN copy /\ u \in allocated /\ tree[u].leaf_node
        /\ copy[u].children # NoChildren
    BY <1>12, <1>18, <1>20, <1>24 DEF Stale
  <2>2. PICK p \in ToSet(stack), k \in Child :
           k > Index(copy, p) /\ Below(tree, tree[p].children[k], u)
    BY <1>4, <2>1
  <2>3. Index(copy, p) \in Nat /\ p \in DOMAIN copy /\ k < 5 /\ k \in Nat
    BY <1>2, <1>6 DEF Child, ToSet
  <2>4. PICK i \in 1 .. Len(stack) : stack[i] = p
    BY <1>6 DEF ToSet
  <2>5. \A n \in 1 .. Len(stack) : n > stop => stack[n] # p
    BY <1>8, <2>2, <2>3
  <2>6. p \in ToSet(short)
    BY <1>6, <1>9, <1>14, <2>4, <2>5
  <2>7. CASE p = p0
    <3>1. k > i0
      BY <2>2, <2>7 DEF i0
    <3>2. CASE k = i0 + 1
      BY <1>16, <1>18, <1>20, <2>2, <2>7, <3>2 DEF Ahead, c
    <3>3. CASE k # i0 + 1
      <4>1. k > Index(after, p)
        BY <1>13, <2>3, <2>7, <3>1, <3>3
      <4> QED
        BY <1>18, <1>20, <2>2, <2>6, <4>1 DEF Ahead, Index
    <3> QED
      BY <3>2, <3>3
  <2>8. CASE p # p0
    <3>1. \A n \in 1 .. Len(stack) : n >= stop => stack[n] # p
      <4> SUFFICES ASSUME NEW n \in 1 .. Len(stack), n >= stop, stack[n] = p PROVE FALSE
        OBVIOUS
      <4>1. n # stop
        BY <2>8 DEF p0
      <4>2. n > stop
        BY <1>6, <1>9, <4>1
      <4> QED
        BY <2>5, <4>2
    <3>2. Index(after, p) = Index(copy, p) + 0
      BY <1>12, <2>3, <3>1
    <3>3. k > Index(after, p)
      BY <2>2, <2>3, <3>2
    <3> QED
      BY <1>18, <1>20, <2>2, <2>6, <3>3 DEF Ahead, Index
  <2> QED
    BY <2>7, <2>8
<1>25. server_info' = server_info /\ neighbor_requests' \in Seq(Question)
       /\ proxy_info_requests' = proxy_info_requests
  BY <1>1, <1>18, Questions
<1>26. wait_token' # 0 => \E q \in ToSet(ms) : q.type = "TreeInfo" /\ q.token = wait_token'
  BY <1>18, <1>19
<1> QED
  BY <1>19, <1>21, <1>22, <1>23, <1>24, <1>25, <1>26, Walked


\* A leaf, and nothing is left to ask for: the walk ends.
LEMMA WalkDoneStep ==
    ASSUME Calm, Hears("TreeInfo"), NEW a, a = Head(to_monitor), a.token = wait_token,
           a.leaf_node, resume(remembered(a), stacked(a)) = 0,
           WalkEnds(passed(remembered(a), stacked(a), 0),
                    neighbor_requests \o generateNeighborRequests(a)),
           UNCHANGED server_info
    PROVE  Calm'
<1> DEFINE t == a.token
           cp == token_to_tree_node
           copy == remembered(a)
           stack == parent_stack
           after == passed(copy, stack, 0)
           list == neighbor_requests \o generateNeighborRequests(a)
<1>1. a \in Answer /\ a.type = "TreeInfo" /\ Truth(a) /\ t # 0 /\ TreeInv
  BY AwaitedAnswer DEF Calm
<1>2. /\ stacked(a) = stack /\ IsCopy(copy) /\ OnStack(copy, stack) /\ DOMAIN cp \subseteq DOMAIN copy
      /\ \A p \in ToSet(stack) : Index(copy, p) \in Nat
  BY <1>1, AtLeaf
<1>3. resume(copy, stack) = 0 /\ WalkEnds(after, list)
  BY <1>2
<1>4. ASSUME ~Coming, NEW u \in DOMAIN copy, u \in allocated, tree[u].leaf_node,
             copy[u].children # NoChildren
      PROVE  \E p \in ToSet(stack), k \in Child :
                k > Index(copy, p) /\ Below(tree, tree[p].children[k], u)
  BY <1>1, <1>4, OnlyOnStack
<1>5. list \in Seq(Question)
  BY <1>1, Questions
<1> HIDE DEF copy, list
<1>6. stack \in Seq(DOMAIN copy)
  BY <1>2 DEF OnStack
<1>7. Len(stack) \in Nat /\ DOMAIN stack = 1 .. Len(stack)
  BY <1>6, LenProperties
<1>8. \A n \in 1 .. Len(stack) : Index(copy, stack[n]) >= 4
  <2>1. StopsAt(copy, stack, 0)
    BY <1>2, <1>3, <1>6, Resumed
  <2> QED
    BY <1>7, <2>1 DEF StopsAt
<1>9. CountedUp(DOMAIN tree, copy, stack, 0, after)
  BY <1>2, <1>6, Passed DEF IsCopy
<1>10. IsCopy(after)
  BY <1>2, <1>6, PassedCopy
<1> HIDE DEF after
<1>11. DOMAIN after = DOMAIN copy /\ \A u \in DOMAIN copy : after[u].children = copy[u].children
  BY <1>9 DEF CountedUp
<1>12. /\ token_to_tree_node' = after /\ parent_stack' = << >> /\ wait_token' = 0
       /\ proxy_info_requests' = proxy_info_requests
       /\ buildServerTree /\ nextNeighborRequest(list)
  BY <1>3 DEF WalkEnds, proxyInfoVars
<1>13. UNCHANGED <<tree, allocated, free, frontier, asserts_hold, requests, orderly>>
  BY DEF Hears, serverVars, treeVars
<1>14. TreeInv'
  BY <1>1, <1>13 DEF TreeInv
<1>15. CopyOK'
  BY <1>10, <1>12, <1>13 DEF CopyOK, IsCopy
<1>16. ~crashed' /\ ShownOK'
  BY <1>12, <1>14, <1>15, Built DEF Calm
<1>17. neighbor_requests' \in Seq(Question)
  BY <1>5, <1>12, NextSent
<1>18. PICK ms \in Seq(Request) : writeDatagrams(ms) /\ \A q \in ToSet(ms) : q.type = "NeighborInfo"
  BY <1>5, <1>12, NextSent
<1>19. \A q \in ToSet(ms) : q.type \notin Change /\ (q.type = "TreeInfo" => Live(q.token))
  BY <1>18 DEF Change
<1>20. WalkOK'
  BY <1>12 DEF WalkOK, OnStack, ToSet
<1>21. ASSUME NEW u, Stale(u)' PROVE Coming
  <2> SUFFICES ASSUME ~Coming PROVE FALSE
    OBVIOUS
  <2>1. /\ u \in DOMAIN copy /\ u \in allocated /\ tree[u].leaf_node
        /\ copy[u].children # NoChildren
    BY <1>11, <1>12, <1>13, <1>21 DEF Stale
  <2>2. PICK p \in ToSet(stack), k \in Child :
           k > Index(copy, p) /\ Below(tree, tree[p].children[k], u)
    BY <1>4, <2>1
  <2>3. Index(copy, p) \in Nat /\ Index(copy, p) >= 4 /\ k < 5 /\ k \in Nat
    BY <1>2, <1>7, <1>8 DEF Child, ToSet
  <2> QED
    BY <2>2, <2>3
<1>22. wait_token' = 0 /\ \A u : Stale(u)' => Coming \/ Ahead(u)'
  BY <1>12, <1>21
<1>23. server_info' = server_info
  OBVIOUS
<1> QED
  BY <1>12, <1>15, <1>16, <1>17, <1>18, <1>19, <1>20, <1>22, <1>23, Walked

\* onMonitoringBalanceTreeInfoAnswer.
LEMMA TreeInfoAnswerStep == ASSUME Calm, onMonitoringBalanceTreeInfoAnswer PROVE Calm'
<1> DEFINE a == Head(to_monitor)
           stop == resume(remembered(a), stacked(a))
<1>1. CASE ~(a.token = wait_token /\ a.success)
  BY <1>1, DroppedStep
<1>2. CASE a.token = wait_token /\ a.success
  <2>1. Hears("TreeInfo") /\ Walk(a) /\ server_info' = server_info
    BY <1>2 DEF onMonitoringBalanceTreeInfoAnswer
  <2>2. a \in Answer /\ a.type = "TreeInfo" /\ Truth(a) /\ a.token # 0 /\ TreeInv
    BY <2>1, AwaitedAnswer DEF Calm
  <2>3. firstChild(a) < ChildLast
    <3>1. firstChild(a) = 1
      BY <2>2, FirstOfFour
    <3> QED
      BY <3>1 DEF ChildLast
  <2>4. \/ /\ ~a.leaf_node /\ AskNext(remembered(a), stacked(a))
           /\ neighbor_requests' = neighbor_requests
        \/ /\ a.leaf_node /\ stop > 0
           /\ AskNext(passed(remembered(a), stacked(a), stop), SubSeq(stacked(a), 1, stop))
           /\ neighbor_requests' = neighbor_requests \o generateNeighborRequests(a)
        \/ /\ a.leaf_node /\ stop = 0
           /\ WalkEnds(passed(remembered(a), stacked(a), stop),
                       neighbor_requests \o generateNeighborRequests(a))
    BY <2>1, <2>3 DEF Walk
  <2> DEFINE b == a
  <2>5. b = Head(to_monitor)
    OBVIOUS
  <2> HIDE DEF a, stop
  <2>6. CASE /\ ~a.leaf_node /\ AskNext(remembered(a), stacked(a))
             /\ neighbor_requests' = neighbor_requests
    BY <1>2, <2>1, <2>5, <2>6, DescendStep
  <2>7. CASE /\ a.leaf_node /\ stop > 0
             /\ AskNext(passed(remembered(a), stacked(a), stop), SubSeq(stacked(a), 1, stop))
             /\ neighbor_requests' = neighbor_requests \o generateNeighborRequests(a)
    BY <1>2, <2>1, <2>5, <2>7, GoOnStep DEF stop
  <2>8. CASE /\ a.leaf_node /\ stop = 0
             /\ WalkEnds(passed(remembered(a), stacked(a), stop),
                         neighbor_requests \o generateNeighborRequests(a))
    <3>1. /\ resume(remembered(a), stacked(a)) = 0
          /\ WalkEnds(passed(remembered(a), stacked(a), 0),
                      neighbor_requests \o generateNeighborRequests(a))
      BY <2>8 DEF stop
    <3> QED
      BY <1>2, <2>1, <2>5, <2>8, <3>1, WalkDoneStep
  <2> QED
    BY <2>4, <2>6, <2>7, <2>8
<1> QED
  BY <1>1, <1>2

-----------------------------------------------------------------------------
\* What the copy and the window keep.

\* What moves neither trees, copy, walk nor window keeps both.
LEMMA SameShown ==
    ASSUME CopyTrue, ShownSame, UNCHANGED tree, UNCHANGED placeVars, UNCHANGED shown
    PROVE  CopyTrue' /\ ShownSame'
BY DEF CopyTrue, ShownSame, placeVars

\* buildServerTree shows what is in the copy.
LEMMA BuiltSame ==
    ASSUME ~crashed', buildServerTree
    PROVE  ShownSame'
<1>1. shown' = buildServerHierarchy(token_to_tree_node', id_to_proxy')
  BY DEF buildServerTree
<1>2. DOMAIN shown'.zones = inCopy(token_to_tree_node')
  BY <1>1 DEF buildServerHierarchy
<1> QED
  BY <1>2 DEF ShownSame

\* A split gives children to a leaf, of which the copy knows none.
LEMMA SplitSame == ASSUME Calm, CopyTrue, ShownSame, StaticSplit PROVE CopyTrue' /\ ShownSame'
<1> DEFINE t == Head(to_balancer).token
           cp == token_to_tree_node
<1>1. /\ Takes("Split") /\ UNCHANGED placeVars /\ UNCHANGED shown
      /\ onMonitoringBalanceTreeStaticSplit(t) \/ UNCHANGED treeVars
  BY DEF StaticSplit, Takes, walkVars, placeVars
<1>2. t \in DOMAIN tree /\ Below(tree, Root, t) /\ \A u : ~Stale(u)
  BY <1>1, ChangeAsked DEF Change
<1> HIDE DEF t
<1>3. CASE UNCHANGED treeVars
  BY <1>1, <1>3, SameShown DEF treeVars
<1>4. CASE onMonitoringBalanceTreeStaticSplit(t)
  <2>1. TreeInv /\ t \in allocated /\ tree[t].leaf_node
    BY <1>4 DEF Calm, onMonitoringBalanceTreeStaticSplit, canSplit
  <2>2. PICK kids : Grown(tree, t, kids, tree')
    BY <1>2, <1>4, <2>1, SplitsTree
  <2>3. t \in DOMAIN cp => cp[t].children = NoChildren
    BY <1>2, <2>1 DEF Stale
  <2>4. DOMAIN cp \subseteq DOMAIN tree
    BY DEF Calm, CopyOK, IsCopy
  <2>5. token_to_tree_node' = cp
    BY <1>1 DEF placeVars
  <2>6. ASSUME NEW u \in DOMAIN cp, ~tree'[u].leaf_node
        PROVE  cp[u].children \in {NoChildren, tree'[u].children}
    <3>1. \A k \in Child : kids[k] # u
      BY <2>2, <2>6 DEF Grown
    <3>2. CASE u = t
      BY <2>3, <3>2
    <3>3. CASE u # t
      <4>1. tree'[u].leaf_node = tree[u].leaf_node /\ tree'[u].children = tree[u].children
        BY <2>2, <2>4, <3>1, <3>3 DEF Grown
      <4> QED
        BY <2>6, <4>1 DEF CopyTrue
    <3> QED
      BY <3>2, <3>3
  <2>7. CopyTrue'
    BY <2>5, <2>6 DEF CopyTrue
  <2> QED
    BY <1>1, <2>7 DEF ShownSame, placeVars
<1> QED
  BY <1>1, <1>3, <1>4

\* A merge makes a leaf of an inner tree, and leaves the others alone.
LEMMA MergeSame == ASSUME Calm, CopyTrue, ShownSame, StaticMerge PROVE CopyTrue' /\ ShownSame'
<1> DEFINE t == Head(to_balancer).token
           cp == token_to_tree_node
<1>1. /\ Takes("Merge") /\ UNCHANGED placeVars /\ UNCHANGED shown
      /\ onMonitoringBalanceTreeStaticMerge(t) \/ UNCHANGED treeVars
  BY DEF StaticMerge, Takes, walkVars, placeVars
<1>2. t \in DOMAIN tree /\ Below(tree, Root, t)
  BY <1>1, ChangeAsked DEF Change
<1> HIDE DEF t
<1>3. CASE UNCHANGED treeVars
  BY <1>1, <1>3, SameShown DEF treeVars
<1>4. CASE onMonitoringBalanceTreeStaticMerge(t)
  <2>1. TreeInv /\ t \in allocated
    BY <1>4 DEF Calm, onMonitoringBalanceTreeStaticMerge
  <2>2. Merged(tree, t, tree')
    BY <1>2, <1>4, <2>1, MergesTree
  <2>3. DOMAIN cp \subseteq DOMAIN tree
    BY DEF Calm, CopyOK, IsCopy
  <2>4. token_to_tree_node' = cp
    BY <1>1 DEF placeVars
  <2>5. ASSUME NEW u \in DOMAIN cp, ~tree'[u].leaf_node
        PROVE  cp[u].children \in {NoChildren, tree'[u].children}
    <3>1. u # t
      BY <2>2, <2>5 DEF Merged
    <3>2. tree'[u].leaf_node = tree[u].leaf_node /\ tree'[u].children = tree[u].children
      BY <2>2, <2>3, <3>1 DEF Merged
    <3> QED
      BY <2>5, <3>2 DEF CopyTrue
  <2>6. CopyTrue'
    BY <2>4, <2>5 DEF CopyTrue
  <2> QED
    BY <1>1, <2>6 DEF ShownSame, placeVars
<1> QED
  BY <1>1, <1>3, <1>4

\* What the balancer says of a tree is remembered, also after the loop.
LEMMA RememberedTrue ==
    ASSUME Calm, CopyTrue, NEW a, Truth(a), a.token # 0, NEW stop
    PROVE  LET copy == remembered(a)
               after == passed(copy, stacked(a), stop)
           IN  /\ DOMAIN after = DOMAIN copy
               /\ \A u \in DOMAIN copy :
                     /\ after[u].children = copy[u].children
                     /\ ~tree[u].leaf_node => copy[u].children \in {NoChildren, tree[u].children}
<1> DEFINE copy == remembered(a)
           stack == stacked(a)
           after == passed(copy, stack, stop)
<1>1. /\ DOMAIN copy = DOMAIN token_to_tree_node \union {a.token}
      /\ copy[a.token].children = tree[a.token].children
      /\ \A u \in DOMAIN token_to_tree_node : u # a.token => copy[u] = token_to_tree_node[u]
      /\ IsCopy(copy)
  BY Remembered
<1>2. stack \in Seq(DOMAIN copy)
  BY Stacked DEF OnStack
<1> HIDE DEF copy, stack
<1>3. CountedUp(DOMAIN tree, copy, stack, stop, after)
  BY <1>1, <1>2, Passed DEF IsCopy
<1> HIDE DEF after
<1>4. DOMAIN after = DOMAIN copy /\ \A u \in DOMAIN copy : after[u].children = copy[u].children
  BY <1>3 DEF CountedUp
<1>5. \A u \in DOMAIN copy :
         ~tree[u].leaf_node => copy[u].children \in {NoChildren, tree[u].children}
  BY <1>1 DEF CopyTrue
<1> QED
  BY <1>4, <1>5 DEF after, copy, stack

\* The walk goes on below a tree, or ends and shows the copy.
LEMMA TreeAnswerSame ==
    ASSUME Calm, ~crashed', CopyTrue, ShownSame, onMonitoringBalanceTreeInfoAnswer
    PROVE  CopyTrue' /\ ShownSame'
<1> DEFINE a == Head(to_monitor)
           copy == remembered(a)
           stack == stacked(a)
           stop == resume(copy, stack)
           after == passed(copy, stack, stop)
<1>1. CASE ~(a.token = wait_token /\ a.success)
  <2>1. /\ UNCHANGED <<wait_token, parent_stack, token_to_tree_node, shown>>
        /\ UNCHANGED tree
    BY <1>1 DEF onMonitoringBalanceTreeInfoAnswer, Hears, serverVars, treeVars
  <2> QED
    BY <2>1, SameShown DEF placeVars
<1>2. CASE a.token = wait_token /\ a.success
  <2>1. Hears("TreeInfo") /\ Walk(a) /\ tree' = tree
    BY <1>2 DEF onMonitoringBalanceTreeInfoAnswer, Hears, serverVars, treeVars
  <2>2. Truth(a) /\ a.token # 0
    BY <2>1, AwaitedAnswer
  <2>3. /\ DOMAIN after = DOMAIN copy
        /\ \A u \in DOMAIN copy :
              /\ after[u].children = copy[u].children
              /\ ~tree[u].leaf_node => copy[u].children \in {NoChildren, tree[u].children}
    BY <2>2, RememberedTrue
  <2>4. stack \in Seq(DOMAIN copy) /\ IsCopy(copy)
    BY <2>2, Stacked, Remembered DEF OnStack
  <2>5. \A p \in ToSet(stack) : Index(copy, p) \in Nat
    <3> HIDE DEF copy, stack
    <3>1. \A p \in ToSet(stack) : p \in DOMAIN copy
      BY <2>4, LenProperties, ElementOfSeq DEF ToSet
    <3> QED
      BY <2>4, <3>1 DEF IsCopy, Entry, Index
  <2>6. stop \in 0 .. Len(stack) /\ Len(stack) \in Nat
    <3> HIDE DEF copy, stack
    <3>1. StopsAt(copy, stack, stop)
      BY <2>4, <2>5, Resumed
    <3> QED
      BY <2>4, <3>1, LenProperties DEF StopsAt
  <2>7. \/ ~a.leaf_node /\ AskNext(copy, stack)
        \/ stop > 0 /\ AskNext(after, SubSeq(stack, 1, stop))
        \/ \E list : WalkEnds(after, list)
    BY <2>1 DEF Walk
  <2>8. ~a.leaf_node => stack # << >>
    <3>1. ~a.leaf_node => stack = Append(parent_stack, a.token)
      BY DEF stacked
    <3>2. parent_stack \in Seq(DOMAIN token_to_tree_node)
      BY DEF Calm, WalkOK, OnStack
    <3>3. parent_stack \in Seq(DOMAIN token_to_tree_node \union {a.token})
      <4>1. \A i \in 1 .. Len(parent_stack) :
               parent_stack[i] \in DOMAIN token_to_tree_node \union {a.token}
        BY <3>2, ElementOfSeq
      <4> QED
        BY <3>2, <4>1, LenProperties, IsASeq
    <3> HIDE DEF stack
    <3> QED
      BY <3>1, <3>3, PutLast
  <2> HIDE DEF copy, stack, stop, after, a
  <2>9. CASE ~a.leaf_node /\ AskNext(copy, stack)
    <3>1. token_to_tree_node' = copy /\ parent_stack' # << >>
      BY <2>8, <2>9 DEF AskNext
    <3> QED
      BY <2>1, <2>3, <3>1 DEF CopyTrue, ShownSame
  <2>10. CASE stop > 0 /\ AskNext(after, SubSeq(stack, 1, stop))
    <3>1. token_to_tree_node' = after /\ parent_stack' = SubSeq(stack, 1, stop)
      BY <2>10 DEF AskNext
    <3>2. Len(SubSeq(stack, 1, stop)) = stop
      BY <2>4, <2>6, <2>10
    <3>3. Len(parent_stack') > 0
      BY <2>10, <3>1, <3>2
    <3>4. parent_stack' # << >>
      BY <3>3, EmptySeq
    <3> QED
      BY <2>1, <2>3, <3>1, <3>4 DEF CopyTrue, ShownSame
  <2>11. CASE \E list : WalkEnds(after, list)
    <3>1. token_to_tree_node' = after /\ buildServerTree
      BY <2>11 DEF WalkEnds
    <3> QED
      BY <2>1, <2>3, <3>1, BuiltSame DEF CopyTrue
  <2> QED
    BY <2>7, <2>9, <2>10, <2>11
<1> QED
  BY <1>1, <1>2

\* A proxy is asked for, or the window is built again from the same copy.
LEMMA ProxySame ==
    ASSUME CopyTrue, ShownSame, ~crashed', NEW k, Hears(k), NEW todo, NEW ids, AskProxy(todo, ids)
    PROVE  CopyTrue' /\ ShownSame'
<1>1. UNCHANGED placeVars /\ UNCHANGED tree
  BY DEF AskProxy, Hears, serverVars, treeVars, walkVars, placeVars
<1>2. CopyTrue'
  BY <1>1 DEF CopyTrue, placeVars
<1>3. CASE todo = << >>
  BY <1>2, <1>3, BuiltSame DEF AskProxy
<1>4. CASE todo # << >>
  BY <1>1, <1>4, SameShown DEF AskProxy
<1> QED
  BY <1>3, <1>4

\* Every step keeps them.
LEMMA ShownStep ==
    ASSUME Calm, ~crashed', CopyTrue, ShownSame, [MonitorNext]_monitorVars
    PROVE  CopyTrue' /\ ShownSame'
<1>1. CASE UNCHANGED monitorVars
  BY <1>1, SameShown DEF monitorVars, serverVars, treeVars, walkVars, placeVars
<1>2. CASE BalancerStep
  <2>1. CASE StaticSplit
    BY <2>1, SplitSame
  <2>2. CASE StaticMerge
    BY <2>2, MergeSame
  <2>3. CASE ~StaticSplit /\ ~StaticMerge
    <3>1. UNCHANGED walkVars /\ UNCHANGED shown /\ UNCHANGED tree
      BY <1>2, <2>3 DEF BalancerStep, Takes, onMonitoringBalancerServerInfo,
         onMonitoringBalanceTreeInfo, onMonitoringBalanceTreeNeighborInfo,
         onMonitoringGetProxyCount, onMonitoringGetProxyInfo, serverVars, treeVars
    <3> QED
      BY <3>1, SameShown DEF walkVars, placeVars
  <2> QED
    BY <2>1, <2>2, <2>3
<1>3. CASE \/ onMonitoringBalancerServerInfoAnswer
           \/ onRefreshServerTree
  <2>1. wait_token' = Root /\ token_to_tree_node' = token_to_tree_node /\ tree' = tree
    BY <1>3 DEF onMonitoringBalancerServerInfoAnswer, onRefreshServerTree, Hears, serverVars,
       treeVars
  <2> QED
    BY <2>1 DEF CopyTrue, ShownSame, Root
<1>4. CASE onMonitoringBalanceTreeInfoAnswer
  BY <1>4, TreeAnswerSame
<1>5. CASE \/ onMonitoringBalanceTreeNeighborInfoAnswer
           \/ onMonitoringChangeAnswer
           \/ onRegisterProxy
           \/ Lose
           \/ \E t \in DOMAIN shown.zones : onStaticSplit(t) \/ onStaticMerge(t)
  <2>1. UNCHANGED walkVars /\ UNCHANGED shown /\ UNCHANGED tree
    BY <1>5 DEF onMonitoringBalanceTreeNeighborInfoAnswer, onMonitoringChangeAnswer, onRegisterProxy,
       Lose, onStaticSplit, onStaticMerge, Click, Hears, serverVars, treeVars
  <2> QED
    BY <2>1, SameShown DEF walkVars, placeVars
<1>6. CASE onMonitoringGetProxyCountAnswer
  BY <1>6, ProxySame DEF onMonitoringGetProxyCountAnswer
<1>7. CASE onMonitoringGetProxyInfoAnswer
  BY <1>7, ProxySame DEF onMonitoringGetProxyInfoAnswer
<1> QED
  BY <1>1, <1>2, <1>3, <1>4, <1>5, <1>6, <1>7 DEF MonitorNext, MonitorStep

-----------------------------------------------------------------------------

\* MonitorInv holds in the first state.
LEMMA MonitorStart == MonitorInit => MonitorInv
<1> SUFFICES ASSUME MonitorInit PROVE MonitorInv
  OBVIOUS
<1> DEFINE x == Kind("ServerInfo")
           y == Kind("ProxyCount")
<1>1. TreeInv
  BY TreeInit DEF MonitorInit
<1>2. x \in Request /\ y \in Request /\ x.type = "ServerInfo" /\ y.type = "ProxyCount"
  BY Requests DEF Kind
<1>3. to_balancer = <<x, y>>
  BY DEF MonitorInit, getBalancerServerInfo
<1> HIDE DEF x, y
<1>4. /\ to_balancer \in Seq(Request) /\ ToSet(to_balancer) = {x, y} /\ Head(to_balancer) = x
      /\ Tail(to_balancer) = <<y>>
  <2>1. <<x, y>> \in Seq(Request) /\ ToSet(<<x, y>>) = {x, y}
    BY <1>2, OneAndTwo
  <2>2. Head(<<x, y>>) = x /\ Tail(<<x, y>>) = <<y>>
    OBVIOUS
  <2> QED
    BY <1>3, <2>1, <2>2
<1>5. ToSet(Tail(to_balancer)) = {y}
  BY <1>2, <1>4, OneAndTwo
<1>6. to_balancer # << >>
  BY <1>3
<1>7. /\ ~crashed /\ to_monitor = << >> /\ server_info = FALSE /\ wait_token = 0 /\ parent_stack = << >>
      /\ token_to_tree_node = << >> /\ neighbor_requests = << >> /\ proxy_info_requests = << >>
      /\ DOMAIN shown.zones = {} /\ losses = 0 /\ proxies \in Nat
  BY MonitorAssumption DEF MonitorInit
<1>8. DOMAIN token_to_tree_node = {} /\ ToSet(parent_stack) = {} /\ ToSet(to_monitor) = {}
  BY <1>7 DEF ToSet
<1>9. Descends(tree, token_to_tree_node)
  <2>1. PICK m, b : Heights(tree, m, b)
    BY <1>1 DEF TreeInv, TreeShape, Sound
  <2>2. Lower(token_to_tree_node, m)
    BY <1>8 DEF Lower
  <2> QED
    BY <2>1, <2>2 DEF Descends
<1>10. CopyOK
  <2>1. token_to_tree_node = [u \in {} |-> Root]
    BY <1>7
  <2>2. token_to_tree_node \in [DOMAIN token_to_tree_node -> Entry(DOMAIN tree)]
    BY <1>8, <2>1
  <2> QED
    BY <1>8, <1>9, <2>2 DEF CopyOK, IsCopy
<1>11. MailOK
  BY <1>2, <1>4, <1>7, <1>8 DEF MailOK
<1>12. InfoFirst /\ ShownOK /\ Awaited
  BY <1>2, <1>4, <1>6, <1>7 DEF InfoFirst, ShownOK, Awaited
<1>13. Alone
  BY <1>2, <1>4, <1>5 DEF Alone, Asking, Change
<1>14. WalkOK
  BY <1>7, <1>8 DEF WalkOK, OnStack
<1>15. StaleAhead
  BY <1>8 DEF StaleAhead, Stale
<1> QED
  BY <1>1, <1>7, <1>8, <1>10, <1>11, <1>12, <1>13, <1>14, <1>15
    DEF MonitorInv, Calm, CopyTrue, ShownSame

\* Each step keeps MonitorInv.
LEMMA MonitorNextStep == MonitorInv /\ [MonitorNext]_monitorVars => MonitorInv'
<1> SUFFICES ASSUME MonitorInv, [MonitorNext]_monitorVars PROVE MonitorInv'
  OBVIOUS
<1>1. losses \in Nat
  BY DEF MonitorInv
<1>2. losses' \in Nat /\ (losses' = 0 => losses = 0)
  <2>1. CASE Lose
    BY <1>1, <2>1 DEF Lose
  <2>2. CASE ~Lose
    <3>1. losses' = losses
      BY <2>2 DEF MonitorNext, monitorVars, userVars, BalancerStep, MonitorStep, Takes, Hears,
         onMonitoringBalancerServerInfo, onMonitoringBalanceTreeInfo,
         onMonitoringBalanceTreeNeighborInfo, onMonitoringGetProxyCount,
         onMonitoringGetProxyInfo, StaticSplit, StaticMerge, onRegisterProxy,
         onMonitoringBalancerServerInfoAnswer, onMonitoringBalanceTreeInfoAnswer,
         onMonitoringBalanceTreeNeighborInfoAnswer, onMonitoringChangeAnswer,
         onMonitoringGetProxyCountAnswer, onMonitoringGetProxyInfoAnswer,
         onRefreshServerTree, onStaticSplit, onStaticMerge, Click
    <3> QED
      BY <1>1, <3>1
  <2> QED
    BY <2>1, <2>2
<1>3. ASSUME losses' = 0, Patient PROVE Calm'
  <2>1. Calm /\ CopyTrue /\ ShownSame
    BY <1>2, <1>3 DEF MonitorInv
  <2>2. CASE UNCHANGED monitorVars
    BY <2>1, <2>2, StutterStep
  <2>3. CASE BalancerStep
    BY <2>1, <2>3, InfoStep, TreeInfoStep, NeighborInfoStep, ProxyCountStep, ProxyInfoStep,
       StaticSplitStep, StaticMergeStep DEF BalancerStep
  <2>4. CASE MonitorStep
    BY <2>1, <2>4, InfoAnswerStep, TreeInfoAnswerStep, NeighborAnswerStep, ChangeAnswerStep,
       CountAnswerStep, ProxyAnswerStep DEF MonitorStep
  <2>5. CASE onRegisterProxy
    BY <2>1, <2>5, RegisterStep
  <2>6. CASE onRefreshServerTree
    BY <2>1, <2>6, RefreshStep
  <2>7. CASE \E t \in DOMAIN shown.zones : onStaticSplit(t) \/ onStaticMerge(t)
    <3>1. PICK t \in DOMAIN shown.zones : Click(t, "Split") \/ Click(t, "Merge")
      BY <2>7 DEF onStaticSplit, onStaticMerge
    <3>2. "Split" \in Change /\ "Merge" \in Change
      BY DEF Change
    <3> QED
      BY <1>3, <2>1, <3>1, <3>2, ClickStep
  <2>8. CASE Lose
    BY <1>1, <1>3, <2>8 DEF Lose
  <2> QED
    BY <2>2, <2>3, <2>4, <2>5, <2>6, <2>7, <2>8 DEF MonitorNext
<1>4. ASSUME losses' = 0, Patient PROVE CopyTrue' /\ ShownSame'
  <2>1. Calm /\ CopyTrue /\ ShownSame
    BY <1>2, <1>4 DEF MonitorInv
  <2>2. ~crashed'
    BY <1>3, <1>4 DEF Calm
  <2> QED
    BY <2>1, <2>2, ShownStep
<1> QED
  BY <1>2, <1>3, <1>4 DEF MonitorInv

\* As long as no datagram is lost the monitor of a user who waits for the end
\* of each walk neither follows its null server_info (onMonitoringGetProxyCount)
\* nor recurses for ever over the children it has heard of (server_tree.cpp),
\* whatever is split and merged, and however often it is refreshed meanwhile.
THEOREM CrashesNeedLoss == MonitorSpec => []CrashNeedsLoss
<1>1. MonitorInv => CrashNeedsLoss
  BY DEF MonitorInv, Calm, CrashNeedsLoss
<1> QED
  BY <1>1, MonitorStart, MonitorNextStep, PTL DEF MonitorSpec
=============================================================================
