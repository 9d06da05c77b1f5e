---------------------------- MODULE BalancerMonitor ----------------------------
(***************************************************************************)
(* A balancer monitor and the balancer it is connected to.  The monitor    *)
(* asks for the tree of zones node by node, depth first, with one request  *)
(* in flight (wait_token), keeps what it was told in token_to_tree_node    *)
(* and shows it; its user splits and merges what is shown.  Meanwhile it   *)
(* asks for the proxies one by one.                                        *)
(*                                                                         *)
(* Datagrams arrive in the order they were sent, once, or are lost: nothing*)
(* is repeated.  The window and the connection of the monitor run in two   *)
(* threads, whose queued signals are part of the channels here.            *)
(*                                                                         *)
(* With "Show Neighbor Nodes" checked it then asks, again one by one, which *)
(* tree the balancer has behind each cell around each leaf.  Only that an  *)
(* answer came is kept.                                                    *)
(***************************************************************************)
EXTENDS BalanceTree, FiniteSets

CONSTANTS
    MaxProxies,     \* bound: so many RegisterProxy reach the balancer
    MaxRefreshes,   \* bound: so many times the user refreshes the tree
    MaxLost,        \* bound: so many datagrams are lost
    AskedCells,     \* bound: only these are asked for, by the leaves that touch
                    \* them; none while "Show Neighbor Nodes" is unchecked
    Patient         \* whether the user waits for the end of a walk

ASSUME MonitorAssumption ==
    /\ {MaxProxies, MaxRefreshes, MaxLost} \subseteq Nat
    /\ AskedCells \subseteq Int \X Int
    /\ Patient \in BOOLEAN

VARIABLES
    to_balancer,           \* the requests in flight, in order
    to_monitor,            \* the answers in flight, in order
    proxies,               \* id_to_proxy of the balancer has 1 .. proxies
    counted,               \* what the last MonitoringGetProxyCountAnswer said
    server_info,           \* whether it was made yet: it is null before
    wait_token,            \* the tree whose answer is awaited; 0: none
    parent_stack,          \* the trees whose children are being asked for
    token_to_tree_node,    \* what the monitor was told of each tree
    proxy_info_requests,   \* the proxies still to ask for
    id_to_proxy,           \* the proxies it was told of
    neighbor_requests,     \* the cells still to ask for, each with its leaf
    neighbor_nodes,        \* the cells it was told of, each with its leaf
    shown,                 \* what buildServerTree last built
    crashed,               \* null pointer followed, or endless recursion
    losses,                \* so many datagrams were lost
    unsure,                \* one was lost, and the user has not refreshed since
    refreshes

serverVars == <<treeVars, proxies, counted>>
walkVars == <<server_info, wait_token, parent_stack, token_to_tree_node>>
neighborVars == <<neighbor_requests, neighbor_nodes>>
proxyInfoVars == <<proxy_info_requests, id_to_proxy>>
userVars == <<losses, unsure, refreshes>>
channelVars == <<to_balancer, to_monitor>>
monitorVars == <<serverVars, walkVars, neighborVars, proxyInfoVars, userVars,
                 channelVars, shown, crashed>>

-----------------------------------------------------------------------------
\* Datagrams

Kind(k) == [type |-> k]
About(k, t) == [type |-> k, token |-> t]

\* What a monitor may send, and what the balancer may answer.
Request ==
    [type : {"ServerInfo", "ProxyCount"}]
        \union [type : {"TreeInfo", "Split", "Merge", "ProxyInfo"}, token : Nat]
        \union [type : {"NeighborInfo"}, success : {FALSE}, token : Nat, cell : Int \X Int]

Answer ==
    [type : {"ServerInfo"}]
        \union [type : {"ProxyCount", "ProxyInfo"}, token : Nat]
        \union [type : {"TreeInfo"}, success : BOOLEAN, token : Nat, leaf_node : BOOLEAN,
                box : [x : Int, y : Int, size : Nat], children : [Child -> Nat]]
        \union [type : {"NeighborInfo"}, success : BOOLEAN, token : Nat, cell : Int \X Int]
        \union [type : {"Changed"}, success : BOOLEAN]

Takes(k) ==
    /\ to_balancer # << >> /\ Head(to_balancer).type = k
    /\ to_balancer' = Tail(to_balancer)
    /\ UNCHANGED <<walkVars, neighborVars, proxyInfoVars, userVars, shown, crashed>>

Hears(k) ==
    /\ to_monitor # << >> /\ Head(to_monitor).type = k
    /\ to_monitor' = Tail(to_monitor)
    /\ UNCHANGED <<serverVars, userVars>>

standardSend(answer) == to_monitor' = Append(to_monitor, answer)
writeDatagrams(ms) == to_balancer' = to_balancer \o ms

\* MUTANT of getBalancerServerInfo: the proxies are counted first.
MutantCountFirst == <<Kind("ProxyCount"), Kind("ServerInfo")>>

getBalancerServerInfo == <<Kind("ServerInfo"), Kind("ProxyCount")>>
getBalanceTreeInfo(t) == About("TreeInfo", t)

-----------------------------------------------------------------------------
\* The balancer

noChildren == [k \in Child |-> NoTree]

\* Token 0 is allocated but nothing was constructed there: its page is so
\* large that it comes zeroed from the system, and reads as an inner tree
\* without children.  A place given back is not found; the answer then keeps
\* its default token, 0.
getMonitoringInfo(t) ==
    [type |-> "TreeInfo", success |-> t = 0 \/ t \in allocated,
     token |-> IF t \in allocated THEN t ELSE 0,
     box |-> IF t \in allocated THEN tree[t].box ELSE [x |-> 0, y |-> 0, size |-> 0],
     leaf_node |-> IF t \in allocated THEN tree[t].leaf_node ELSE t # 0,
     children |-> IF t \in allocated THEN tree[t].children ELSE noChildren]

onMonitoringBalancerServerInfo ==
    /\ Takes("ServerInfo")
    /\ standardSend(Kind("ServerInfo"))
    /\ UNCHANGED serverVars

onMonitoringBalanceTreeInfo ==
    /\ Takes("TreeInfo")
    /\ standardSend(getMonitoringInfo(Head(to_balancer).token))
    /\ UNCHANGED serverVars

\* Of the answer the monitor's side here only keeps that it came; what it names
\* is in the tree's table, whose assert the read meets.
getMonitoringNeighborInfo(m) == [m EXCEPT !.success = m.token \in allocated]

onMonitoringBalanceTreeNeighborInfo ==
    /\ Takes("NeighborInfo")
    /\ LET m == Head(to_balancer)
       IN  /\ standardSend(getMonitoringNeighborInfo(m))
           /\ asserts_hold' = (asserts_hold /\ (m.token \in allocated =>
                                    ~inside(tree[m.token].box, m.cell)))
    /\ UNCHANGED <<tree, allocated, free, frontier, requests, orderly, proxies,
                   counted>>

onMonitoringGetProxyCount ==
    /\ Takes("ProxyCount")
    /\ standardSend(About("ProxyCount", proxies))
    /\ counted' = proxies
    /\ UNCHANGED <<treeVars, proxies>>

\* Indices that were counted stay registered: the answer is a success.
onMonitoringGetProxyInfo ==
    /\ Takes("ProxyInfo")
    /\ standardSend(About("ProxyInfo", Head(to_balancer).token))
    /\ UNCHANGED serverVars

\* monitoringBalanceTreeStaticSplit, monitoringBalanceTreeStaticMerge: of the
\* reasons for a refusal the monitor only writes a line.
changed(success) == [type |-> "Changed", success |-> success]

\* Splits and merges as BalanceTree has them, and the answer to the monitor.
StaticSplit ==
    /\ Takes("Split")
    /\ LET t == Head(to_balancer).token
       IN  \/ /\ onMonitoringBalanceTreeStaticSplit(t)
              /\ Granted(t)
              /\ standardSend(changed(TRUE))
           \/ /\ ~(t \in allocated /\ canSplit(t))
              /\ standardSend(changed(FALSE))
              /\ UNCHANGED treeVars
    /\ UNCHANGED <<proxies, counted>>

StaticMerge ==
    /\ Takes("Merge")
    /\ LET t == Head(to_balancer).token
       IN  \/ /\ onMonitoringBalanceTreeStaticMerge(t)
              /\ Granted(t)
              /\ standardSend(changed(TRUE))
           \/ /\ ~(t \in allocated /\ ~tree[t].leaf_node)
              /\ standardSend(changed(FALSE))
              /\ UNCHANGED treeVars
    /\ UNCHANGED <<proxies, counted>>

BalancerStep ==
    \/ onMonitoringBalancerServerInfo
    \/ onMonitoringBalanceTreeInfo
    \/ onMonitoringBalanceTreeNeighborInfo
    \/ onMonitoringGetProxyCount
    \/ onMonitoringGetProxyInfo
    \/ StaticSplit
    \/ StaticMerge

\* A proxy never sends the token it was given, so that each RegisterProxy that
\* arrives, a repeated one too, gets a new one.
onRegisterProxy ==
    /\ proxies < MaxProxies
    /\ proxies' = proxies + 1
    /\ UNCHANGED <<treeVars, counted, walkVars, neighborVars, proxyInfoVars,
                   userVars, channelVars, shown, crashed>>

-----------------------------------------------------------------------------
\* What the monitor shows

\* The children of t that the monitor has heard of.
items(copy, t) ==
    SelectSeq(copy[t].children, LAMBDA c : c # 0 /\ c \in DOMAIN copy)

\* What items lists.
heard(copy, t) == {copy[t].children[k] : k \in Child} \cap (DOMAIN copy \ {0})

\* ts and all trees below them.
below(copy, ts) ==
    LET kids == [t \in DOMAIN copy |-> heard(copy, t)]
        down[n \in 0 .. Cardinality(DOMAIN copy)] ==
            IF n = 0 THEN ts
            ELSE LET found == down[n - 1]
                 IN  found \union UNION {kids[t] : t \in found}
    IN  down[Cardinality(DOMAIN copy)]

inCopy(copy) == below(copy, {Root} \cap DOMAIN copy)

\* A tree that is below itself: NodeItem and isAnyNodeServerRunning, which
\* follow the children, never return.
endless(copy) ==
    \E t \in inCopy(copy) : t \in below(copy, heard(copy, t))

buildServerHierarchy(copy, ids) ==
    [zones |-> [t \in inCopy(copy) |-> [leaf_node |-> copy[t].leaf_node,
                                        items |-> items(copy, t)]],
     proxies |-> ids]

\* buildServerTree(), once everything that was heard is remembered.
buildServerTree ==
    \/ /\ endless(token_to_tree_node')
       /\ crashed' = TRUE
       /\ UNCHANGED shown
    \/ /\ ~endless(token_to_tree_node')
       /\ shown' = buildServerHierarchy(token_to_tree_node', id_to_proxy')
       /\ UNCHANGED crashed

-----------------------------------------------------------------------------
\* The monitor's handlers

ChildLast == 5

onMonitoringBalancerServerInfoAnswer ==
    /\ Hears("ServerInfo")
    /\ server_info' = TRUE
    /\ wait_token' = Root
    /\ writeDatagrams(<<getBalanceTreeInfo(Root)>>)
    /\ UNCHANGED <<parent_stack, token_to_tree_node, neighborVars, proxyInfoVars,
                   shown, crashed>>

\* The answer's tree is remembered and, if it is an inner one, on the stack;
\* first is the child to ask for next.
firstChild(a) ==
    IF a.leaf_node THEN 1
    ELSE Min({k \in Child : a.children[k] # 0} \union {ChildLast})

remembered(a) ==
    [t \in DOMAIN token_to_tree_node \union {a.token} |->
        IF t = a.token
        THEN [box |-> a.box, children |-> a.children, leaf_node |-> a.leaf_node,
              current_child_index_to_send |-> firstChild(a)]
        ELSE token_to_tree_node[t]]

stacked(a) ==
    IF a.leaf_node THEN parent_stack ELSE Append(parent_stack, a.token)

\* MUTANT of resume: the last child of a tree is never asked for.
MutantLastChildSkipped(copy, stack) ==
    LET times(n) == Cardinality({i \in n .. Len(stack) : stack[i] = stack[n]})
        next(n) == copy[stack[n]].current_child_index_to_send + times(n)
    IN  Max({n \in 1 .. Len(stack) : next(n) < ChildLast - 1} \union {0})

\* The loop that goes on with the next child of the innermost tree that has
\* one: where on the stack it stops, 0 when nothing is left on it.  Each tree
\* it passes has its index incremented; one may be on the stack repeatedly.
resume(copy, stack) ==
    LET times(n) == Cardinality({i \in n .. Len(stack) : stack[i] = stack[n]})
        next(n) == copy[stack[n]].current_child_index_to_send + times(n)
    IN  Max({n \in 1 .. Len(stack) : next(n) < ChildLast} \union {0})

\* The indices after the loop has passed the stack from its end down to stop.
passed(copy, stack, stop) ==
    [t \in DOMAIN copy |->
        [copy[t] EXCEPT !.current_child_index_to_send =
            @ + Cardinality({i \in 1 .. Len(stack) : i >= stop /\ stack[i] = t})]]

\* A child is asked for; the token may be 0 for a tree that became a leaf
\* while it was on the stack, as only the first request looks at it.
AskNext(copy, stack) ==
    LET t == copy[Last(stack)]
        child == t.children[t.current_child_index_to_send]
    IN  /\ token_to_tree_node' = copy
        /\ parent_stack' = stack
        /\ wait_token' = child
        /\ writeDatagrams(<<getBalanceTreeInfo(child)>>)
        /\ UNCHANGED <<proxyInfoVars, shown, crashed>>

\* The cells around a box that are asked for: below and above it, column by
\* column, then on its left and right.
askedAround(box) ==
    LET asked(x, y) == IF <<x, y>> \in AskedCells THEN << <<x, y>> >> ELSE << >>
        columns == [i \in 1 .. box.size + 2 |->
                       asked(box.x - 2 + i, box.y - 1)
                           \o asked(box.x - 2 + i, box.y + box.size)]
        rows == [i \in 1 .. box.size |->
                    asked(box.x - 1, box.y - 1 + i)
                        \o asked(box.x + box.size, box.y - 1 + i)]
    IN  FlattenSeq(columns \o rows)

\* Unlike the other lists this one is only appended to: the walks that go on
\* at the same time fill it together.
generateNeighborRequests(a) ==
    LET asked == askedAround(a.box)
    IN  IF ~a.leaf_node THEN << >>
        ELSE [i \in 1 .. Len(asked) |-> [type |-> "NeighborInfo", success |-> FALSE,
                                         token |-> a.token, cell |-> asked[i]]]

\* The first request of the list, if there is one, is sent.
nextNeighborRequest(list) ==
    \/ /\ list = << >>
       /\ neighbor_requests' = << >>
       /\ UNCHANGED to_balancer
    \/ /\ list # << >>
       /\ neighbor_requests' = Tail(list)
       /\ writeDatagrams(<<Head(list)>>)

WalkEnds(copy, list) ==
    /\ token_to_tree_node' = copy
    /\ parent_stack' = << >>
    /\ wait_token' = 0
    /\ UNCHANGED proxyInfoVars
    /\ buildServerTree
    /\ nextNeighborRequest(list)

Walk(a) ==
    LET copy == remembered(a)
        stack == stacked(a)
        stop == resume(copy, stack)
        after == passed(copy, stack, stop)
        list == neighbor_requests \o generateNeighborRequests(a)
        descends == ~a.leaf_node /\ firstChild(a) < ChildLast
    IN  \/ /\ descends
          /\ AskNext(copy, stack)
          /\ UNCHANGED neighbor_requests
       \/ /\ ~descends /\ stop > 0
          /\ AskNext(after, SubSeq(stack, 1, stop))
          /\ neighbor_requests' = list
       \/ /\ ~descends /\ stop = 0
          /\ WalkEnds(after, list)

onMonitoringBalanceTreeInfoAnswer ==
    LET a == Head(to_monitor)
    IN  /\ Hears("TreeInfo")
        /\ \/ /\ a.token = wait_token /\ a.success
              /\ Walk(a)
           \/ /\ ~(a.token = wait_token /\ a.success)
              /\ UNCHANGED <<wait_token, parent_stack, token_to_tree_node,
                             neighbor_requests, proxyInfoVars, to_balancer,
                             shown, crashed>>
        /\ UNCHANGED <<server_info, neighbor_nodes>>

\* MUTANT of onMonitoringBalanceTreeNeighborInfoAnswer: it does not go on.
MutantOneCell ==
    LET a == Head(to_monitor)
    IN  /\ Hears("NeighborInfo")
        /\ neighbor_nodes' = neighbor_nodes \union {<<a.token, a.cell>>}
        /\ UNCHANGED <<neighbor_requests, walkVars, proxyInfoVars, shown, crashed,
                       to_balancer>>

\* An answer for a tree that is gone, or no leaf any more, sends nothing: the
\* rest of the list waits for the end of another walk.
onMonitoringBalanceTreeNeighborInfoAnswer ==
    LET a == Head(to_monitor)
        expected == a.success /\ a.token \in DOMAIN token_to_tree_node
                              /\ token_to_tree_node[a.token].leaf_node
    IN  /\ Hears("NeighborInfo")
        /\ \/ /\ expected
              /\ neighbor_nodes' = neighbor_nodes \union {<<a.token, a.cell>>}
              /\ nextNeighborRequest(neighbor_requests)
           \/ /\ ~expected
              /\ UNCHANGED <<neighborVars, to_balancer>>
        /\ UNCHANGED <<walkVars, proxyInfoVars, shown, crashed>>

\* After a successful split or merge everything is asked for again.
onMonitoringChangeAnswer ==
    /\ Hears("Changed")
    /\ writeDatagrams(IF Head(to_monitor).success THEN getBalancerServerInfo
                      ELSE << >>)
    /\ UNCHANGED <<walkVars, neighborVars, proxyInfoVars, shown, crashed>>

\* Goes on with the proxies todo, or shows what is known.
AskProxy(todo, ids) ==
    /\ UNCHANGED <<walkVars, neighborVars>>
    /\ id_to_proxy' = ids
    /\ \/ /\ todo = << >>
          /\ proxy_info_requests' = << >>
          /\ buildServerTree
          /\ UNCHANGED to_balancer
       \/ /\ todo # << >>
          /\ proxy_info_requests' = Tail(todo)
          /\ writeDatagrams(<<About("ProxyInfo", Head(todo))>>)
          /\ UNCHANGED <<shown, crashed>>

onMonitoringGetProxyCountAnswer ==
    /\ Hears("ProxyCount")
    /\ \/ /\ server_info
          /\ AskProxy([i \in 1 .. Head(to_monitor).token |-> i], {})
       \/ /\ ~server_info
          /\ crashed' = TRUE
          /\ UNCHANGED <<walkVars, neighborVars, proxyInfoVars, shown, to_balancer>>

\* MUTANT of onMonitoringGetProxyInfoAnswer: it does not look whether others
\* are to be asked for.
MutantOnlyOneProxy ==
    /\ Hears("ProxyInfo")
    /\ AskProxy(<< >>, id_to_proxy \union {Head(to_monitor).token})

onMonitoringGetProxyInfoAnswer ==
    /\ Hears("ProxyInfo")
    /\ AskProxy(proxy_info_requests, id_to_proxy \union {Head(to_monitor).token})

MonitorStep ==
    \/ onMonitoringBalancerServerInfoAnswer
    \/ onMonitoringBalanceTreeInfoAnswer
    \/ onMonitoringBalanceTreeNeighborInfoAnswer
    \/ onMonitoringChangeAnswer
    \/ onMonitoringGetProxyCountAnswer
    \/ onMonitoringGetProxyInfoAnswer

-----------------------------------------------------------------------------
\* The user and the network

inFlight == ToSet(to_balancer) \union ToSet(to_monitor)

onRefreshServerTree ==
    /\ refreshes < MaxRefreshes
    /\ server_info
    /\ refreshes' = refreshes + 1
    /\ wait_token' = Root
    /\ writeDatagrams(<<getBalanceTreeInfo(Root)>>)
    /\ unsure' = (unsure /\ inFlight # {})
    /\ UNCHANGED <<serverVars, server_info, parent_stack, token_to_tree_node,
                   neighborVars, proxyInfoVars, to_monitor, shown, crashed, losses>>

\* A click on a shown tree, which the balancer may have destroyed meanwhile.  The
\* user waits for the answer to the last one, a patient one for the end of the
\* walk too.
Click(t, kind) ==
    /\ server_info
    /\ MayAsk
    /\ {m.type : m \in inFlight} \cap {"Split", "Merge", "Changed"} = {}
    /\ Patient => inFlight = {} /\ parent_stack = << >>
    /\ \/ /\ endless(token_to_tree_node)
          /\ crashed' = TRUE
          /\ UNCHANGED to_balancer
       \/ /\ ~endless(token_to_tree_node)
          /\ writeDatagrams(<<About(kind, t)>>)
          /\ UNCHANGED crashed
    /\ UNCHANGED <<serverVars, walkVars, neighborVars, proxyInfoVars, userVars,
                   to_monitor, shown>>

\* Which of the two is enabled depends on the tree that was selected; the
\* handler looks again.
static_split_act(t) == t \in DOMAIN shown.zones /\ token_to_tree_node[t].leaf_node
static_merge_act(t) == t \in DOMAIN shown.zones /\ ~token_to_tree_node[t].leaf_node

onStaticSplit(t) == static_split_act(t) /\ Click(t, "Split")
onStaticMerge(t) == static_merge_act(t) /\ Click(t, "Merge")

Lose ==
    /\ losses < MaxLost
    /\ losses' = losses + 1
    /\ unsure' = TRUE
    /\ \/ /\ to_balancer # << >>
          /\ to_balancer' = Tail(to_balancer)
          /\ UNCHANGED to_monitor
       \/ /\ to_monitor # << >>
          /\ to_monitor' = Tail(to_monitor)
          /\ UNCHANGED to_balancer
    /\ UNCHANGED <<serverVars, walkVars, neighborVars, proxyInfoVars, refreshes,
                   shown, crashed>>

-----------------------------------------------------------------------------

\* The monitor's thread has resolved the host name (onResolve).
MonitorInit ==
    /\ Init
    /\ proxies \in 0 .. MaxProxies
    /\ counted = 0
    /\ to_balancer = getBalancerServerInfo
    /\ to_monitor = << >>
    /\ server_info = FALSE
    /\ wait_token = 0
    /\ parent_stack = << >>
    /\ token_to_tree_node = << >>
    /\ neighbor_requests = << >>
    /\ neighbor_nodes = {}
    /\ proxy_info_requests = << >>
    /\ id_to_proxy = {}
    /\ shown = [zones |-> << >>, proxies |-> {}]
    /\ crashed = FALSE
    /\ losses = 0
    /\ unsure = FALSE
    /\ refreshes = 0

MonitorNext ==
    /\ ~crashed
    /\ \/ BalancerStep
       \/ onRegisterProxy
       \/ MonitorStep
       \/ onRefreshServerTree
       \/ \E t \in DOMAIN shown.zones : onStaticSplit(t) \/ onStaticMerge(t)
       \/ Lose

\* Both programs go on reading what has arrived.  Each datagram that is read is
\* handled, and only finitely many are lost instead.
Reads(channel) == ~crashed /\ channel # << >> /\ channel' = Tail(channel)

MonitorSpec ==
    /\ MonitorInit
    /\ [][MonitorNext]_monitorVars
    /\ WF_to_balancer(Reads(to_balancer))
    /\ WF_to_monitor(Reads(to_monitor))

-----------------------------------------------------------------------------
\* Properties

\* The current responsibility zones, as the balancer has them.
current ==
    [t \in {u \in allocated : InTree(u)} |->
        [leaf_node |-> tree[t].leaf_node,
         items |-> SelectSeq(tree[t].children, LAMBDA c : c # NoTree)]]

\* With a user who waits for the end of a walk, the monitor only follows its
\* null server_info, or recurses for ever, after a datagram was lost.
CrashNeedsLoss == crashed => losses > 0 \/ ~Patient

\* "displays the current responsibility zones": the walks end, also those
\* that were begun in the middle of others, and then the monitor shows the
\* balancer's tree, unless a datagram was lost and the user has not refreshed
\* the tree since, when nothing else was in flight.
ShowsZones == <>[](crashed \/ unsure \/ ~orderly \/ shown.zones = current)

\* Without losses the monitor ends up with exactly the proxies that were
\* counted last, although a new count throws away a list half asked for.
ShowsProxies == <>[](losses > 0 \/ shown.proxies = 1 .. counted)

\* Without losses every cell around every leaf that is shown is answered in
\* the end, although walks that go on at the same time share the list of the
\* cells to ask for and each of them sends only its first.
ShowsNeighbors ==
    <>[](\/ losses > 0
         \/ \A t \in DOMAIN shown.zones :
                shown.zones[t].leaf_node =>
                    \A cell \in ToSet(askedAround(token_to_tree_node[t].box)) :
                        <<t, cell>> \in neighbor_nodes)
=============================================================================
