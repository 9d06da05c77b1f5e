# Gkm-World, specified

A TLA+ development about the servers of Gkm-World (`src/` is the repository).
It models the memory that hands out tokens, the proxy server's sessions, the
node servers' units and the thread that moves them, the spawn requests that the
balancer relays, the Windows client's login, the balancer's tree of zones, the
transport that every process shares, the monitor that copies the tree and the
threads of its connections, the resource packer with the files it leaves, and the
logger.  TLC checks the models on small instances, and TLAPS proves what matters
most for every value of the constants.

## 1. The system

| Component | Where | State | Operations | Model |
|---|---|---|---|---|
| FastIndex memory | `include/gkm_world/fast_index.h` | pages, free list, chains | allocate, deallocate, chain push and remove | `FastIndex`, `IndexAllocator`; chains in `UnitChain` and `Logger` |
| Proxy server | `src/proxy_server` | registered users, online sessions by token, users file | login, logout, spawn, action and their answers, quit | `ProxyServer` |
| Node server, network thread | `src/node_server/node_server.cpp` | unit list, unit count, own zone | spawn, logout, action | `NodeServer`, `UnitChain` |
| Node server, logic thread | `src/node_server/logic_thread.cpp` | none of its own, walks the unit list | game step every 50 ms | `UnitChain` |
| Balancer server | `src/balancer_server/balancer_server.cpp` | tree registry, node processes, proxies | relay of spawns, node info, wake-up, proxy registration, monitor requests | relay in `GameSession`, monitors and proxies in `BalancerMonitor` |
| Balance tree | `src/balancer_server/balance_tree.cpp` | zones, children, neighbor tables | split, merge, walk to a zone | `Zones`, `BalanceTree` |
| Transport | `include/gkm_world/transport.h` | packet pool, pending guaranteed requests, receive loop | send, receive, retry | `Transport`; as datagrams in `Network` |
| Balancer monitor | `src/balancer_monitor` | a copy of the tree, lists of what to ask for; a connection with a thread of its own | walk, split, merge, refresh; connect, close, quit | `BalancerMonitor`; `MonitorSession` |
| Logger | `include/gkm_world/logger.cpp` | a queue per thread | report, write one message, quit | `Logger`, `MessageLog` |
| Windows client, network | `src/win_client/udp_connection.cpp` | login state machine, timer, pending requests | login, spawn, act, log out | `GameClient`; any client's packets in `GameSession` |
| Windows client, graphics | `src/win_client/bgfx_*` | what it has loaded | open a model, its resource and its textures | opening in `ResPacker`, loading in `GkmModel` |
| Resource packer | `src/res_packer`, `include/gkm_model` | three directories and their copies in memory | scan, add, remove, write | `ResPacker`, `GkmModel` |
| Bot client | `src/bot_client` | packet counter | the same packets, blocking | its packets in `GameSession` |
| Log server, resource server | `src/log_server`, README only | | | stubs, not modelled |
| Rendering, Qt widgets, vector_pool_proof, configuration | | | | no concurrency and no protocol, not modelled |

The servers are single-threaded event loops over UDP; the node server has a
second thread, and so has the monitor.  A client talks to the proxy only.  The
proxy asks the balancer to spawn a unit, the balancer passes the request to the
node server of the zone that has the position, and the node server answers the
proxy; logouts and actions go from the proxy straight to the session's node
server.  A monitor asks the balancer for its zones and proxies and has it split
and merge zones.  Datagrams may be lost, repeated and reordered; handlers run one
at a time in each process.

What makes it hard: tokens are reused, so that a late packet may be about
another session, and it carries nothing else to tell; the free list keeps stale
links; the neighbor tables are copies that a split or a merge must keep up to
date on both sides, through pointers whose tokens are reused; the node server's
two threads share a linked list without a lock; a packet buffer may be given back
by an answer, a timer or the end of a send; the monitor copies the tree request
by request while it changes, over a connection whose signals are still queued
when the user has closed it; the client's handlers share a state that failures
overwrite; and the packer may die between two of many files that name each other,
and takes everything it finds as whole the next time.  `PROJECT.json` lists these
hazards at their lines.

## 2. The modules

* **IndexAllocator** - what a registry of indices promises: an index that is in
  use is never given, a returned one is given before a fresh one, fresh ones in
  order.
* **FastIndex** - `FastIndexRegistry`: pages, the free list threaded through
  the elements, and the asserts.  It implements `IndexAllocator`
  (`ImplementsAllocator`), and only that promise is used by `ProxyServer`.
* **Network** - end points and datagrams.  `datagrams` only grows; a handler
  takes a datagram and leaves it, which covers loss, repetition and reordering
  at once.  Servers bind to every address of their machine and tell others
  0.0.0.0 as their own (`AnyAddress`); `reaches` says where a datagram for such
  an end point arrives.
* **ProxyServer** - users, sessions and one action per packet handler, `onQuit`
  (saves and starts again), `Crash` (starts again from the last file) and
  `CrashWhileSaving` (from one that was emptied and written up to some user).
  `loadRegisteredUsers` reads the file as lines: an empty field ends it, and a line
  break in a field (`Broken`) shifts what follows, of which nothing is known then:
  any users may come back.  `shifted` remembers that it happened.
* **NodeServer** - one action per packet handler; the zone is a constant.
* **GameSession** - composes the three with clients (any packet about a token
  they were told, at any time) and `relaySpawn` of the balancer; states the
  properties of the protocol.
* **Zones** - the geometry: boxes, the slots of a neighbor table, the cells
  around a box.  A cell is one coordinate unit.
* **BalanceTree** - the tree, `onMonitoringBalanceTreeStaticSplit` and
  `onMonitoringBalanceTreeStaticMerge` with every table they write, and the
  registry's order of reuse.  A place that was given back keeps its contents, as
  the memory does, because stale pointers reach it.  A request may be about any
  tree that the registry finds, one that a merge cut off included; `orderly`
  remembers that none was.
* **Transport** - one process: `packet_pool` with the buffers in use and what
  they hold, the calls of `async_send_to` in progress, `guaranteed_delivery_map`
  and the timers (`infos`), the receive loop.  A send reads its buffer when it
  completes, so that what leaves may be somebody else's packet.  `ReceiveRequest`
  and `ReceiveAction` are the packets of types with and without guaranteed
  delivery; the first kind is taken to be an answer when its number fits.
* **UnitChain** - the unit list, access by access: `PushBegins`, `PushLinks`,
  `PushEnds` are `chainPushBack`, `RemoveBegins` and `RemoveEnds` `chainRemove`,
  `LocationWritten` what `onInitializePositionInternal` does next, and
  `WalkBegins` .. `WalkEnds` the logic thread's `run`.  It implements
  **IndexSequence**: to who follows the links it is a sequence that changes in
  one step per call.
* **BalancerMonitor** - extends `BalanceTree` with the requests of one monitor,
  its copy (`token_to_tree_node`), its walk (`parent_stack`, `wait_token`), the
  lists of proxies and of neighbor cells it goes through one by one, and its
  user.  One action per handler on both sides.
* **MonitorSession** - the same monitor seen as a window and the threads of its
  connections, for any number of them: `onConnect`, `onClose`, `onQuit` and
  `onClick` are the user, `Handles` takes the next queued signal, and
  `onThreadStart` .. `onReadyRead` are the slots that a thread runs.  What is
  asked for is only "info", "data" or "change" here; `hasty` remembers that the
  user closed a connection that was still at work.
* **GameClient** - extends `GameSession` with `UDPConnection`: one action per
  answer handler, `GivesUp` for a request whose attempts are used up, `Posted`
  and `onTimer` for what its thread runs, `doLogout`, `doEvent` and
  `UserAsksToLeave` for the calls that the program may make.  `sent` only grows,
  and the proxy may handle any of it at any time.
* **ResPacker** - the packer over many runs.  `step` is a place in `start()`, in
  which one file is handled at a time (`Scan`, `AddTexture`, `AddObject`,
  `RemoveFile`, `WriteFile`); `Crash` may come in any of them and leaves the file
  that is being written cut off.  `Opened` and `Shown` are what the client makes
  of the directories.
* **GkmModel** - the two file formats byte by byte, without a state:
  `ResourceBytes` and `ModelBytes` save, `LoadResource` and `LoadModel` load, and
  `getResource` and `getModel` are the client's, which take a file without a byte
  for an empty one.  `ResPacker` extends it; `NoPartIsShown` is why it can take
  every file that was cut off for one value, `Torn`.
* **Logger** - extends `FastIndex` with the queue of one thread: `ReportBegins`
  and `ReportGoesOn` are `reportMessage`, `processNextQueuedMessage` the timer,
  `onQuit`.  It implements **MessageLog**.
* **LoggerProofs** (`FastIndex` and `Logger`), **GameSessionProofs** (also about the units
  of `NodeServer` and the clients of `GameClient`), **ZoneProofs** (`Zones` and the
  whole of `BalanceTree`), **TransportProofs**, **UnitChainProofs**,
  **MonitorSessionProofs**, **BalancerMonitorProofs**, **ResPackerProofs** - the proofs.
* **MC...** - the constants of the runs.

Each handler is one action: its early returns are guards, or a disjunct that
leaves the state alone when it still answers.  Abstractions: packet numbers are
left out of `GameSession` (servers only echo them); a position is a name; a
login is a number, in the order in which `std::map` writes users to the file;
which users left one of their three fields empty, or put a line break into one,
are the constants `Incomplete` and `Broken`;
in `BalancerMonitor` an answer about a neighbor is only known to have come.
Definitions called `Mutant...` are plausible mistakes in the definition that
follows them; nothing uses them but the mutants of `PROJECT.json`.

Three things the build does would hide most of the protocol, and are therefore
constants of the model:

* `registerNewUser` drops the proxy's address, so that a node server's answer
  to a spawn request goes to 0.0.0.0:0 (`RelaysProxy = FALSE` is the code).  The
  runs `game_session`, `game_zones` and `game_client` take `RelaysProxy = TRUE` to reach the
  handlers behind it.  The theorems hold for both.
* a node server tells 0.0.0.0 as its address (`node_server.cpp:41`, 154) and the
  proxy keeps that as the session's node server: only a loopback address is
  replaced by the one the answer came from (`proxy_server.cpp:303`, `seenFrom`).
  What the proxy sends there arrives when the system takes 0.0.0.0 for the
  sender's own machine, as Linux does, and the node server runs on it:
  `OneHost = TRUE`, which the three runs take.  With `FALSE` nothing that is sent
  to a node server in the game arrives, nor does its answer to a spawn request, and
  nobody plays (section 6).  The theorems hold for both.
* the constructor of the balancer has `startNodeServers()` commented out, so
  that no leaf has a node server (`isAnyNodeServerRunning` is FALSE, which is what
  lets `BalanceTree` split and merge at will).  `Route` of `GameSession` is a
  constant function, and the theorems hold for all.

## 3. The runs

| Run | Shows | Bounds |
|---|---|---|
| fast_index | the free list stays a list, asserts hold, refinement of `IndexAllocator` | 5 indices on 3 pages: lists of every order, inserts behind a head on a page that exists and on the next one |
| game_session | sessions and users agree and are counted, through quits, crashes and crashes while saving with old datagrams in flight; a restart keeps the users that the file has | 1 client with 2 users, a wrong password, 1 node server; the second user has a line break in a field, so that what comes back is any users from the first save on that has that user |
| game_zones | a session in the game never moves, no unit is spawned twice, tokens only for passwords, through restarts that lose the user | 2 clients of one user, who left a field empty, 2 node servers, 4 positions (each zone, an edge where balancer and node server disagree, outside) |
| tree | zones tile the world, side neighbors known, no zone lost by a merge | 8 x 8 cells, 4 splits and merges in any order: neighbors four times as large and as small, tokens reused; a request about a tree that a merge cut off is the last |
| transport | each buffer has one owner, a timer respects the answer, every request ends | 2 buffers, 2 requests with one retry, others' packets with a number in use and one that is not: every race of answer, timer, send and reuse of the buffer |
| unit_chain | refinement of `IndexSequence`, links agree both ways, the walk stays on pages, ends, steps nobody twice, misses nobody | 3 elements on 2 pages, 4 units: each element can be reused while the walk stands on it |
| monitor | the monitor ends up showing the balancer's zones and proxies and knowing the neighbors; it only crashes after a loss | a world with one level below the first split, 2 splits or merges, 2 proxies, a refresh in the middle of anything, 1 lost datagram, one cell that two leaves ask for |
| game_client | who plays has the session and the unit on its node server; who asks to leave ends | 2 clients that are the same user, 1 node server; one of them logs out by either way, the other acts |
| monitor_session | no null connection, no trees of two balancers for a user who waits; every other connection is told to close and its thread stops | 2 connections, 1 click, look-ups that fail, lost answers, closing at any moment |
| res_packer | each file loads as it was saved, and of one that is cut off nothing is shown; models that are there can be opened and keep what they show; a run that ends packed everything once | 3 runs of which 2 may die, 4 input directories, 3 sets of first files, 3 ids; 4 values of a byte, resources of up to 2 meshes, one of which has 17 vertices, more than a word counts |
| logger | the queue is exact, messages are written in order, once and at last | 5 messages on 5 places of 3 pages: places are reused with their marks standing |
| tree_assert | the finding of `PROJECT.json`: a tree that was not told of a merge writes through its stale corner slot into its own new child, and an assert fails | 4 x 4 cells with 6 requests |

Bounds.  `MaxRequests` bounds the splits and merges that are granted, `MaxUnits`
the units spawned, `MaxNumber` the packet numbers, `MaxProxies`, `MaxRefreshes`,
`MaxLost`, `MaxMessages`, `MaxConnections`, `MaxClicks`, `MaxRepeats`, `MaxRuns`,
`MaxCrashes` and `MaxId` what they say; `AskedCells` is the set of cells that the
monitor asks for of those around a leaf, `Calls` what each client's program does
besides logging in.  `MaxRepeats` is 0 in the run, as the threads and one repeated
datagram are too many states together; the theorems about `MonitorSession` have
any number.  In `res_packer` three ids are enough for an id to be freed, given
again and used up, and four values of a byte make a word of 15 and texture
coordinates from -8 to 7.  Systems that use up a bound stop, and their runs do not
check for deadlock.  With merges `SidesKnown` and the asserts
fail as a consequence of the finding `tree_assert` (what is written through a
stale corner slot may land in a side slot), so that both are stated until the
first merge.  `MayAsk` is a bound too: the first request about a tree that a merge
had cut off is the last, because a merge of such a tree returns tokens twice, after
which the registry's links run in a circle and nothing that a list stands for can
be said (section 6).  `TreeTypeOK`, `ZonesTile` and `NoZoneLeftBehind` say
`orderly`, that there was no such request; without it TLC finds each of them
violated.  `NodeSizeMin = 1`
makes a cell of the model one smallest zone; sizes in between are covered by the
proofs about slots.  Tokens need no bound: returned ones come first.

Environment of `monitor`.  Datagrams arrive in order, once, or are lost, which is
what happens between two processes on one path; reordering would only add to
what `unsure` excuses.  The user waits for the end of a walk before the next
split or merge (`Patient = TRUE`) and then clicks any tree that is shown;
refreshes come at any time.  After a loss that may be a tree which a merge has
cut off: `ShowsZones` excepts what follows (`~orderly`), for which the run's two
requests are too few, and section 4 shows that it takes a loss.  With a user who does not wait the walk
may stand still for ever (section 6).  A `Click` or a
`buildServerTree` on a copy that has become cyclic would never return
(`crashed`); that of a patient user never does, as section 4 has it for any bounds.

Fairness.  `Transport`: `io_service` calls the handler of every timer that has
expired, so that `onTimeout` is weakly fair for each request; nothing is assumed
of the network.  `UnitChain`: the operating system schedules the logic thread;
nothing is asked of the network thread, so that `WalkTerminates` rests on units
coming to an end (`MaxUnits`) - a chain that grows faster than it is walked has
no end, in the code too.  `BalancerMonitor`: both processes go on reading what
has arrived, and a datagram that is read is handled; only `MaxLost` are lost
instead.  `Logger`: the timer fires and a call of `reportMessage` goes on to its
end.  `GameClient`: the thread of a connection runs what was posted to it and its
timers, and a request ends (`GivesUp`, `Posted`, `onTimer` are weakly fair);
nothing is assumed of the network, the servers and the user.  `MonitorSession`:
each thread runs what is queued to it and ends when it was told to.  The other specifications assume none and state safety only.

## 4. What is proved

* `FreeListCorrect`, `AssertsNeverFail`, `Refinement` (LoggerProofs): for any
  capacity and page size the free list is well formed, no assert of
  `deallocateIndex` fails, and the registry implements `IndexAllocator`.  The
  invariant says without walking the list that links of returned indices are
  distinct, never 0, never the head, and leave every set of returned indices;
  `HeadOnList` alone is not inductive, because nothing else says where a link
  that becomes the head points to.
* `SessionsCorrect`, `UsersCounted`, `SessionsStay`,
  `TokensForPasswords`, `RestartsKeepUsers` (GameSessionProofs): for
  any sets of clients, logins, node servers and positions, any credentials,
  routes and zones, with or without restarts.  The inductive invariant is the
  types, `SessionsMatchUsers` and `CountMatchesSessions` together: that an answer
  about a token closes the session of the user who has it needs both directions
  of `SessionsMatchUsers`, and the count needs that a user is not online twice.
  `TokensForPasswords` looks at what each handler sends: `OnlySent` names the one
  datagram that a step adds, and only `onLogin` adds a `LoginAnswer`.
  `RestartsKeepUsers` needs `FileAgrees`: as long as no line was shifted, who is
  read from the file is registered already, with the password of the file - nobody
  changes a password or leaves `login_to_user_info` - so that an old file, or a
  part of a new one, brings back nothing else.
* `PoolStaysExact`, `TimerLeavesAnswered` (TransportProofs): for any buffers,
  numbers and attempts.  `PoolExact` is not inductive alone: that a timer gives
  back only a buffer that is still its request's needs `TimersAgree`, a request
  with a timer is pending exactly when it is not marked delivered.
* `UnitListSafe`, `WalkNeverCrashes` (UnitChainProofs): for any tokens, page size
  and number of units.  That the walk stays on pages that exist needs that every
  link it may follow leads to one (`LinksSafe`), which the steps of a removal keep
  because the element they take over belonged to the chain's links before, and
  that what the calls in progress are about to link exists (`UnitTypeOK`).
* `PatientUserIsSafe`, `NoThreadLeftBehind` (MonitorSessionProofs): for any
  number of connections, clicks and repeated datagrams.  `PatienceIsSafe` speaks
  of what has been handled; the invariant speaks of what still will be: while the
  user was not hasty, a signal in the queue, a command in a thread's queue and an
  answer on its way all belong to the open connection or to one that has nothing
  left to say.  `NoThreadLeftBehind` holds for a hasty user too.
* `ModelsAlwaysOpen`, `ModelsKeepMeaning` (ResPackerProofs): for any input
  directories, any number of runs and a crash in any step.  Neither property is
  inductive.  The invariant, `PackerInv`, says for each kind of file what each
  stage of a run knows: a named file is there, whole and no duplicate (`Sound`), so
  that a scan finds it and keeps it (`Scanning`) and new ids, removals and writes
  pass it by; when the files of a kind are written they are what the packer
  remembers (`Writing`), and these are what a new model names (`NewModel`) - which
  is why the models come last.  `ModelsKeepMeaning` needs `IdsLast`, that no run
  gives a resource the id after the last, which is 0: without it the property
  fails, as TLC finds with `MaxId = 2` (section 6).
* `AllIsPacked` (ResPackerProofs): the same for contents.  `PackedInv` follows a
  run: a texture of the input that the additions have passed is known under an id,
  an object of it has a model of its textures' ids (`TexturesAdded`, `ObjectsAdded`),
  and at the end what is in the directories is what the run remembers (`Remembered`,
  `Writing`).  What was added stays: the removals pass by what the run knows, and
  the textures' ids do not change once the objects are added.
* `AllLoads`, `NoPartEverShown` (ResPackerProofs): for any number of values of a
  byte, and any vertices, meshes and resources of the code's types.  `SavedInv` says
  that what is in the directories, and what a run knows of it, is a resource or a
  model that was saved, or was cut off (`Torn`).  The rest is about bytes: each part
  of a file begins behind the one before (`Behind`, `Flattened`), a number comes back from its
  digits, the loader finds the ends of the meshes one after another where they were
  saved, also those of a mesh with more vertices than a word counts (`NextEnd`,
  `EndsPlaced`), and in a file that was cut off one of these ends is past its end,
  unless no byte is left, of which the client loads nothing.
* `UnitsUnique` (GameSessionProofs): for any clients, node servers, routes and
  zones, a node server has one unit for a token, and `unit_count` is their number,
  although spawn requests and logouts come late and twice.
* `PlayersHaveUnits` (GameSessionProofs): for any number of clients of one user, a
  client that plays has the session of its token and a unit on a node server that
  the session's end point reaches, as long as no other client leaves.  Its hypothesis `StartServed` says that the
  position that clients ask for is in the world and is served by the node server
  that the balancer routes it to: without it the property fails, because the proxy
  puts a session in the game whatever the answer says of success (section 6).
  `PlayInv` follows the answers on their way: while nobody leaves, each of them
  tells the truth (`TellsTruth`), and each session in the game has its unit
  (`GamesServed`).
* `ChainAlwaysStands`, `UnitsMovedOnce`, `ChainIsSequence`, `LinksAlwaysAgree`
  (UnitChainProofs): in the middle of every call the links forward stand for one
  sequence without repetition (`StandsFor`), along which the units are in the order
  in which they came; the walk therefore only meets later units, and the chain is an
  `IndexSequence`.  `Followed`, the recursive function that the properties use, is
  shown to find that sequence by taking the least step at which it would not.
* `QueueAlwaysExact`, `LogImplemented` (LoggerProofs): for any number of messages
  and places.  `LogInv` numbers the messages: the queue is always the last ones
  reported, those before it were written, and so were those that are marked on it.
  That a place holds one message at a time rests on the invariant of the registry.
* `TreeAlwaysTyped`, `NoZoneLost`, `ZonesAlwaysTile` (ZoneProofs): for any world,
  sizes and number of splits and merges, a world that no power of two divides
  included, as long as each was of a tree that was in the tree (`orderly`, see
  section 3).  The invariant is `OrderlyInv`, that `TreeInv` holds until then: that
  a merge returns no token twice needs that what is below the merged tree is below
  the root.  `TreeInv` has two sides.  The registry's list is exactly the given
  tokens that are not in use.  And what is below the root is quartered and in use,
  while every place, stale ones too, has a height above its children's (`Heights`),
  so that each recursion of the model ends.  What a walk meets is determined by its
  equation alone (`ReachOnly`), which is how the trees before and after a split or
  a merge are compared.  The folds and recursive functions of the model are shown
  to exist (`FoldExists`, `Recursion`) by induction on the least counterexample.
* `SplitsNeverAssert` (ZoneProofs): before the first merge no assert of
  `setNeighbor` fails.  `AssertInv` says that no table, not even one that names an
  inner tree in a stale corner slot, names a tree that shares a cell with its own;
  tokens that are reused end that, which is the finding `tree_assert`.
* `SidesAlwaysKnown` (ZoneProofs): before the first merge a zone's table names the
  zone behind each cell of its sides, and none behind the border of the world.  Its
  hypothesis `WorldFits` says that the world is `NODE_SIZE_MIN`, doubled some times,
  as the 2048 cells of the default and of `run_area` are; without it the property
  fails (section 6).  `SidesInv` holds because boxes are aligned to stretches of
  `NODE_SIZE_MIN` cells: what is behind one cell of a stretch is behind all of them
  (`SameSlotKnows`), so that one slot can stand for them.  A split then writes
  exactly the slots that led into the tree that was split (`SplitWrites`), the
  last of the cells that share one included, and a corner slot of a new zone names
  the tree that has the corner cell or none.
* `CrashesNeedLoss` (BalancerMonitorProofs): for any world, sizes and number of
  splits, merges, refreshes and proxies, `CrashNeedsLoss`: the monitor crashes only
  after a datagram was lost, or when its user is not `Patient`.  There are two ways
  to crash.  That `server_info` is set before a count of proxies is handled is
  `InfoFirst`, on channels that keep their order.  That no tree is below itself in
  the copy is harder, as the tokens of the copy are reused.  `Calm`, the invariant
  while nothing is lost, says that the trees and the copy have common heights
  (`Descends`): places that are given back are leaves, so that only a leaf's token
  comes to mean another tree, and its copy has no children.  The one exception
  is a zone that a merge made, which keeps its old children in the copy until it is
  asked for again: until then it is ahead of the walk, or a new walk is to begin
  (`StaleAhead`).  The user may click any tree that is shown; that it is in the tree
  then follows from `CopyTrue`, an inner tree's copy has its true children or none,
  and `ShownSame`, between two walks the window shows the copy.  A request to split or merge therefore stands `Alone`: it is sent
  at the end of a walk, nothing but refreshes is behind it, and every answer on its
  way tells what is still so (`Truth`).  It rests on `TreeInv` of the balancer.
* `IndexInTable`, `SlotsApart` (ZoneProofs): `getNeighborIndex` stays inside the
  table for every box and every cell outside it, and two cells share a slot only
  in the same corner or the same stretch of the same side.

Assumptions: the named `ASSUME`s of the modules - end points differ, logins and
buffers are finitely many, sizes are positive and divide, `InvalidIndex` is no
index, paths are ordered, no file of the input passes for one that was cut off, ids
fit a word, a model has fewer textures than a byte counts, what is in the input and
in the first resources is of the types of `model.h`, and the caches have no models
before the first run.  Each is evaluated by a run.  Two theorems have a hypothesis
of their own, `StartServed` and `WorldFits`.

The type invariants `RegistryTypeOK`, `TransportTypeOK`, `UnitTypeOK` and
`SessionTypeOK`, and the part of `TypeOK` that is about the proxy, are parts of
these inductive invariants; no run repeats them.

Only model-checked:

* Liveness under fairness, which is out of the prover's reach, as `ENABLED` is:
  `RequestsEnd`, `WalkTerminates`, `EveryMessageWritten`, `ShowsZones`,
  `ShowsProxies`, `ShowsNeighbors`, `LeavesWhenAsked` and `ClosedThreadsStop`.

## 5. Plan

Every invariant that a run checks is stated by a theorem.  What is left:

1. A `BalancerMonitor` whose channels duplicate and reorder datagrams, as
   UDP may; `Truth` and `InfoFirst` are then lost, and with them `CrashesNeedLoss`.
2. What a loss costs: which losses leave the copy without a tree below itself.

## 6. Not modelled, and known disagreements without a run

Not modelled: rendering, the decoding of pictures and window events of the
Windows client, the Qt widgets of the monitor and its polling of logs (which sends
nothing yet), the parser of .obj files (an external library) and the arithmetic of
vertices, `vector_pool_proof` and the configuration reader: they are sequential and
share no state with the rest.  The log server is a stub, the resource server exists
in the README only.  Positions computed by `gameStep` are floating point and no
property depends on them.  Not reached in this build: the node pool of the balancer
(`getAvailableNode`, `startNode`, `wakeUp`, `onGetNodeInfo`, which need the
commented-out `startNodeServers`) and `onSpawnNodeServer` (no handler is registered
for it).  `onRegisterProxyAnswer` only stores the number it was given.  Nothing in
the build calls `start`, `doLogout` or `doEvent` of the Windows client either:
`GameClient` has the calls that it offers.  In it `LoginOk` and
`InitializePositionOk` last no longer than a handler, `doTimer` has `onTimer` run at
once, because the timer it waits for is a local one, and `packet_number_to_location`
is always empty.

While modelling, these were found.  Each is what the code does and the models have,
and none has a run: the first group disagrees with a document, a comment or an
assert, and is left for the reader to weigh; the second is admitted by the code or
said otherwise nowhere.

* A user who logs out before the game is entered has the `LogoutInternal` sent to
  0.0.0.0:0 (`proxy_server.cpp:197`): no node server sees it and the user stays
  online.  `protocol_enum.h` has it from proxy to node.
* The relay loses the address that the node server must answer to
  (`balance_tree.cpp:63`), which is `RelaysProxy = FALSE`.
* A `LogoutInternalAnswer` that comes late closes the session that another client
  has opened under the same token (`proxy_server.cpp:211`), and that client plays on
  without one, while its unit stays.  `PlayersReallyPlay` is therefore stated until
  another client logs out; so is the client that logs out before it was told its
  token, and sends token 0 (`udp_connection.cpp:379`).
* A client whose place the node server refused is in the game for the proxy
  (`proxy_server.cpp:299`); it asks again and is told of success, and plays without
  a unit.  In `game_client` no place is refused.
* Any answer that arrives between the `Logout` and the `LogoutAnswer` ends the
  client's receive loop (`udp_connection.cpp:254`), so that the logout is given up.
* A repeated `Login` that arrives after the logout opens a session that nobody will
  close (`proxy_server.cpp:147`), until the user logs in again.
* A connection whose host cannot be found, closed by the user before its
  `connectionFatal` is handled, is closed once more: `assert(connection)` fails
  (`main_monitor_window.cpp:253`, called from 481).
* A monitor whose user splits and merges while the first walk is under way stands
  still for ever, without any loss: a stale entry of `parent_stack` has destroyed
  zones asked for, and no answer matches `wait_token`
  (`main_monitor_window.cpp:542`).  With one more level of zones it may recurse
  for ever, again without a loss: splits of 2 and 6, a merge of 6, a split of 3, a
  merge of 2 and a split of 10 give tokens that are reused before the copy is
  asked for again, and in the copy 10 is below 6 and 6 below 10 (`server_tree.cpp:67`).
* With the ids used up the packer's counter wraps and the next file gets id 0,
  instead of the exception (`texture_cache.cpp:87`, 84); 0 means no texture, and the
  next run removes the file as a duplicate.  A model without a resource shows the
  resource 0 for as long as there is one.
* An object whose geometry another one has is packed into a model without a
  resource: `addResource` returns before it has given the caller's info its
  `resource_id` (`model_cache.cpp:163`).
* Meshes are collected under the number of their material and saved by 0, 1, ...:
  with a number that no face uses a null mesh is followed (`model_cache.cpp:129`).

* any request of a guaranteed type is taken as the answer to a pending request
  with its number (`transport.h:216`);
* corner slots keep naming a tree that was split (`balance_tree.cpp:284`);
* inner trees below a merged tree keep their tokens (`balance_tree.cpp:373`), and
  the handlers of a split and a merge only ask whether the registry knows a token
  (`balancer_server.cpp:385`, 407).  After a split of 2 and a merge of 1, a merge of
  2 that a late or second monitor asks for returns the leaves of 2 a second time:
  the registry's list of returned tokens has them twice, and two zones may later be
  given one token;
* the servers bind to 0.0.0.0 and tell each other that as their address
  (`node_server.cpp:41`, 154, `proxy_server.cpp:30`, 257); the proxy replaces a
  loopback address only (303).  With the node servers on another machine than the
  proxy, or where nothing that is sent to 0.0.0.0 arrives, nobody plays;
* a line break in a login, a password or a name, which nothing refuses, shifts the
  lines of all users behind it in the users file, and a proxy that dies while it
  saves leaves the file with the first users only (`user_info.h:38`,
  `proxy_server.cpp:424`);
* a resource or a model whose file has no byte yet is shown as nothing
  (`bgfx_model_cache.cpp:81`, 107), and so is one whose file is not there; such a
  model has no resource at all, which `drawModel` follows (`bgfx_engine.cpp:69`);
* a world whose size is not a power-of-two multiple of `NODE_SIZE_MIN` passes the
  constructor's checks when halving it stays even above that size, and an odd one
  that is smaller meets an assert at its first split (`balancer_server.cpp:70`).
  With 16 cells and a smallest zone of 3, two neighbors of a side share a slot, and
  `SidesKnown` fails after one split; the worlds of the runs are such multiples,
  and the theorems about zones but `SidesAlwaysKnown` hold for all;
* a unit's first place may be overwritten with the last unit's, as its element is
  linked before it is filled (`node_server.cpp:145`);
* a neighbor once told to the monitor is never told again
  (`main_monitor_window.cpp:590`);
* the objects of closed connections are never deleted, and a thread that was told
  to exit runs what is left of its round of events;
* a write that fails on a full disk goes unnoticed, and the models that name the
  file are written (`model_cache.cpp:42`); an empty file has its first byte asked
  for (`texture_cache.cpp:22`);
* `log_min_severity` is stored and compared with nothing; what is queued at a quit
  is lost (`logger.cpp:159`); the bot client logs from a thread that it has not
  registered.
