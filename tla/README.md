# A verification of the vehicular NDN daemon (vndn)

This directory holds TLA+ modules that model the forwarding daemon `ndnd` of this
repository, the road map and the formats it uses and the applications on top of it, TLC
configurations that check them on small instances, and proofs that TLAPS checks for every
value of the constants. Paths below are relative to `src/`.

## 1. Inventory

| Part | Source | State | Operations | Properties that make it correct |
|---|---|---|---|---|
| Forwarding core | `daemon/ndn-l3-protocol.*`, `daemon/ndn-*-strategy.*` | the list of faces, the tables below | `OnInterest`, `OnData`, `OnNack`, `AddFace`, `RemoveFace`, `Reap` | one Interest brings at most one content; loops are cut; no Interest is lost unasked; nothing refers to a removed face |
| PIT | `daemon/pit/*` | entries: nonces, incoming and outgoing faces, lifetime, hub addresses, a raw pointer to a FIB entry | `Lookup`, `CleanExpired`, records | pointers stay valid; entries go away |
| FIB | `daemon/ndn-fib.*` | entries: prefix, faces with a status | `Add`, `RemovePrefix`, `RemoveFromAll`, `LongestPrefixMatch` | routes lead to faces that exist |
| Content store | `daemon/cs/*`, `utils/trie.h`, `utils/trie-with-policy.h`, `utils/lru-policy.h` | a trie whose nodes may carry a packet, an intrusive LRU list of those nodes | `Add`, `Lookup` | list and trie agree; least recently used goes first |
| Faces | `daemon/ndn-face.*`, `-local-face`, `-net-device-face`, `-hub-over-ip-device-face` | a descriptor, a receive buffer; the hub's client address | `Send`, `readHandler` | content reaches the address that asked |
| Adhoc face, shared memory | `daemon/ndn-adhoc-net-device-face.*`, `network/mac/ll-upper-layer-comm-service.*` | two rings of slots with semaphores and flags, two eventfds | `Send`, `readHandler`, `readMessageFromNDN`, `writeMessageToNDN` | FIFO, exclusive slots, nothing announced twice, calls return |
| Device adapter | `network/mac/ndn-device-adapter.*`, `network/mac/ndnsock/*` | descriptors (raw socket, gpsd, eventfds), `maxfd`, the location service | the constructor, `start`, `connectToNDNSocket`, `createGPSSocket`, restart by `startDeviceThread` | it waits for everything it depends on, touches only its own descriptors, comes back after a failure, claims no position it no longer knows |
| Link-layer policy | `network/mac/ll-nom-policy.*`, `packet-storage.*`, `lal-ack-manager*`, `geo-storage.*` | packets with retransmission timers, neighbours' positions | `addOutgoingPkt`, `pktFromNetwork`, `getPktForRetransmission` | every packet is acknowledged or given up after a bounded number of retries |
| Management | `daemon/ndn-management.*` | a message queue of 50, a thread, its buffer | `selfreg`, `prefixreg`, `unreg` | every message is processed, for a face that exists |
| Connector, event monitor | `daemon/app-connector.*`, `daemon/ndnd.cc`, `helper/event-monitor.*` | libevent base, descriptors | accept, add, erase, timers | handlers run one at a time |
| Applications | `apps/*` | a consumer's file, outstanding Interest and timer; a producer's photos | register, send, read, retransmit, take a photo | a photo is one photo; an answer belongs to its question; every question is answered some day |
| Formats | `helper/ndn-encoding-helper.*`, `helper/ccnb-parser/*`, `network/packet.*`, `network/buffer.*`, headers and names | a buffer with marks | `Serialize`, `GetSize`, the parser and its visitors, `InitFromFD` | what is written is read back; the size is the size; a header of which the end is missing is refused |
| Geography, gpsd | `utils/geo/*` | the map (junctions, links, a list by latitude), the last position and its element | loading, `findClosestJunction`, `findClosestLink`, `updatePosition`, `noValidData` | the node knows where it is |
| Core library, test tools | `corelib/*`, `utils/gpsd-util.*`, `utils/fake-gps.cc` | reference counts, log | | |

**How the parts interact.** The main thread runs libevent: it accepts applications,
reads faces and fires the reaping timer, and each handler runs to its end, through the
PIT, content store, FIB and `Send` of other faces. Two more threads run beside it. The
management thread takes messages from a POSIX message queue and calls `GetFace` and the
FIB directly. The device thread owns the raw socket and exchanges packets with the adhoc
face through shared memory. Applications are other processes, behind local sockets and
the message queue.

**What is hard.** Raw pointers between tables; a thread that changes the FIB without a
lock; packets that can arrive in any order from anybody; applications that leave at any
moment, with messages pending; a cache whose list and tree share nodes; a ring written
and read by two threads of which one dies and restarts with its own counters lost; a
thread that replaces its descriptors while others take and free numbers of the same
table; consumers that never compare an answer with their question.
`PROJECT.json` lists each hazard at its line.

## 2. Modules

| Module | What it is |
|---|---|
| `NDNNames` | names as sequences of components; the prefix searches of PIT, FIB and content store |
| `NDNL3Protocol` | the forwarding core with PIT, FIB, strategy, faces and management, one action per handler |
| `InterestExchange` | what the core promises: who is owed what, without tables |
| `MCNDNL3Protocol` | small instances of the core and its refinement mapping |
| `NDNL3ProtocolProofs` | theorems about the core, with its refinement of `InterestExchange` |
| `Subsequences` | what is left of a list when some elements are erased (used by the store, the policy and the map) |
| `SubsequenceLemmas` | positions and ranks: what such a list keeps; induction up to a number, for loops |
| `ContentStore` | trie and LRU list |
| `LRUCache` | the content store seen from outside, as the code has it: a least-recently-used cache that keeps what it has under a name |
| `MCContentStore` | names and contents for TLC |
| `ContentStoreProofs` | theorems about the store, with its refinement of `LRUCache` |
| `PktExchange` | the shared-memory rings and the life of the device thread |
| `PacketChannel` | what the rings promise: lossy FIFO channels |
| `PktExchangeProofs` | theorems about the rings, with their refinement of `PacketChannel` |
| `LLNomPolicy` | the link-layer policy of one node, its table of pending packets and its acknowledgements |
| `MCLLNomPolicy` | names for TLC |
| `LLNomPolicyProofs` | theorems about the table of pending packets |
| `RoadMap` | coordinates and distances on a grid, the loading of a map and the searches of it (operators only) |
| `LocationService` | the node's position and its element of the map; each operation gives the set of its outcomes |
| `DeviceAdapter` | the device thread: raw socket, gpsd, select, failures and restart, in a shared descriptor table |
| `MCDeviceAdapter` | a small town for TLC |
| `DeviceAdapterProofs` | theorems about the device thread, the maps that are loaded and the place it finds |
| `AppSession` | the library of the applications, and the daemons and the network between a consumer and the producers |
| `PhotoApp`, `TrafficApp` | what each pair of programs does with a message |
| `Applications` | the loops of the four programs, composed with the two above |
| `MCApplications` | bounds for TLC |
| `ApplicationsProofs` | theorems about consumers and producers |
| `NDNEncodingHelper` | the ccnb serializers and size computations, byte by byte |
| `CcnbParser` | the syntax tree and its visitors, as operators on bytes |
| `HeaderExchange` | packets written to and read from a stream, headers taken from them and sent on |
| `MCHeaderExchange` | names, payloads and messages of other programs for TLC |
| `HeaderExchangeProofs` | theorems about what is written and read, for every header and packet |

### The forwarding core

`pit` maps a name to its entry (or `NoEntry`); an entry's `fib` is a piece of FIB memory
(`FibNode`), so that a pointer to a freed or reused entry can be told from a good one.
`fib` says what each piece holds. `face` is the life of each face: `absent`, `open`,
`hup` (the application is gone, the daemon has not read it), `deaf` (a read error took
the face out of the event monitor but not out of the tables: `NDNFace::readHandler`),
`gone`. `cs` is the set of cached names; which content a lookup may return
(`CacheMatch`) and what an insertion evicts (any name: `AfterAdd`) is what
`ContentStore` settles in detail. `stale` are cached packets that keep a freed
metadata pointer. `queue`, `manager` and `inbuf` are the message queue, the message the
management thread has in hand, and the length of what its buffer still holds. A message is
as long as its prefix, the number of its face and its action make it (`Length`): one
prefix registered by face 9 and by face 100 gives messages of different length. `credit`
and `packets` are history.

| Action | Code |
|---|---|
| `OnInterest` | `NDNL3Protocol::OnInterest`: PIT lookup or creation, nonce, incoming record, lifetime, hub address; then the cache, a duplicate nonce, or the strategy, with `GiveUpInterest` when nobody can be asked |
| `OnData` | `OnData`: unsolicited, from a face not asked, or the whole satisfaction (FIB status, cache, sends, removal) |
| `OnNack` | `OnNack`: stray, not asked, or the nack with a new propagation |
| `Connect`, `Leave` | `AppConnector::readHandler`, whose reply may find the application gone; the application closes its socket |
| `RemoveFace`, `ReadError` | `readHandler` at end of file (`TrimPitEntriesAssociatedWithFace`, `RemoveAllReferencesToFace`, `RemoveFromAll`) or on an error |
| `SendRequest` | `registerName`, `deregisterName` of the applications' library |
| `TakeRequest` | `receive`, `read_json` and `GetFace` of the management thread |
| `Manage` | `NDNFib::Add` or `RemovePrefix` |
| `Tick`, `Reap` | time passes; `CleanExpired` on the reaping timer |

The management thread is split at the one point where it holds a looked-up face and
anything may happen (between `TakeRequest` and `Manage`). A step that follows a NULL or
freed pointer, or writes to a closed connection (nobody handles SIGPIPE), may end the
process (`Die`); where the memory is merely freed the model also keeps the outcome in
which the program goes on.

Left out because this program cannot reach them: Interest limits (`m_bucketMax` stays -1),
RED records, sending nacks (`m_nacksEnabled` stays false), routing metrics (all equal).
Names of faces never come back: descriptors are not closed, so a number is not reused.

### The content store

A node is the name that leads to it; `nodes`, `payload` and `lru` are the trie, its
packets and the policy's list. `Walk` is the descent of `find (key)`, `Pruned` the climb
of `prune ()`. One action per outcome of `Lookup` and of `Add`. `call` records the last
call for `LRUCache` to constrain. Which of several contents below a node is returned
depends on the order of a hash set and is nondeterministic.

### The rings

Each thread has a program counter; an action is what a thread does between two points at
which the other one can interfere (`sem_wait`, `sem_post`, the eventfd, the flag read
without the semaphore). `Restart` destroys the adapter, closing both eventfds, and makes
a new one with indexes 0 while the face keeps its own. The numbers of the closed
descriptors then belong to sockets of the new adapter, so that waiting fails, which ends
the adapter again, and announcing is in vain, which nobody notices: the policy calls
`writeMessageToNDN` itself and ignores what it returns (`ll-nom-policy.cc:362`; no node
runs gpsd in the model). Fresh pages are zero, so no flag is set
initially.

### The link-layer policy

`storage` is the timer index of the table: the pending packets with the next deadline
first. Time is only this order. `InsertedAt` puts a new packet anywhere (its first
deadline is a few milliseconds away, before or after any other), `GetPktForRetransmission`
moves the head behind all others (half a second away) or deletes it. The table's two other
indexes are the uniqueness of names (`Conflict`) and the search for prefixes (`Matching`).
That an Interest and a content of one name are never pending together is what the first of
them does, not something the type invariant asks for: see the run `link_conflict`.
Points of a road stand for coordinates; the comparison of distances in `IsAck` is all that
the code does with them. `place` is this node's fix, which may be missing: `noValidData`
marks the headers it sends, and `getDistance` then takes it to be at (0, 0) (`Here`).

| Action | Code |
|---|---|
| `AddOutgoingPkt` | `addOutgoingPkt`: a content deletes everything it matches, itself included; then `insertPkt` |
| `InterestFromNetwork`, `ContentFromNetwork` | the two cases of `pktFromNetwork`; `Heard` is its end, which sends the packet up or does not |
| `GetPktForRetransmission` | the same, when `select` times out |
| `Move` | `updatePosition` or `noValidData` |

The loop over the matching elements in the second case never advances the pointer it
reads the name from: from the second match on it reads a freed element. The model deletes
only the first match then, and keeps the outcome in which the process ends.

### The device adapter and the road map

`fds` is the descriptor table of the process, which hands out the lowest free number to
this thread and to the others (`OthersOpen`, `OthersClose`: applications that come and
go). `raw`, `gpsdSocket`, `maxfd`, `ready` and `loc` are the adapter's; `replaced`,
`refused`, `restarted` and `strayed` are history. `pc` names the place in
`NDNDeviceAdapter`: an action is what happens between two calls that can fail.

| Action | Code |
|---|---|
| `Create`, `DialFirst`, `GreetFirst` | the constructor, with `createGPSSocket` |
| `Start` | the beginning of `start`: `maxfd`, and the request to gpsd |
| `Redial`, `Regreet` | the top of the loop, when gpsd is not connected |
| `Select`, `SelectFails` | `select` over the numbers up to `maxfd`; it fails on a closed one |
| `Retransmit`, `FromNetwork`, `FromDaemon`, `FromGpsd` | the branches after it; each may replace the raw socket (`connectToNDNSocket`) or end `start` |
| `Restart` | `startDeviceThread`: the adapter is destroyed, closing the eventfds, and a new one made |

`RoadMap` puts junctions on an integer grid. Great-circle and UTM distances become squared
distances of grid points, the comparison of which is all the searches use; the distance to
a segment is a fraction. What depends on the code is kept: a node whose latitude or
longitude is zero is skipped, a record is read twice at the end of a file, a link's
identity is the exclusive or of two hashes, the downward search stops before the first
junction of the list, a search that starts at the end of the list reads what is no
junction (`Crash`), a coordinate is taken for a junction when their hashes agree, UTM
eastings of different zones are compared.

### The applications

A consumer and the producers of two cars are separate programs; the daemons between them
are `asked` (names pending at the consumer's), `stored` (its content store), `heard` and
`air`. `SendPacket` answers from the store or spreads the Interest to the producers whose
prefix is registered, of which some may not get it. `Deliver` gives a content to the
consumer once per pending Interest. Each loss, eviction, expiry, restart or stray packet
uses up one of `MaxFaults`. `Reads` is the one `read` of a stream: several messages are
taken for one whose tail is junk, or cut.

| Action | Code |
|---|---|
| `Ask`, `Express`, `Timeout`, `SelectFails`, `Read` | the loop of `photo-consumer` and `traffic-consumer`; the timer may come out negative (`overdue`) |
| `Start`, `Serve`, `Report`, `Stop` | `photo-producer` and `traffic-producer`: registration, an Interest, a report of gpsd, the end of the program and of its face |
| `AddRoute` | the operator registers the prefix of the photos |
| `World` | daemons and network |

### The formats

Bytes are numbers. `Serialize` and `GetSize` follow the two functions of each header, which
compute the same length twice. The constructors of the syntax tree call each other from one
position of the packet to a later one: `AllBlocks` is a recursive function of the position,
`ParseBlock` one call, and `Visited` a visit of the tree with the blocks still to do.
`HeaderExchange` is the life of a packet: written into a buffer of limited length, read from
a stream by one `read`, parsed, its payload found behind `GetSize` bytes, its header sent on
with another kind of Nack; or nothing catches what the parser or `GetName` throws
(`Uncaught`). Recursion is by functions throughout, so that the modules can be proved about.

## 3. Runs

| Run | Question | Result |
|---|---|---|
| `l3_core` | two applications that stay until their registrations are done, a radio: are the tables sound, is nothing multiplied or lost, what can kill the daemon, is it an `InterestExchange`? | holds |
| `l3_hostile` | hub with two addresses, nacks, unregistering, departures at any moment: do faces and addresses in the PIT stay good, and does the PIT drain? | holds |
| `cs_cache` | do trie and list agree, and implement `LRUCache`? | holds |
| `cs_update` | is the content added the one cached under its name? | violated |
| `ring` | the rings implement `PacketChannel` through failures and overload, and are live without them | holds |
| `link_conflict` | is an Interest pending after it was offered, whatever content of its name is? | violated |
| `link` | one node of the road: broadcasts are bounded, nothing is given up or hidden without a reason, the table drains | holds |
| `adapter` | does the device thread wait for, touch and report what it should, through failures of its descriptors? Is the place it finds on the map the right one? | holds |
| `apps` | is a photo one photo, an answer the answer to the question, and is every question answered? | holds |
| `data` | is what is written read back, is its payload found, is a header that lacks its end refused? | holds |
| `l3_unregister` | is the FIB pointer of a pending Interest sound when prefixes are unregistered? | violated |
| `ring_full` | does `Send` return when the ring is full? | violated |

The properties:

- `FlowBalance`: a requester (a face, or an address behind a hub) never has more pending
  entries than Interests it sent that were not yet paid with a content. It relates the
  PIT to the history of all packets and is disturbed by every handler.
- `PitFacesAttached`, `RoutesLive`, `PointersSound`, `HubRequesterKnown`: references
  between tables stay good.
- `ForwardedOnce`, `FreshIsAsked` (action properties, without nacks): an entry is sent
  out only together with a new nonce, and a new nonce is sent out or answered.
- `ImplementsExchange`: as long as nobody unregisters, every Interest is answered at once
  or waits, and a content goes exactly to those waiting under one name.
- `DiesForAReason`: the daemon dies only when a connection is broken, when the next
  management message is read with the tail of a longer one, when an Interest for `/` may
  meet an empty cache, or with a radio beside hubs or nacks. It may not die of a pointer in
  its tables. The state it leaves shows the reason, so registering, leaving and messages of
  every length are part of the model and not excluded.
- `PitDrains` (liveness): entries disappear when packets stop.
- `TrieMatchesList`, `NoDeadBranches`, `ImplementsCache`. The last compares the store with
  what a cache with its `find` and `insert` does, not with its comments: `AddIsCached` (the
  content added is the one cached) is what these say, and does not hold. Nor does
  `AnswersWithinName` (an answer is at or below the name asked), stated in `ContentStore`.
- `ReaderFindsPacket`, `EachAnnouncedOnce`, `SlotExclusive`, `ImplementsChannel`,
  `Responsive`.
- `BroadcastsBounded`: however a packet is offered again, overheard or reordered, it is
  broadcast at most `Limit` times per storing, and the table's counter agrees with the air.
- `InterestPersists` (action property): an Interest leaves the table only after `Limit`
  broadcasts, a copy from farther along its way, or a content it asks for. A copy from a
  node without a fix, or with another nonce, does not settle it.
- `OfferedIsPending`: an Interest that was offered is pending, or another of its name is.
  A comment says so, and it does not hold.
- `AnsweredNotAsked`: after a content was offered or heard nothing it answers is asked
  for, as long as no freed element was read.
- `NothingHidden`: what is kept from the daemon is something it had offered, nonce and all.
- `StorageDrains` (liveness): every pending packet is settled or given up.
- `WatchesAll`, `OwnDescriptors`: until the raw socket is replaced `select` sees every
  descriptor of the loop, and until the adapter is restarted it never touches a foreign
  one. Both conditions are needed: `connectToNDNSocket` does not recompute `maxfd`, and a
  restarted adapter is given the numbers its predecessor has closed.
- `PositionIsReported`: without gpsd no position is claimed, unless the connection broke
  between gpsd's first line and the request.
- `RightPlace`: the bounded searches find the element that a search of the whole map would,
  for positions that are not north of the map and do not share a hash or cross a zone, on a
  map without a street from a junction to itself: the code puts every point at distance 0
  from such a street (`utils/geo/coordinate.cc:392`). `MapClosed`: junctions and links refer
  to each other, whatever the files repeat or leave out.
- `PhotoIntact`: the file holds the first chunks of one picture of one car, while no
  Interest is sent twice, no messages merge and no producer restarts. Each condition is
  needed: the consumer never looks at the name of a content.
- `AnswersAsked` (action property): what is taken for the next chunk answers the last
  Interest, under the same conditions, restarts included.
- `AnswerCompletes` (liveness): with a retransmission timer an answer comes, whatever is
  lost.
- `RoundTrip`, `PayloadFound`: headers survive any number of hops, and the payload is found
  where it is.
- `CutRefused`: of a header that lacks its end nothing is taken, however many bytes are
  missing, if nothing follows. What does follow in the same packet may complete it: see
  section 5.

**Bounds.** Two names, one a prefix of the other, or two apart, are enough for aggregation,
longest-prefix match and a name without a route; two nonces for a fresh one and a duplicate;
in `l3_core` the first connection's face number has one digit and the next one's three, so
that a registration can leave a tail behind; a lifetime of 1 for an entry that is live and
one that has expired. `MaxPackets` (3 or 4) counts packets and management messages together:
register, Interest, Interest, content, is four, and the shortest violations found need three
or four. `MaxRetx` saturates a counter that only the limit 0 is compared with. A ring of 3
slots with 5 packets each way wraps around and overflows; a cache of 3 entries over 7 names
evicts inner nodes, leaves and nodes on the path of the one being added. In `link` and
`link_conflict`, three packets, moves or changes of the fix, two names of which one is a
prefix of the other and a limit of two transmissions (8 in the code) give packets in both
orders of deadlines, two matches of one content, acknowledgements from before, at and beyond
the node, and a transmission that is not the last. In `adapter` a table of 6 numbers, of
which 3 are taken at first, holds the raw socket, gpsd and one descriptor more, so that
numbers run out, are reused by others, and lie above and below `maxfd`; one failure of the
raw socket is enough to replace it or to restart the thread. The town has a corner, a double
street, a street whose end is unknown, a street whose middle is nearest though its ends are
not, a node on the equator, and five positions around it; the other map is a missing file.
In `apps` two cars answer one question; a photo of two chunks has a first chunk, a last one,
and one past the end; one fault hits any message or program (a photo needs no second one to
break what the conditions of the properties exclude); the speed table of 2 wraps around. In
`data` a name has a component of 16 bytes, whose length needs a second byte in its block
header, and another has white space in and behind it; two messages wait in a stream, of
which a buffer of 80 bytes cuts the second; a payload begins with the byte that closes a
block; other programs' messages have attributes, tags with fields in them, a name length of
2^32, and headers cut in their first block, inside a component of 8 bytes, and behind the
name, whose rest the next message in the stream may seem to be.

Deadlock is not checked where the bound on packets, or the death of the process, ends
every behaviour.

**Fairness.** libevent serves a readable descriptor and an expired timer, so `Hangup` and
`Reap` are weakly fair; the management thread is scheduled and blocks only on its queue, so
are `TakeRequest` and `Manage`; time passes (`Tick`). In the rings, both threads are
scheduled. In the link layer `select` times out when nothing comes in between:
`GetPktForRetransmission` is weakly fair, and since the traffic of the model ends this says
nothing of timers under traffic that never pauses. Nothing is assumed of applications or
peers there: no packet is owed. In `apps` every program is scheduled (`Consumer`, `Start`,
`Serve`), a content under way arrives unless it is lost (`Arrive`), and the operator who
starts a photo producer registers its prefix (`AddRoute`); nothing is assumed of gpsd, of
restarts or of faults. `adapter` and `data` check safety only. Of the core only `PitDrains`
(`l3_hostile`, under `FairSpec`) needs fairness.

## 4. What is proved

Every theorem holds for all values of the constants that satisfy the named assumptions of
its module, which TLC evaluates in the runs. Beyond types and finiteness they say that a
null value is none of the things it stands for (`NullAssumption`, `PacketAssumption`,
`NonceAssumption`), that local faces, device faces, addresses and the NULL face are
different things (`FaceAssumption`), that names are closed under prefixes where the trie
makes a node for each (`NameAssumption` of `ContentStore`), that a table of descriptors has
more than four numbers (`AdapterAssumption`), that a position gpsd reports is one of the
globe (`ReportAssumption`), that the lines of the map files hold numbers (`MapAssumption`),
that an intersection is no wider than the band of latitudes the searches look at
(`GridAssumption`), and that names, nonces and payloads are bytes and a buffer is shorter
than 2^24 of them (`ExchangeAssumption`). The bounds on packets, faults and failures are
constants too, so nothing depends on how large they are. Conditions on the environment that
a theorem needs are its hypotheses.

### The forwarding core (`NDNL3ProtocolProofs`)

| Theorem | Statement |
|---|---|
| `TypeCorrect` | `Spec => []TypeOK` |
| `PitFacesAlwaysAttached` | `Spec => []PitFacesAttached` |
| `HubRequesterAlwaysKnown` | `Spec => []HubRequesterKnown` |
| `FlowAlwaysBalanced` | `Spec => []FlowBalance` |
| `PointersAlwaysSound` | if no application unregisters, `Spec => []PointersSound` |
| `RoutesAlwaysLive` | if applications linger until their messages are processed, or never leave, `Spec => []RoutesLive` |
| `NoncesForwardedOnce` | without nacks, `Spec => ForwardedOnce` |
| `FreshAlwaysAsked` | without nacks and unregistering, `Spec => FreshIsAsked` |
| `DeathHasAReason` | if applications stay until their messages are processed, or never leave, and do not unregister (`Orderly`), `Spec => []DiesForAReason` |
| `CoreIsExchange` | if no application unregisters, `Spec => ImplementsExchange` |

Typing comes first and is cited by everything else. `PitFacesAttached`,
`HubRequesterKnown` and `FlowBalance` are inductive together with it. `EntryStep` says once
what any step may do to one PIT entry, and the invariants follow from it. For `FlowBalance`
each action changes what is owed to a requester (a set of names) by at most what it
changes its credit, by the cardinality lemmas for adding or removing one name.

`PointersSound` needs two facts more (`RouteInv`): a FIB entry that is allocated has a face
(`RoutesInUse`), so that a freed one had just its last face removed, which is what
`Trimmed` looks for; and no message in the queue or in hand is an `unreg` (`OnlySelfreg`).
`RoutesLive` needs that the face of every message in the queue or in hand is still open
(`RequestsOpen`). Both hypotheses are needed: the run `l3_unregister` shows the first, and
an application that leaves right after registering (section 5) the second.

`NoncesForwardedOnce` and `FreshAlwaysAsked` come from one lemma (`AskingStep`): a step
either leaves an entry's nonces alone and asks nobody (`Idles`), or adds a nonce that was
not there and then asks somebody (`Asks`). That there is somebody to ask
(`SomebodyToAsk`) is `RouteInv`: a route that is found has a face, and without a route the
Interest is flooded to at least the face it came from.

`DeathHasAReason` has no hypothesis on packets, lengths of messages or topologies. While
there is no `Reason` no step is fatal: every face of a table is attached (`Known`, the
invariants above) and therefore open (no `Broken` connection), the green faces of a route
are faces of the route (`GreenInRoute`), the buffer holds no tail (no `TailFollows`), a
lookup finds something to stand on (no `EmptyLookup`), and without a hub or nacks beside a
radio (no `RadioMixed`) no cached packet lacks its metadata (`PlainStore`). While there is
one, a step that dies leaves it in place: what is fatal in a step does not change faces,
queue, buffer or cache, or breaks a connection. `Orderly` is needed for the pointers, as for
`PointersSound` and `RoutesLive`.

`CoreIsExchange` reads each action off the PIT (`Waits`): an Interest is `Ask` or
`AskAndAnswer`, a content that was asked for is `Answer`, everything else is `Forget`
(`QuietStep`). The Interest is not dropped on arrival because `GiveUpInterest` needs an
empty set of targets, which `SomebodyToAsk` excludes; so this theorem too rests on
`RouteInv`, but allows nacks, a full cache and departures at any moment.

### The content store (`ContentStoreProofs`, `SubsequenceLemmas`)

| Theorem | Statement |
|---|---|
| `StoreTypeCorrect` | `Spec => []TypeOK` |
| `ListFollowsTrie` | `Spec => []TrieMatchesList` |
| `TrieKeepsNoDeadBranch` | `Spec => []NoDeadBranches` |
| `StoreIsCache` | `Spec => ImplementsCache` |

The conjunction of the three invariants (`CacheInv`) is inductive. The work is in the trie:
prefixes form an order in which those of one name are comparable, `prune` climbs to the
deepest node that is still needed, and what it cuts has no packet below it. A limit of 0
(no limit, in the code) is included. An erased element leaves the list as `Kept` positions;
`KeptElements` (with `RankIsInjective` and `PositionHasRank`) says which elements remain,
once each and in order.

### The rings (`PktExchangeProofs`)

| Theorem | Statement |
|---|---|
| `RingTypeCorrect` | `Spec => []TypeOK` |
| `ReaderAlwaysFindsPacket` | `Spec => []ReaderFindsPacket` |
| `AnnouncementsAlwaysMatch` | `Spec => []EachAnnouncedOnce` |
| `SlotsAlwaysExclusive` | `Spec => []SlotExclusive` |
| `RingsAreChannels` | `Spec => ImplementsChannel` |

While the eventfds are open the slots in use are exactly those from the reader's index
up to the writer's, as many as there are announcements made, pending or in hand
(`Window`); whoever is inside a slot holds its semaphore (`Holding`). After the adapter
was destroyed this is lost, and what saves the properties is that the device never reads
again (`DeafAfterwards`). The refinement needs in addition that no slot holds a packet
newer than the newest offered (`Fresh`).

### The link-layer policy (`LLNomPolicyProofs`)

| Theorem | Statement |
|---|---|
| `TableTypeCorrect` | `Spec => []TypeOK` |
| `ChannelNotFlooded` | `Spec => []BroadcastsBounded` |
| `DaemonHearsWhatItLacks` | `Spec => []NothingHidden` |
| `NothingAskedTwice` | `Spec => []AnsweredNotAsked` |
| `InterestsGivenUpForAReason` | `Spec => InterestPersists` |

The inductive invariant adds that every packet of the table was offered by the daemon
(`Offered`), without which `NothingHidden` is not preserved, and that no two elements have
one name (`UniqueNames`, with `TypeOK` in `WellTyped`). The table is treated as a set
of elements of different names; inserting, erasing and moving to the end are lemmas.

### The device adapter and the map (`DeviceAdapterProofs`)

| Theorem | Statement |
|---|---|
| `SelectSeesAll` | `Spec => []WatchesAll` |
| `FirstAdapterKeepsToItself` | `Spec => []OwnDescriptors` |
| `NoStalePosition` | `Spec => []PositionIsReported` |
| `AdapterTypeCorrect` | `Spec => []TypeOK` |
| `MapAlwaysClosed` | `Spec => []MapClosed` |
| `AlwaysRightPlace` | `Spec => []RightPlace` |

`AdapterInv` follows the descriptors through all stages: a raw socket exists where `start`
uses it, `maxfd` covers what `select` watches except for a connection whose request is not
sent yet (`Covered`), the first adapter makes the first raw socket (`FirstSocket`), and the
loop is in `select` without gpsd only after it forgot its position (`Reported`).

The other three rest on `Located`: the map is the one that was loaded, and whenever there
is a position the element is what the search finds for it. What the loading and the search
do is the first part of the module, for files and maps of every length:

- *Loading.* `AddNode` and `AddEdge` keep a graph (`Loading`): the links in the list of a
  junction are those that end at it, once each. The list by latitude (`Sorted`) holds every
  junction and is sorted.
- *The junctions looked at.* `lowerBound` divides the list (`BoundDivides`), so every
  junction in the band that is not the southernmost, or not south of the point, is examined
  (`ExaminedJunctions`), and their links are (`LinksListed`). A junction outside the band is
  farther than the size of an intersection (`OutOfBandIsFar`).
- *The least distance.* Distances to streets are fractions, compared by
  cross-multiplication; that this is an order (`NotLessTransitive`) makes the first of the
  least the least (`FirstClosestIsClosest`).
- *The distance.* In one zone the case distinction on two scalar products and the area of a
  parallelogram give the distance to the segment (`SegmentDistance`), by Lagrange's
  identity; `TrueDistance` is defined without them.

Loops of the code are recursive functions of the number of rounds. An induction rule over an
operator cannot be cited here, but a minimal counterexample among the numbers of rounds can
be taken (`UpToInduction`), after a lemma for each function that its definition by recursion
has a value. The proof of `AlwaysRightPlace` failed at first for streets from a junction to
itself and for points on the longitude of 180 degrees; TLC confirms the first on a map with
such a street, and `RightPlace` now names both.

### The applications (`ApplicationsProofs`)

| Theorem | Statement |
|---|---|
| `ApplicationsTypeCorrect` | `Spec => []TypeOK` |
| `OnePhotoOfOneCar` | `Spec => []PhotoIntact` |
| `AnswersBelongToQuestions` | `Spec => AnswersAsked` |

`InStep` is the reason why a consumer that never looks at a name is right all the same:
while nothing is sent twice and no messages merge, at most one content waits for it, and
that is the answer to its last Interest. `PhotoSound` follows the photo: every content in a
store, on the air or in a socket is the chunk it is named for, of the car it is named for
(`TrafficGood`), every Interest that names a car asks for a chunk that car holds, and the
file is the beginning of the photo of the car the consumer asks on (`FileGood`). While no
producer restarts, the photos a producer holds never change (`StorageGood`), which makes all
this stable.

### The formats (`HeaderExchangeProofs`)

| Theorem | Statement |
|---|---|
| `InterestRead` | if the bytes of a packet begin with `SerializeInterest(h)`, `DeserializeInterest` returns `h` |
| `ContentRead` | the same of `SerializeContent` and `DeserializeContent` |
| `HeaderSurvives` | if what is said of foreign messages is so, `Spec => []RoundTrip` |
| `PayloadSurvives` | under the same hypothesis, `Spec => []PayloadFound` |

The first two are about the operators alone: every name (of non-empty components), every
choice of selectors and nonces, every lifetime of whole seconds below a minute, and
whatever follows in the packet. The argument goes the way of the bytes:

- *Sizes.* What is written of a number, a block or a field is as many bytes as the other
  function reckons (`EstimateBlockHeader` and the like), across the changes at 16 and 128
  and at every power of ten.
- *Reading.* Wherever these bytes are in a packet, `Marker` takes the number and the type
  from them, and `ParseBlock` makes the block of them and goes on right behind (`Begins`,
  `Reads`). The bytes of a header are those of ten optional fields, and the parse is the
  list of the trees of those that are there.
- *Visiting.* A visit takes the blocks one by one, and each adds its field to the header and
  disturbs no other (`Partial` is the header after so many fields).
- *Contents.* The parser stops in front of the payload (`Content` is the last block), so
  nothing in the payload can get into the header.
- *Whatever the bytes.* The parse of any packet ends, in a tree, in a failure or in the
  undefined outcome, and what is taken from it is typed.

`IInv` says of every message in the socket that a packet which begins with it is read as its
header (`Means`, in `GoodMessage`), that the packet at hand does begin with its message
unless that is the rest of one, and that `header` is what `GetHeader` makes of the packet. A
header that is read is proper again, so what `SendOn` writes is again a good message. An
Interest with another lifetime is no content for all that (`NoContent`): a packet that
begins with one must not be mistaken when it is sent on.

`ForeignAsSaid` is the hypothesis on messages that other programs write in their own way: if
`Foreign` says what is to be read in one (it may say nothing), then this is an Interest or
a failure, the message fits the buffer, and every packet that begins with it is read as
said. In the run `Foreign` says something of seven messages, and TLC reads them as said.

### Only model-checked

- The liveness properties `PitDrains`, `Responsive`, `StorageDrains`, `AnswerCompletes`:
  they need fairness and ENABLED.
- `CutRefused`. The lemmas are about packets that begin with a whole header; what the parser
  does at every position of a shorter one has no proof yet.
- What becomes of a packet that begins with a part of a header. `PayloadFound` leaves it
  out: nothing is the payload of a header completed by foreign bytes.
- `AnswersWithinName` has no run. A lookup that misses the name answers with the content of
  a shorter one (`CacheMatch`), so it does not hold.

## 5. Disagreements found

Four violation runs each show the code doing other than it says (`findings` of
`PROJECT.json` quotes the lines). Others have no run of their own: they are in the models,
excluded by a condition of the properties or one outcome of an action, or were met while
reading the code:

- *Management.* `GetFace` returns NULL for an application that left before its message was
  taken, and the prefix is registered for it (`daemon/ndn-management.cc:77`,
  `daemon/ndn-fib.cc:147`). The receive buffer keeps the tail of a longer message, with
  which a shorter one is no JSON; the exception ends the daemon
  (`daemon/ndn-management.cc:101`). `NDNL3Protocol` models both; `RegistersFace` and
  `RequestsTaken` state what fails.
- *Link layer.* The index of prefixes is unique too, so an Interest is dropped while a
  content of its name is pending, though names are tagged with the kind "to avoid
  conflicts" (`network/mac/packet-storage.h:171`, `:275`; run `link_conflict`). A content
  offered again while it is pending replaces the pending one, where
  `network/mac/ll-nom-policy.h:102` says it is discarded.
- *Forwarding.* `SatisfyPendingInterests` erases an entry at once where
  `handleDuplicateInterest` says it is kept a while (`daemon/ndn-l3-protocol.cc:262`,
  `:442`); the limit on retransmissions is not applied by flooding
  (`daemon/ndn-flooding-strategy.cc:79`, `daemon/pit/ndn-pit-entry.h:267`); FIB entries
  are deleted (`daemon/ndn-fib.cc:163`, `daemon/ndn-fib.h:269`).
- *Content store.* A content is not updated (`utils/trie.h:210`,
  `daemon/cs/ndn-content-store.h:129`, `daemon/ndn-l3-protocol.cc:488`; run `cs_update`); a
  lookup can answer with the content of a shorter name (`utils/trie-with-policy.h:133`,
  `:145`; `AnswersWithinName`); looking `/` up in an empty store follows NULL where a guard
  is announced (`utils/trie-with-policy.h:141`, `:147`; `LookupNull`).
- *Device adapter.* After its first failure the device thread dies again and again, where
  `startDeviceThread` means to keep an adapter running
  (`daemon/ndn-adhoc-net-device-face.cc:32`): the new adapter's eventfds are closed
  numbers. A replaced raw socket may be above `maxfd` and is then never read
  (`network/mac/ndn-device-adapter.cc:343`). What the buffer held before a failed read is
  handled as a packet (`:208`).
- *Map.* Every position is at distance 0 from a street that ends where it begins
  (`utils/geo/coordinate.cc:392`). The southernmost junction is never examined by the
  downward search (`utils/geo/map.cc:186`), the end of the list is dereferenced (`:155`),
  and a node far from any junction follows NULL (`utils/geo/location-service.cc:171`).
- *Formats.* `seconds()` is the seconds part of a duration, so that a lifetime of a minute
  or more is truncated (`helper/ndn-encoding-helper.cc:351`); the fraction's last byte is a
  signed character (`ccnb-parser-timestamp-visitor.cc:52`); an element that ends without
  content looks at the last member of an empty list (`ccnb-parser-dtag.cc:69`); an
  exception is made and not thrown (`ccnb-parser-block.cc:62`); a header of which the end is
  missing is completed by the bytes that follow it in the packet, such as a content whose
  payload begins with byte 0 (`ccnb-parser-dtag.cc:57`), and read as one; what the parser
  throws, and `GetName` of a header without a name, ends the daemon, which does not catch it
  (`daemon/ndn-l3-protocol.cc:179`, `Uncaught`); a header that grows by a
  Nack may not fit its buffer and aborts the program (`network/buffer.cc:50`);
  `m_childSelector` is not initialised in an Interest that a consumer sends
  (`apps/ndn-consumer.cc:55`).
- *Applications.* The photo producer registers `photo`, while photos are asked for under
  `photo-traffic` (`apps/photo-producer.cc:129`, `apps/photo-app.h:28`); the timer may be
  negative (`apps/photo-consumer.cc:124`); an error while a photo is read is retried for
  ever where the log says it is discarded (`apps/photo-producer.cc:260`); a chunk one past
  the end is sent from beyond the array (`apps/photo-producer.cc:299`).

## 6. Not modelled

- Data races finer than a call: the management thread may change the FIB in the middle of
  a handler. The model runs its two steps between handlers.
- Memory, libevent's events, and the exhaustion of descriptors outside the device thread.
- Partial and blocking writes on stream sockets; set-up of sockets.
- Floating point: rounding, the ellipsoid, the text of gpsd's reports beyond the cut of a
  report; east-north-up distances; the test tools `gpsd-util` and `fake-gps`.
- The layout of link headers and the filtering of foreign frames.
- Photos of no bytes: `photo-producer` writes a header into an array of none.
- Conversions of names to text in the log; logging; the smart-pointer library.
- Several nodes of a road together, and statistics. `LLNomPolicy` is one node among
  neighbours from which anything may be heard in any order, which includes all that other
  nodes with the same policy could send; properties of a whole road are not stated.

## 7. Plan

The modules planned are written, and the safety invariants, action properties and
refinements of the runs are proved except for those listed at the end of section 4. What is
left: a road of several nodes with the same policy, data races finer than a call, and the
parts section 6 names.
