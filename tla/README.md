# Distributed shopping list: TLA+ models and proofs

A verification project for the distributed shopping list in `src/`: a browser page,
a local client program with its own database, and a cloud of nodes in shards that
replicate lists to each other as state-based CRDTs. Paths below are relative to the
repository's source directory `src/` unless they start with `README.md`.

## 1. The system

### Components, their state and their operations

| Component | State | Operations | What makes it correct |
|---|---|---|---|
| PN-counter (`crdt/pn_counter.hpp`) | counts per origin, `pos` and `neg` | `increment`, `decrement`, `value`, `merge` | merge is a join; only an origin raises its own counts and nobody knows more of them than itself |
| Observed-remove set (`crdt/or_set.hpp`) | `elements`, `addSet`, `removeSet` | `add`, `remove`, `contains`, `values`, `merge`, `genTag` | an add is an event of its own, a removal hides only what its author has seen, merge is a join |
| Items and lists (`model/`) | a name and two counters; a name and a set of items | constructor, setters, `merge`; `add`, `update`, `remove`, `getItem`, `merge` | setting a quantity leads to it; a quantity is negative only if several origins lowered it |
| Client API (`client/api.cpp`) | the client's table of lists | create, get, add, update, remove, delete; `gossipState` | an edit is never lost; the reply that is merged is the one asked for; copies only grow |
| Client threads (`client/client.cpp`, `client/api.cpp`) | REQ socket, endpoint table, `socketMutex`, `shardMutex`, `dbMutex` | `sendCloudMessage`, `getShardEndpoint`, `updateCloudNodes`, `resetSocket` | no deadlock; a request goes to the endpoint drawn; there is always one to draw |
| Node, lists (`node/node.cpp`) | the node's table of lists, REP, PUSH and PULL sockets | `handle_client_frame`, `handle_gossip_frame`, `apply_message`, `eager_fanout`, `perform_shard_gossip` | lists stay on their shard; replicas converge whatever is lost |
| Node, membership (`node/node.cpp`) | `knownNodes`, `connectedShard`, `connectedDiscovery` | `update_known_nodes`, `perform_discovery_gossip`, `handle_discovery_frame`, `evict_dead_nodes` | live nodes meet and stay connected, dead ones go |
| Node lifecycle (`node/cluster.cpp`, `cluster.cpp`) | `running`, the loop thread | start, stop, add, remove, quit | stop ends, and stops one node only; sockets outlive the loop that uses them |
| Messages (`message/`) | none | constructors, msgpack | a message carries what its operation reads |
| Persistence (`persistence/sqlite_db.cpp`) | one table, a row per list | write, read, delete, `read_all`, batch operations | an operation is all or nothing |
| HTTP handler (`client/request_handler.cpp`) | none | one method per route | one request at a time |
| Web page (`web/app.js`) | `currentListId`, the form's `editUid` | load, create, delete a list; add, update, delete an item | the page shows the list it edits |

A client process has three threads: the HTTP thread (one, `client.cpp:28`), the gossip
thread (every 3 s) and the node-update thread (every 5 s). They share one REQ socket
under `socketMutex`. A node is one thread around a poll loop, and all nodes of a cluster are one process; its handlers run to the
end one after the other. A client asks any node of a list's shard; a node that took
an update sends its whole table three times to peers of its shard and again every
300 ms, and answers with the list as it came in. PUSH deals messages to connected
peers in turn and drops them when every queue is full. Every second, give or take a third,
a node evicts the peers that nobody has seen for a while and tells one other peer, the
next in turn, of all the nodes it knows. Deleting removes a row and
nothing remembers it.

What is hard here: edits at several clients, crossing each other and gossip at several
nodes; a working copy held across a network round trip and written back; requests that
time out and are carried out later; two threads on one socket; whole-table snapshots
that are lost, repeated and out of date; a client that dies between two steps; nodes
that come, go and come back while others pass on what they last heard of them; a page
that goes on with an answer after the user has moved on. The list of such places, each at its line, is `hazards` in `PROJECT.json`.

## 2. The modules

| Module | Models |
|---|---|
| `PNCounter` | `pn_counter.hpp`, and the 32-bit conversions of `shopping_item.cpp` (`Word` is 2^32) |
| `ShoppingItem` | `shopping_item.cpp` |
| `ORSet` | `or_set.hpp` for items |
| `ShoppingList` | `shopping_list.cpp`, and what the client's methods do to a list |
| `ObservedRemoveSet` | abstract specification: a set with unique add events and observed removals |
| `ListReplicas` | copies of one list at several origins, edited and merged in any order |
| `Replication` | clients, network and nodes: `api.cpp`, `node.cpp`, `message.cpp` |
| `ReplicationProperties` | properties and fairness of `Replication` |
| `MCListReplicas`, `MCReplication` | values for TLC |
| `MCDeletion` | `Replication` with a history of deletions |
| `Discovery` | membership in `node.cpp`, and the commands of `cluster.cpp` that add, stop and start nodes |
| `DiscoveryProperties` | properties and fairness of `Discovery` |
| `Hearsay` | `Discovery` with a record of where its timestamps come from |
| `ShardSync` | `Discovery` composed with what nodes store |
| `ClientThreads` | the threads and locks of `client.cpp` and `api.cpp` |
| `NodeLifecycle` | Node objects and their loop threads in one process |
| `WebPage` | `app.js` and the routes of `request_handler.cpp` as the page sees them |
| `MCDiscovery`, `MCShardSync`, `MCClientThreads`, `MCWebPage` | values for TLC |
| `ShoppingListProofs`, `ListReplicasProofs`, `ReplicationProofs`, `GrowthProofs`, `DiscoveryProofs`, `ClientThreadsProofs`, `NodeLifecycleProofs`, `WebPageProofs` | theorems |

`PNCounter` to `ShoppingList` have no variables: they are the operations as operators
on values, each module extending the one below it. Maps of the code are total functions,
with 0, `{}` or `NoItem` for a missing key; the code never stores an empty set of tags,
and reads a missing count as 0. `value()` sums 64-bit numbers and is not bounded here.
Differences and shown quantities keep the width they have in the code.

### Replication: state and actions

| Variable | Code |
|---|---|
| `db[n]`, `cdb[c]` | the `lists` table of a node, of a client |
| `channel[m][n]` | snapshots in the PUSH/PULL pipe from m to n |
| `http[c]` | local variables of the API method the HTTP thread is in: `send` before the socket is taken, `wait` between send and reply |
| `gossiper[c]` | the same for `gossipState`: the lists it read, and the shards still to be served |
| `wire`, `replies` | requests under way to a REP socket, replies under way back |
| `issued` | results of `createUID` |
| `clock` | the latest time `genTag` read |

An API method is three steps. The first (`CreateShoppingList`, `GetShoppingList`,
`AddItem`, `UpdateItem`, `RemoveItem`, `DeleteShoppingList`) reads the database and
makes the new list; create and delete also write. `HttpSend` takes the socket and sends.
`HttpReply` or `HttpTimeout` merges the answer, if it is a `LIST_RESPONSE`, and writes.
That is the granularity at which another thread, another client or a node can come in
between: the database is read without a lock and written under `dbMutex`, and the
gossip thread only reads it. A request that times out (`ResetSocket`) is lost, or stays
under way as one of nobody's (`Gone`) and may still be handled; its answer goes nowhere.
Identical abandoned requests are one element of `wire`.

A node's handlers are one action each: `HandleWrongShard`, `HandleGetList`,
`HandleUpdate` (apply, fan out and answer), `HandleGossipFrame`, `PerformShardGossip`.
The `WRONG_SHARD` answer is no msgpack message; the client's parser throws, so that it
counts as an answer without a list. `eager_fanout` sends three times in a row to at most
three different peers with room in their queues. A second copy of the same snapshot
right behind the first is left out: merging it changes nothing, which
`ListMergeIdempotent` and `ListMergeLub` in `ShoppingListProofs` show. A node that is
stopped is one that takes no steps, since nothing of its lists is in memory only;
`LoseGossip` loses what was queued for it. `CrashClient` ends a client in the middle of
its requests; its table survives.

Left out of `Replication`: the third client thread and the changes of the endpoint table,
which is the constant `Endpoints` (it may be wrong, see TwoShards) and has `ClientThreads`
for itself; `getHash`, which is the constant `ListShard`; membership, so that all nodes of
a shard stay connected (`ShardSync` has it); failures of SQLite; and the msgpack encoding.
A tag is a number of one clock for all clients. Tags are only
compared for equality, so what matters is whether two can be equal, and that is the
constant `SameMicrosecond`; a client's own tags of one item differ because a request
takes longer than a microsecond. `createUID` draws 32 of 62 characters and is taken not
to repeat itself.

### Discovery: state and actions

| Variable | Code |
|---|---|
| `up`, `contacts[n]` | `RunningNode::alive`, `cfg.initialPeers` of n |
| `known[n][p]` | the entry of p in `knownNodes` of n, `Unknown` if there is none |
| `connectedDiscovery[n]`, `connectedShard[n]` | the sets of that name |
| `dealing[n]` | the peers of `discoveryPushSock` in the order of their turns, and whose turn it is |
| `timer[n]` | time left to `nextDiscoveryGossipTs` |
| `pipe[n][p]` | node tables pushed by n that p has not received |

A timestamp is kept as its age, so that time passing makes entries older (`Tick`,
`MoveClock`) and ages that no eviction tells apart are one (`MaxAge`); this is what keeps
the state finite. There is one clock because all nodes run on one host. The unit of time is
a third of `discoveryIntervalMs`, which is the width of the jitter (`Interval = 3`), or more
(`Interval = 1`). A round is late by its poll, up to 100 ms, and by the handlers before it,
which is less than a unit: until the next `Tick` it may run at any point, after peers that are
due in the same unit have run theirs, stamped themselves and been heard. Rounds and messages
are not put off to a later unit (the guard of `Tick`), so that a model round is at most a
unit late. Messages in one pipe are merged into the freshest, as they would be when they are
received together.

`update_known_nodes` is `UpdateKnownNodes`; new peers take their turns after the old
ones, in any order. When a peer is disconnected, ZeroMQ moves others into the gap, and so
the order of the peers that stay is left open (`Disconnect` is a set of sockets). A round is `DiscoveryRound`: eviction, one message, timer. `AddNode`,
`StopNode`, `StartNode` are the commands: an added node gets the first live node of its
shard for a contact, a restarted node has the configuration it was made with. A stopped
node loses its table, its connections and, of what it was sent, any part. `Prompt` says
that the command loop is not waiting in a destructor: `ctx.close()` waits until what
the node has pushed is taken, which for a peer that is down is when it is started again,
but nobody can start it. `SetClockBack` sets the wall clock back, which makes every
age smaller and every timer longer. A node that is late for its round when that happens waits
for less than the step (`late`), as its round was due before the clock was set; it then evicts
while stamps that its peers made in between are still ahead of its clock, and the unsigned
difference (`node.cpp:332`, `Recent`) wraps. `Commanded` bounds the commands by kind and in all.

`Hearsay` adds two history variables that no step of `Discovery` reads: `heard[n][p]`, the age of
what p itself last told n, and `alive[p]`, the age of the last moment at which p ran or a node
that booted took it to (`node.cpp:90`). A table does not tell what a node knows from the peer and
what from others; these do.

`ShardSync` adds `stored[n]`, a set of facts that grows by requests (`WriteFact`) and by
gossip along `connectedShard` (`ShardGossip`), and keeps every action of `Discovery`. `SyncNext` lists them one by one, so that TLC
tells which of them a run takes. That
stores behave like growing sets is what `CopiesOnlyGrow` and `CloudConverges` say of
`Replication`; deletions are not in `ShardSync`. A snapshot is sent and merged in one
step. `SyncImplementsDiscovery` shows that the composition still behaves like `Discovery`.

### ClientThreads, NodeLifecycle and WebPage

`ClientThreads` has a step for each place where a thread can be held up: looking into the
table (`GetShardEndpoint`), taking it exclusively (`LockTable`), taking the socket and
sending (`SendCloudMessage`), the answer (`Reply`, `NodesResponse`) or its absence
(`RequestTimeout`). `socket` is what the REQ socket is connected to and whether it may send
or must receive. `updateCloudNodes` clears copies of the vectors (`api.cpp:275`), so that the
table only grows; an answer to GET_NODES has any nodes in it, with the one that answers.
`dbMutex` is held around single calls of SQLite, never with another lock, and is left out.

`NodeLifecycle` has the command loop's thread (`Stop`, `Shutdown`, `Join`, `Destroy`,
`Start`, `Quit`, `Return`) and one loop thread for each node (`ConnectPeer`, `EnterLoop`,
`CheckRunning`, `Poll`, `Work`). `process` is FALSE once an exception has left a thread, for
then the process ends with every node in it.

`WebPage` has an action for each event listener up to its `await` (`LoadList`,
`AddOrUpdate`, ...), one for the client program handling the request (`HandleRequest`), and
one for how the function goes on (`Select`, `Saved`, `Refreshed`, ...). A request is carried out
and answered, or refused with nothing written (`Refuse`), or carried out with its answer lost
(`Changed`): the client program ends, or the connection does, after the write and before
`response.send` (`request_handler.cpp:79-101`), and `fetch` fails. `lost` is a history variable:
the lists that were changed in this way and have not been asked for since. `calls[c]` holds the
function's local variables. `form` has the `editUid`, and which item the fields were filled
from. `hurried` is a history variable: whether the user has clicked while a call was under
way (`Click`). No other client edits the lists.

## 3. What TLC checks

| Run | Instance | Properties |
|---|---|---|
| `ListMerges` | 3 origins, 1 item, quantities 0 and 1, 3 distinct tags | `TypeOK`, `MergeIsJoin`, `WellFormed`, `OwnerAhead`, `UpdateTakesEffect`, `OneOriginStaysNatural`, `ImplementsObservedRemoveSet` |
| `ConcurrentEdits` | 2 clients, 2 nodes, 1 list; create, get, add, update; distinct tags | `TypeOK`, `CopiesWellFormed`, `OwnerAhead`, `CopiesOnlyGrow` |
| `TwoShards` | 1 client with both threads and crashes, a shard of 2 nodes and 2 lists and one of 1 node and 1 list, wrong table, 1 late request; create | `ShardPurity`, `ReplyForCurrentRequest` |
| `CloudConverges` | 1 client that edits in all ways, deletes and gossips, 2 nodes, fair | `CloudConverges` |
| `ClientsConverge` | 2 clients, 1 node, fair, users reload | `ClientsConverge` |
| `CatchUp` | 2 nodes of 2 shards, 1 added, 1 stop and 1 start or 1 clock step, 1 fact, fair | `TypeOK`, `ConnectionsMatch`, `SocketMatches`, `StoresOwnShard`, `StoresMeet`, `LiveNodesMeet`, `DeadPeersGo` |
| `ClientThreads` | 3 threads, 3 nodes that come and go, 2 shards, fair | `NoCircularWait`, `EndpointsNeverEmpty`, `SocketAsksReceiver`, `RequestsEnd` |
| `Lifecycle` | 3 nodes with 2 peers each; no deadlock check, as the program may quit | `TypeOK`, `LoopOwnsSockets` |
| `WebPage` | 2 lists, 2 items, 2 values, 2 calls at a time, any answer refused or lost | `TypeOK`, `ShownIsCurrent`, `ShownIsFresh`, `SavesWhatWasFilled` |

`Deletion`, `StopHangs` and `LivePeers` are expected to find a violation; see "Disagreements" below.

* `MergeIsJoin`: the order, repetition and route of merges do not matter. Names are not
  part of it: see "Disagreements" below.
* `ImplementsObservedRemoveSet`: with `SeenBar` and `KilledBar` (the pairs of item and tag
  in `addSet` and `removeSet`) every step of `ListReplicas` is a step of
  `ObservedRemoveSet` or changes nothing there. It needs distinct tags: with
  `SameMicrosecond = TRUE` two adds of one item at two origins may be one event, and a
  removal of the first hides the second. `genTag` has nothing of the origin in it, so the
  code rests on clocks never reading alike. The run assumes that away and says nothing of
  equal tags. `MergeIsJoin` and `WellFormed` do not need it.
* `OwnerAhead`: a PN-counter merged by maximum is right only while each origin goes on
  from its own latest counts. A client goes on from its working copy, which is ahead of
  its database while a request is under way. Deleting a list loses the client's own
  counts, so this property is not checked with deletions; nor does it survive a crash, and
  `ConcurrentEdits` has none. In `ListMerges`, without requests, it only says that edits raise
  their author's counts; what a client does with its copy over a round trip is in
  `ConcurrentEdits`.
* `UpdateTakesEffect`: setting a quantity leads to it whatever the other origins have
  counted, with one exception: a difference of INT32_MIN, half a word, is dropped, since its
  negation is no increase either. `Word` is 4 in `ListMerges`, so that this difference occurs.
* `OneOriginStaysNatural`: each origin leaves a sum that is not negative, and a copy that
  has an origin's decrements has the increments it saw as well. Two origins can still make
  the sum negative together (see below).
* `CopiesOnlyGrow`: write-back after a round trip, and snapshots in any order, never make
  a stored copy forget an add, a removal or a count; only a request to delete does. The run
  has no removals of items, to keep it small; the theorem has.
* `ShardPurity`: nodes check only `lists[0]` of a client's message, and gossip between nodes is
  not checked at all. It holds because the client's gossip has the lists of one shard in a
  message, whatever its table takes a node for, and nodes gossip only inside their shard. In the
  run the client's snapshot has two lists of one shard next to one of the other, and two nodes
  of that shard push their tables to each other.
* `ReplyForCurrentRequest`: replies are merged without a look at the uid. It holds because
  the socket has one request at a time and is replaced after a timeout.
* `CloudConverges`, `ClientsConverge`: eventual consistency (README.md:9). The content is
  the same everywhere in the end, whatever single messages are lost. For the first, deletions
  have to end at some time. A deletion is carried out by the one node that gets it and gossip does
  not tell of it; it does not leave the nodes apart, as the others give the list back.
* `ConnectionsMatch`, `SocketMatches`: the table, the two sets and the socket's peers are
  four records of the same thing, changed in two functions. If they part, a peer that comes
  back is not connected again, or a message goes nowhere.
* `LiveNodesMeet`: once the last command is given, the nodes that run know each other from
  some time on, whichever were restarted or added before. It is conditioned on `Introduced`:
  the contact of every added node keeps running (see below for what happens otherwise). A live
  peer that was evicted, because its stamp was ahead of a clock set back, is met again too.
  `DeadPeersGo`: once the last command is given, stale entries passed on from node to node,
  and a starting node's vouching for all its contacts, do not keep a dead peer known for ever.
* `StoresMeet`: what one node of a shard stores the others have in the end, also a node
  that joined later or was away. It needs `LiveNodesMeet` and the connections that come
  with it. `StoresOwnShard`: discovery tells nodes of both shards of each other, and lists
  follow within a shard only.
* `NoCircularWait`: of any set of threads one waits for none of them. `RequestsEnd`: every
  round ends though mutexes are unfair.
* `ShownIsCurrent`, `ShownIsFresh`: as long as the user has waited for every answer, the page
  shows what it edits and what the client program has, refusals included. The second makes an
  exception of a list that was changed by a request whose answer was lost: its old items stay
  shown until it is asked for again (see below). Neither says anything of a user in a hurry,
  who can break both. What such a user cannot break is `SavesWhatWasFilled`: the answer to an
  earlier save empties the form under the user's hands, editUid and fields together.

Bounds. One list and one item per instance where items do not interact (merge works uid by
uid), two lists where lists share a message. Two clients and two nodes are enough for an
edit to cross another edit and for a snapshot to overtake a request; a third origin is there
for associativity. Clock ticks bound the number of adds and updates to 2 or 3, which lets
both origins edit, or one edit twice. No run has equal tags; they are covered by the
theorems on merges, well-formedness, counts and growth, which hold for either value of
`SameMicrosecond`. Deletions that cross edits and gossip are in `Deletion`,
`CloudConverges` and in the theorems, which have every kind of request. In `TwoShards` two lists of a shard are
the fewest with which a message has one that is not looked at; its lists have no items, as where
a list is stored does not depend on them. `HighWaterMark` is 1, so that full
queues occur. `MaxLate` bounds abandoned requests; 1 is enough for a late answer to meet the
next request. `Word` is 4 or 16, so that quantities wrap within reach. Symmetry is used only in
runs without liveness properties. In `Discovery` three nodes are the fewest with which a
node has turns to deal and with which one node tells another of a third; a stop, a start and
an addition at any time let a node miss any part of what the others tell each other.
`CatchUp` has one fact, as
facts do not interact, an interval of 1 without jitter, a timeout of 3, and commands for a stop
and a start or for a clock step of one unit, which is more than a round is late (`MaxCommands`).
`LivePeers` has the numbers of `node/cluster.cpp` in units of a third of a second.
The three threads of `ClientThreads` are all
there are. In `NodeLifecycle` only one node at a time is being stopped, so that three nodes
are one that stops, one that boots and one that runs. Two calls at a time in `WebPage` are
enough for one answer to overtake another.

Fairness. `Fairness` asks for progress of the threads and timers of the code (`WF` for
timeouts and for the gossip timer, `SF` for the two threads that contend for the socket)
and for lossy links that are not dead for ever: `SF` on a node pushing to each peer
(PUSH deals in turn), on a node handling what a peer pushed, and on a node serving a
client. No user action is fair. `Reloading` adds that users load their lists again and
again and are not always cut off, which is the only way in which a client learns from the
cloud without editing. In `Discovery` the loops of running nodes and time go on (`WF`), and
no command is ever due; `MaxCommands` ends them. `ShardSync` adds `WF` on gossip to each connected peer, as PUSH
deals in turn. `ClientThreads` has `WF` on the timeout, which the socket's `rcvtimeo` sets
off, and `SF` on taking a lock: mutexes promise no order, but a thread sleeps for seconds
between two rounds, so that none is passed over for ever.

### Disagreements between the code and what is said about it

| Run | Property | What happens |
|---|---|---|
| `Deletion` | `DeletionIsFinal` | a node stores a deleted list again, from a snapshot pushed before the deletion; the page says "This cannot be undone." (`web/app.js:232`) |
| `LivePeers` | `LivePeersStay` | six nodes that nobody stops, with a timeout of five intervals (`node/cluster.cpp:28`, 48-49): a node tells one of its five peers in a round, and a round takes up to 4/3 of an interval. At its fourth round, 16/3 intervals after it started, a node evicts peers that run, against "in case some node is disconnected or added" (README.md:11) |
| `StopHangs` | `StopsEnd` | without a linger `ctx.close()` (`node.cpp:58`) waits for a peer that was stopped before to take a message, and the command loop with it (README.md:35) |

The following were met while modelling and have no run of their own. Each can be seen with
the instance named and the property stated there.

* Two origins lower a quantity from 1 to 0 at the same time; the sum is -1 and is shown as
  2^32 - 1 (`shopping_item.cpp:23`), where the form only admits `min="0"`
  (`web/index.html:36`). In `ListMerges`, `Value(...) >= 0` for all copies.
* An edit is sent before it is stored (`api.cpp:166`, 174); after a crash the cloud knows
  counts of the "local-first" client (README.md:7) that it does not know itself.
  `ConcurrentEdits` with `CrashClients = {c1}`: `OwnerAhead`.
* Nodes store a list under the empty name and never take over the real one (`node.cpp:201`,
  `shopping_list.cpp:70`), against "data consistency" (README.md:7). In `ConcurrentEdits`,
  equality of `name` in all copies stored.
* The name of an item is the one that arrived last (`shopping_item.cpp:56`); two nodes swap
  two names for ever, against "eventual consistency" (README.md:9). In `CloudConverges` with
  two names, `UserRequests <- Updates` and `GossipClients = {}`, that names are equal from
  some time on.
* A round that is late when the clock is set back finds stamps ahead of `now`, takes the
  wrapped difference for a long silence and evicts peers that run (`node.cpp:332`, README.md:11).
  `CatchUp` without stops and starts: `LivePeersStay`. They meet again: `LiveNodesMeet`.
* An added node whose contact (`cluster.cpp:177`) stops before it has passed it on is alone
  for ever (README.md:11). `CatchUp` with `LiveNodesMeet` without its condition `Introduced`.
* `update_known_nodes` before the `try` (`node.cpp:89`): a stop at that time throws out of the
  thread and ends all nodes (README.md:35). In `Lifecycle`, that `process` stays `TRUE`.
* The answer to a reload is shown next to a list that was selected since (`app.js:144`), under
  a heading that says which list items are added to (`web/index.html:30`). `WebPage`:
  `ShownIsCurrent` without `~ hurried`.
* An edit that was carried out and whose answer was lost is alerted as "Operation failed."
  (`app.js:177`) or "Delete failed." (`app.js:189`), next to the old items. `WebPage`:
  `ShownIsFresh` without `lost`. A user who then saves a new item again has it twice.
* The answer to a save empties the form, in which a user who does not wait may be editing another
  item by then (`app.js:173-174`); the edit is then saved as a new item under "Add / Update"
  (`web/index.html:41`). `WebPage`: `Saved` after `PopulateFormForEdit`.
* `editUid` outlives the list it was set for (`app.js:201`), and saving under the new list's
  heading fails (`web/index.html:30`). In `WebPage`, that a settled `form.editUid` is an item
  of the current list.

## 4. What TLAPS proves

For all values of the constants that satisfy the named assumptions (`OriginAssumption`,
`WordAssumption`, `QuantityAssumption`, `NoItemAssumption`, `BodyAssumption`,
`EmptyNameAssumption`, `NoListAssumption`, `ClockAssumption`, `ReplicationAssumption`,
`DiscoveryAssumption`, `ShardSyncAssumption`, `ClientThreadsAssumption`,
`NodeLifecycleAssumption`, `WebPageAssumption`), which every run of TLC evaluates for its own
values. They say what kind of thing a constant is, that there are finitely many origins and
that a word has an even number of values. A theorem that needs more says so in its statement.

* `ShoppingListProofs`: every operation of a counter, item, set and list keeps its type,
  only adds to what a copy knows, and keeps it well formed. `ListMerge` is a least upper
  bound of the order `ListLeq`, and commutative, associative and idempotent up to names.
  An edit raises only its author's own counts, and a merge knows of each origin what one of
  the two copies knew. `value()` is a fold over the origins. What the fold computes is found
  by a minimal counterexample among the subsets of the origins (`SmallestSubset`), which takes
  the place of an induction, and gives how a sum changes with one summand and that it is
  monotone. With remainders of a word, `SetQuantityShows` says exactly where a setter leads.
* `ListReplicasProofs`: `TypeCorrect`, `AlwaysWellFormed`, `MergeAlwaysJoins`: the
  invariants of `ListMerges` for any number of origins and items. `TypeOK` is inductive;
  well-formedness follows with the lemmas on each edit; `MergeIsJoin` follows from types
  alone.
  * `OwnersStayAhead`: `OwnerAhead`, from `Owned`, which says the same of the counters as a
    whole. An edit raises only its author's own counts (`SetQuantityOwn`), so it cannot
    overtake another origin, and a merge knows of every origin what one of the two copies
    knew (`MergedCounts`), which was behind the owner already.
  * `UpdatesAlwaysTakeEffect`: `UpdateTakesEffect`, from types and `SetQuantityShows`, for every
    even word size and all quantities.
  * `OneOriginAlwaysStaysNatural`: `OneOriginStaysNatural`, for quantities of 0 to INT32_MAX
    (`min="0"` in `web/index.html:36` and 39, and an `int` in the request handler). The invariant
    is `Natural` of every counter: if one origin only has decrements, the value is not negative.
    A setter lowers a value to a quantity at most, and a merge that has the decrements of one
    origin only has them from one of the two copies, and at least the increments of that copy.
  * `ListsImplementObservedRemoveSet`: `ImplementsObservedRemoveSet`, under the assumption
    `SameMicrosecond = FALSE`. The invariant is `TagsPast`: all tags held anywhere are of
    microseconds already past, so that the next tag is an event nobody knows. Then an add
    or update is `Add`, a removal is `Remove` of exactly the author's tags, and a merge is
    `Merge`.
* `ReplicationProofs`:
  * `TypeCorrect`: `TypeOK`, from `TypeInv`, which adds that a busy thread has the uid of
    a list.
  * `ShardsStayPure`: `ShardPurity`. It is not inductive: a snapshot or a request with
    lists of another shard would break it. `Placed` adds that what is queued from m to n
    is of the shard of both, and that the lists of one request are of one shard, so that
    a check of the first is a check of all. No assumption on `Endpoints` is needed.
  * `RepliesAlwaysMatch`: `ReplyForCurrentRequest`, from `RequestInv`: a client has one
    message under way at most, its threads do not wait at once (`OneAtATime`), and what is
    under way while the HTTP thread waits is about its list (`AboutHttp`). Requests are part
    of it, since a reply is about what was asked.
  * `CopiesStayWellFormed`: `CopiesWellFormed`, from `AllGood`. It says that every copy in
    a table, a thread, a request, a reply or a queue is well formed and holds only items
    that were handed out by `createUID`. The second part is why an add, which overwrites
    `elements`, never meets an existing element.
* `GrowthProofs`: `StoredCopiesOnlyGrow`: `CopiesOnlyGrow`, for any numbers of clients,
  nodes, lists and late requests. A client writes a whole list back after a round trip,
  so the property needs `ThreadAhead`: what the HTTP thread holds while its request is under
  way knows all that the client's table knows, which holds because no other thread writes
  that table. `AllGood` is needed so that a create or an add overwrites nothing.
  `ClientsStayAhead`: `OwnerAhead` of `Replication`, as long as users delete no list
  (`"delete" \notin UserRequests`) and no client dies (`CrashClients = {}`), without which the
  code does not have the property (see section 3). `AllBehind` says that every copy in a
  table, a thread, a request, a reply or a queue knows no more of an origin's counts than
  that origin's working copy, which is the one its HTTP thread holds, or else the one it
  has stored. `ThreadStores` says that a thread under way ends by storing what it holds, so
  that the working copy does not fall back when the request ends.
* `DiscoveryProofs`:
  * `ConnectionsAlwaysMatch`: `ConnectionsMatch`, from `MatchInv`, which adds types, and
    `Apart`: a node that is down knows nobody, and nobody is a contact of its own (a node
    would connect to itself if it booted from such a configuration).
  * `SocketsAlwaysMatch`: `SocketMatches`. `SocketInv` says of every node that the turns of its
    socket name each connected peer once and nobody else, and that the next turn is one of
    them; connects append what is new, disconnects leave the rest in some order.
  * `MembershipTypeCorrect`: `TypeOK`, from `SocketInv` (the next turn is an index into the peers of
    a socket) and `AgeInv` (ages stay in the range that is kept).
  * `DeadPeersAlwaysAge`: an eviction keeps only peers that ran, or that a node which booted took
    to run, within the timeout. Nodes that tell each other of a dead peer do not make it younger,
    in any network, with any commands and clock steps. The invariant `AliveInv` says that no
    entry in a table or a pipe is fresher than the last sign of life of that node
    (`NoLater`); what is forwarded, merged or left in a pipe keeps to it, and both move with the
    clock. It is the safety half of `DeadPeersGo`.
  * `OwnWordAlwaysCounts`: a node evicts only peers from which it has itself heard nothing within
    the timeout, or whose stamp is ahead of a clock set back. The invariant `HeardInv` says that
    the table is never older than the peer's own word (`Trusts`), since older news from others
    does not replace it. It does not say that a live peer is heard of in time, which depends on
    the number of nodes and is false for `node/cluster.cpp`.
  * `HearsayImplementsDiscovery`: the record of `Hearsay`, of which these two speak, only watches.
    TLC agrees, on the instance of `CatchUp` without facts, in a check that is not one of the runs.
  * `ShardsStayApart`: `StoresOwnShard`, from `ConnectionsAlwaysMatch` (gossip goes to
    `connectedShard` only, which is within the shard). `SyncImplementsDiscovery`: every step of
    the composition is a step of `Discovery` or leaves it unchanged.
* `ClientThreadsProofs`: `ThreadsNeverDeadlock`, `EndpointsAlwaysDrawn` and
  `SocketAlwaysAsksReceiver`. `LocksMatch` tells from where the threads are who holds which
  lock: a thread that holds the socket waits for no lock, and one that holds the table waits
  for the socket at most, which is the order that rules out a ring. `TableFull` and
  `SocketInv` carry the other two.
* `NodeLifecycleProofs`: `LoopAlwaysOwnsSockets`: `LoopOwnsSockets`. `Owned` says that a loop
  thread which is alive has its flag set or is being joined, `Stopping` and `FlagHasObject`
  that the object is there in both cases. `TypeCorrect`: `TypeOK`.
* `WebPageProofs`:
  * `TypeCorrect`: `TypeOK`, from `TypeInv`, which says of each kind of call what list, item
    and answer it has.
  * `FieldsGoWhereTheyBelong`: `SavesWhatWasFilled`, for every order of clicks and answers, from
    `FormInv`: `editUid` and the fields are filled and emptied together.
  * `PatientUserSeesCurrentList` and `PatientUserSeesFreshItems`: `ShownIsCurrent` and
    `ShownIsFresh`, from `PatientInv`. While nobody has clicked during a call there is one call
    (`OneCall`), the list it will show is the current one (`PageMatches`), its answer is what the
    client program still has (`AnswersFresh`), and what is shown is fresh, or will be
    refreshed by that call, or is a list of `lost`.

Not proved: the liveness properties (`CloudConverges`, `ClientsConverge`, `LiveNodesMeet`,
`DeadPeersGo`, `StoresMeet`, `RequestsEnd`), as liveness under fairness is beyond the prover.
`OwnerAhead` with deletions or crashes is false, and so is not a theorem.

## 5. Not modelled, and the plan

Not modelled:

* SQLite, which is nearly all of the source tree's lines and is used through a few
  prepared statements, and failures of it. `write_many`, `read_many`, `delete_many` and
  `get_all_list_ids` of `SqliteDb` have no caller.
* The data race on `randomEngine` (`api.cpp:46`): a draw is a free choice, which covers every
  value but no broken state of the engine. The growth of the endpoint vectors by duplicates
  (`api.cpp:284`): the table is a set.
* msgpack, JSON, CORS, status codes beyond success and failure, and the layout of the page.
* Frames that are no message at a node (`node.cpp:134`): no program of the repository sends
  one.
* Snapshots in `ShardSync` that are late or partial: they are in `Replication`, where
  membership is constant.
* Nodes on machines with clocks of their own: `make_config` gives every node the same host.

What is left of the plan: `Replication` as an implementation of a grow-only store of facts,
which would make `ShardSync` an abstraction by proof.
