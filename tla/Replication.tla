----------------------------- MODULE Replication -----------------------------
(***************************************************************************)
(* Shopping lists replicated between local clients and the nodes of the    *)
(* cloud: client/api.cpp on one side, the list part of node/node.cpp on    *)
(* the other, message/message.cpp and the ZeroMQ sockets in between.       *)
(*                                                                         *)
(* A client runs one HTTP thread, which serves one request at a time, and  *)
(* one gossip thread; they share the REQ socket under socketMutex.  A node *)
(* is a single-threaded loop, so each of its handlers is one step.  A node *)
(* that is stopped is a node that takes no steps; what was queued for it   *)
(* may be lost (LoseGossip).                                               *)
(***************************************************************************)
EXTENDS ShoppingList, Sequences

CONSTANTS
  Node,             \* the replicas of all shards
  ListUid,          \* uids createUID may hand out for lists
  Shard,
  NodeShard,        \* NodeShard[n]: cfg.shardId of node n
  ListShard,        \* ListShard[l]: getHash(l) % number of shards
  Endpoints,        \* Endpoints[s]: nodes a client takes to serve shard s
  Gone,             \* the sender of a request whose socket was closed
  NoUid,            \* no list: the uid of an idle thread
  UserRequests,     \* bound: kinds of requests the users send
  GossipClients,    \* bound: clients whose gossip timer fires
  CrashClients,     \* bound: clients that may crash and restart
  HighWaterMark,    \* bound: messages queued per pair of nodes (1000 in ZeroMQ)
  MaxLate,          \* bound: abandoned requests still under way
  MaxClock,         \* bound: microseconds at which tags are made
  SameMicrosecond   \* whether two clients may make a tag in one microsecond

Client == Origin

RequestKind == {"create", "get", "add", "update", "remove", "delete"}

ASSUME ReplicationAssumption ==
  /\ NodeShard \in [Node -> Shard]
  /\ ListShard \in [ListUid -> Shard]
  /\ Endpoints \in [Shard -> SUBSET Node]
  /\ Gone \notin Client /\ NoUid \notin ListUid
  /\ UserRequests \subseteq RequestKind
  /\ GossipClients \subseteq Client /\ CrashClients \subseteq Client
  /\ HighWaterMark \in Nat \ {0} /\ MaxLate \in Nat /\ MaxClock \in Nat
  /\ SameMicrosecond \in BOOLEAN

VARIABLES
  db,        \* db[n]: the lists table of node n
  channel,   \* channel[m][n]: snapshots pushed by m that n has not pulled
  cdb,       \* cdb[c]: the lists table of client c
  http,      \* http[c]: the request the HTTP thread of c works on
  gossiper,  \* gossiper[c]: the round the gossip thread of c is in
  wire,      \* requests under way to, or queued at, a node
  replies,   \* replies under way to the client that waits for them
  issued,    \* uids handed out by createUID so far
  clock      \* system_clock at the latest genTag() of any client

nodeVars   == <<db, channel>>
clientVars == <<cdb, http, gossiper>>
netVars    == <<wire, replies>>
vars       == <<db, channel, cdb, http, gossiper, wire, replies, issued, clock>>

-----------------------------------------------------------------------------
(* Stores and messages.                                                    *)

(* A lists table: at most one row per uid.                                 *)
Store == [ListUid -> List \cup {NoList}]

EmptyStore == [l \in ListUid |-> NoList]

Stored(store) == {l \in ListUid : store[l] # NoList}

(* A message that carries the one list lst under uid l.                    *)
Single(l, lst) == [EmptyStore EXCEPT ![l] = lst]

RequestOp == {"ENSURE_LIST", "DELETE_LIST", "GET_LIST", "GOSSIP_LISTS"}

Message == [op : RequestOp, lists : Store]

ReplyOp == {"LIST_RESPONSE", "NO_LIST_RESPONSE", "WRONG_SHARD"}

Request == [client : Client \cup {Gone}, node : Node, msg : Message]

Reply == [client : Client, op : ReplyOp, uid : ListUid, lst : List]

HttpThread ==
  [pc : {"idle", "send", "wait"}, kind : RequestKind,
   uid : ListUid \cup {NoUid}, lst : List \cup {NoList}]

HttpIdle == [pc |-> "idle", kind |-> "get", uid |-> NoUid, lst |-> NoList]

GossipThread ==
  [pc : {"idle", "send", "wait"}, lists : Store, left : SUBSET Shard]

GossipIdle == [pc |-> "idle", lists |-> EmptyStore, left |-> {}]

TypeOK ==
  /\ db \in [Node -> Store]
  /\ channel \in [Node -> [Node -> Seq(Store)]]
  /\ cdb \in [Client -> Store]
  /\ http \in [Client -> HttpThread]
  /\ gossiper \in [Client -> GossipThread]
  /\ wire \subseteq Request
  /\ replies \subseteq Reply
  /\ issued \subseteq ListUid \cup ItemUid
  /\ clock \in 0 .. MaxClock

Init ==
  /\ db = [n \in Node |-> EmptyStore]
  /\ channel = [m \in Node |-> [n \in Node |-> <<>>]]
  /\ cdb = [c \in Client |-> EmptyStore]
  /\ http = [c \in Client |-> HttpIdle]
  /\ gossiper = [c \in Client |-> GossipIdle]
  /\ wire = {}
  /\ replies = {}
  /\ issued = {}
  /\ clock = 0

-----------------------------------------------------------------------------
(* The HTTP thread of a client, up to the message it sends to the cloud.   *)

(* The HTTP thread starts on a request of the given kind: it holds lst, its*)
(* working copy of list l, and goes on to send.                            *)
Begin(c, kind, l, lst) ==
  /\ kind \in UserRequests
  /\ http[c].pc = "idle"
  /\ http' = [http EXCEPT ![c] =
                [pc |-> "send", kind |-> kind, uid |-> l, lst |-> lst]]

(* ORSet::genTag at client c, tagging item i of its working copy of list l;*)
(* what the copy holds of the item was tagged in an earlier microsecond.   *)
GenTag(c, l, i, tag) ==
  /\ tag = clock + 1 \/ (SameMicrosecond /\ tag = clock)
  /\ \A t \in cdb[c][l].items.addSet[i] : t < tag
  /\ clock' = tag

CreateShoppingList(c, name) ==
  \E l \in ListUid \ issued :
    /\ Begin(c, "create", l, NewList(name))
    /\ cdb' = [cdb EXCEPT ![c][l] = NewList(name)]
    /\ issued' = issued \cup {l}
    /\ UNCHANGED <<gossiper, netVars, nodeVars, clock>>

(* The user types or keeps the uid of a list that was created somewhere.   *)
GetShoppingList(c, l) ==
  /\ l \in issued
  /\ Begin(c, "get", l, cdb[c][l])
  /\ UNCHANGED <<cdb, gossiper, netVars, nodeVars, issued, clock>>

AddItem(c, l, body) ==
  /\ cdb[c][l] # NoList
  /\ \E i \in ItemUid \ issued, tag \in 1 .. MaxClock :
       /\ CanAdd(cdb[c][l], i)
       /\ GenTag(c, l, i, tag)
       /\ Begin(c, "add", l, ListAdd(cdb[c][l], i, c, body, tag))
       /\ issued' = issued \cup {i}
  /\ UNCHANGED <<cdb, gossiper, netVars, nodeVars>>

UpdateItem(c, l, i, body) ==
  /\ cdb[c][l] # NoList
  /\ HasItem(cdb[c][l], i)
  /\ \E tag \in 1 .. MaxClock :
       /\ GenTag(c, l, i, tag)
       /\ Begin(c, "update", l, ListUpdate(cdb[c][l], i, c, body, tag))
  /\ UNCHANGED <<cdb, gossiper, netVars, nodeVars, issued>>

RemoveItem(c, l, i) ==
  /\ cdb[c][l] # NoList
  /\ HasItem(cdb[c][l], i)
  /\ Begin(c, "remove", l, ListRemove(cdb[c][l], i))
  /\ UNCHANGED <<cdb, gossiper, netVars, nodeVars, issued, clock>>

DeleteShoppingList(c, l) ==
  /\ l \in issued
  /\ Begin(c, "delete", l, NoList)
  /\ cdb' = [cdb EXCEPT ![c][l] = NoList]
  /\ UNCHANGED <<gossiper, netVars, nodeVars, issued, clock>>

-----------------------------------------------------------------------------
(* The REQ socket: sendCloudMessage under socketMutex.                     *)

(* A thread holds the socket from its send to its reply or its timeout.    *)
SocketBusy(c) == http[c].pc = "wait" \/ gossiper[c].pc = "wait"

(* getShardEndpoint picks any endpoint of the shard; then connect and send.*)
SendCloudMessage(c, shard, msg) ==
  /\ ~ SocketBusy(c)
  /\ \E n \in Endpoints[shard] :
       wire' = wire \cup {[client |-> c, node |-> n, msg |-> msg]}
  /\ UNCHANGED replies

(* A timeout that keeps the socket open, so that a late answer to the old  *)
(* request is still received on it.                                        *)
MutResetSocketKeepsSocket(c) == UNCHANGED <<wire, replies>>

(***************************************************************************)
(* resetSocket, or the client's end: the socket is closed with linger 0 and*)
(* a new one opened.  A request not yet handled is lost or is still handled*)
(* later on, an answer to it goes nowhere.                                 *)
(***************************************************************************)
ResetSocket(c) ==
  LET pending == {r \in wire : r.client = c}
      late    == {[r EXCEPT !.client = Gone] : r \in pending}
      others  == wire \ pending
  IN  /\ \/ wire' = others
         \/ /\ Cardinality({r \in others : r.client = Gone}) < MaxLate
            /\ wire' = others \cup late
      /\ replies' = {p \in replies : p.client # c}

TakeReply(c, p) ==
  /\ p \in replies /\ p.client = c
  /\ replies' = replies \ {p}
  /\ UNCHANGED wire

-----------------------------------------------------------------------------
(* The HTTP thread of a client, from the message it sends to its end.      *)

(* ensure_list, get_list and delete_list as the API's methods build them.  *)
CloudMessage(t) ==
  CASE t.kind = "get" ->
         [op |-> "GET_LIST", lists |-> Single(t.uid, NewList(EmptyName))]
    [] t.kind = "delete" ->
         [op |-> "DELETE_LIST", lists |-> Single(t.uid, NewList(EmptyName))]
    [] OTHER ->
         [op |-> "ENSURE_LIST", lists |-> Single(t.uid, t.lst)]

HttpSend(c) ==
  /\ http[c].pc = "send"
  /\ SendCloudMessage(c, ListShard[http[c].uid], CloudMessage(http[c]))
  /\ http' = [http EXCEPT ![c].pc = "wait"]
  /\ UNCHANGED <<cdb, gossiper, nodeVars, issued, clock>>

(* A get that trusts the cloud's copy over the local one.                  *)
MutMergedWithReplyPrefersCloud(lst, cloud) ==
  IF cloud = NoList THEN lst ELSE cloud

(* A method that keeps what it has when it has anything.                   *)
MutMergedWithReplyKeepsLocal(lst, cloud) ==
  IF lst = NoList THEN cloud ELSE lst

(* The list a method returns: its working copy joined with the cloud's     *)
(* list, or the one that exists.                                           *)
MergedWithReply(lst, cloud) ==
  CASE cloud = NoList -> lst
    [] cloud # NoList /\ lst = NoList -> cloud
    [] OTHER -> ListMerge(lst, cloud)

(* A method that gives up its edit when the cloud does not answer.         *)
MutFinishHttpOnlyOnReply(c, cloud) ==
  LET t   == http[c]
      lst == MergedWithReply(t.lst, cloud)
  IN  /\ cdb' = IF t.kind \in {"create", "delete"} \/ lst = NoList
                   \/ (t.kind # "get" /\ cloud = NoList)
                THEN cdb ELSE [cdb EXCEPT ![c][t.uid] = lst]
      /\ http' = [http EXCEPT ![c] = HttpIdle]

(***************************************************************************)
(* The end of an API method, cloud being the list of a LIST_RESPONSE and   *)
(* NoList after any other reply, a timeout or an exception.  create and    *)
(* delete have written before they sent; a get that found no list throws.  *)
(***************************************************************************)
FinishHttp(c, cloud) ==
  LET t   == http[c]
      lst == MergedWithReply(t.lst, cloud)
  IN  /\ cdb' = IF t.kind \in {"create", "delete"} \/ lst = NoList
                THEN cdb ELSE [cdb EXCEPT ![c][t.uid] = lst]
      /\ http' = [http EXCEPT ![c] = HttpIdle]

HttpReply(c) ==
  /\ http[c].pc = "wait"
  /\ \E p \in replies :
       /\ TakeReply(c, p)
       /\ FinishHttp(c, IF p.op = "LIST_RESPONSE" THEN p.lst ELSE NoList)
  /\ UNCHANGED <<gossiper, nodeVars, issued, clock>>

HttpTimeout(c) ==
  /\ http[c].pc = "wait"
  /\ ResetSocket(c)
  /\ FinishHttp(c, NoList)
  /\ UNCHANGED <<gossiper, nodeVars, issued, clock>>

-----------------------------------------------------------------------------
(* The gossip thread of a client: gossipState.                             *)

GossipRead(c) ==
  /\ c \in GossipClients
  /\ gossiper[c].pc = "idle"
  /\ Stored(cdb[c]) # {}
  /\ gossiper' = [gossiper EXCEPT ![c] =
                    [pc    |-> "send",
                     lists |-> cdb[c],
                     left  |-> {ListShard[l] : l \in Stored(cdb[c])}]]
  /\ UNCHANGED <<cdb, http, netVars, nodeVars, issued, clock>>

(* A message with the lists of all shards, sent to each of them.           *)
MutShardListsOfAll(store, shard) == store

(* The lists of one shard, which travel in one message.                    *)
ShardLists(store, shard) ==
  [l \in ListUid |-> IF ListShard[l] = shard THEN store[l] ELSE NoList]

GossipSend(c) ==
  /\ gossiper[c].pc = "send"
  /\ \E shard \in gossiper[c].left :
       /\ SendCloudMessage(c, shard,
            [op    |-> "GOSSIP_LISTS",
             lists |-> ShardLists(gossiper[c].lists, shard)])
       /\ gossiper' = [gossiper EXCEPT ![c].pc = "wait",
                                       ![c].left = @ \ {shard}]
  /\ UNCHANGED <<cdb, http, nodeVars, issued, clock>>

FinishGossip(c) ==
  gossiper' = [gossiper EXCEPT ![c] =
                 IF @.left = {} THEN GossipIdle ELSE [@ EXCEPT !.pc = "send"]]

GossipReply(c) ==
  /\ gossiper[c].pc = "wait"
  /\ \E p \in replies : TakeReply(c, p)
  /\ FinishGossip(c)
  /\ UNCHANGED <<cdb, http, nodeVars, issued, clock>>

GossipTimeout(c) ==
  /\ gossiper[c].pc = "wait"
  /\ ResetSocket(c)
  /\ FinishGossip(c)
  /\ UNCHANGED <<cdb, http, nodeVars, issued, clock>>

(* The client process ends and is started again on its database.           *)
CrashClient(c) ==
  /\ c \in CrashClients
  /\ http[c].pc # "idle" \/ gossiper[c].pc # "idle"
  /\ ResetSocket(c)
  /\ http' = [http EXCEPT ![c] = HttpIdle]
  /\ gossiper' = [gossiper EXCEPT ![c] = GossipIdle]
  /\ UNCHANGED <<cdb, nodeVars, issued, clock>>

-----------------------------------------------------------------------------
(* The nodes: apply_message, the two kinds of gossip, the frame handlers.  *)

(* existingList.merge(incomingList), for a row that may not exist yet.     *)
Received(existing, incoming) ==
  ListMerge(IF existing = NoList THEN NewList(EmptyName) ELSE existing, incoming)

(* Storing what arrives without merging it.                                *)
MutApplyMessageOverwrites(store, msg) ==
  CASE msg.op \in {"ENSURE_LIST", "GOSSIP_LISTS"} ->
         [l \in ListUid |->
            IF msg.lists[l] = NoList THEN store[l] ELSE msg.lists[l]]
    [] msg.op = "DELETE_LIST" ->
         [l \in ListUid |-> IF msg.lists[l] = NoList THEN store[l] ELSE NoList]
    [] OTHER -> store

ApplyMessage(store, msg) ==
  CASE msg.op \in {"ENSURE_LIST", "GOSSIP_LISTS"} ->
         [l \in ListUid |->
            IF msg.lists[l] = NoList THEN store[l]
                                     ELSE Received(store[l], msg.lists[l])]
    [] msg.op = "DELETE_LIST" ->
         [l \in ListUid |-> IF msg.lists[l] = NoList THEN store[l] ELSE NoList]
    [] OTHER -> store

(* The peers the gossip PUSH socket is connected to.                       *)
ConnectedShard(n) == {m \in Node \ {n} : NodeShard[m] = NodeShard[n]}

(* Peers whose queue has room; dontwait fails with EAGAIN when none has.   *)
GossipTargets(n) ==
  {m \in ConnectedShard(n) : Len(channel[n][m]) < HighWaterMark}

Push(n, peers, snapshot) ==
  channel' = [channel EXCEPT ![n] =
    [m \in Node |-> IF m \in peers THEN Append(@[m], snapshot) ELSE @[m]]]

(***************************************************************************)
(* eager_fanout: three gossip sends in a row, which the PUSH socket deals  *)
(* out to its peers in turn.  A second copy of the same snapshot right     *)
(* behind the first one changes nothing and is left out.                   *)
(***************************************************************************)
EagerFanout(n, snapshot) ==
  LET targets == GossipTargets(n)
  IN  \E peers \in SUBSET targets :
        /\ Cardinality(peers) = Min({3, Cardinality(targets)})
        /\ Push(n, peers, snapshot)

PerformShardGossip(n) ==
  /\ \E m \in GossipTargets(n) : Push(n, {m}, db[n])
  /\ UNCHANGED <<db, clientVars, netVars, issued, clock>>

(* r is the next frame on the REP socket of n, l its lists[0].             *)
ClientFrame(n, r, l) ==
  /\ r \in wire /\ r.node = n
  /\ l \in Stored(r.msg.lists)

(* REP sends the answer to where the request came from.                    *)
Answer(r, op, l, lst) ==
  /\ wire' = wire \ {r}
  /\ replies' =
       IF r.client = Gone THEN replies
       ELSE replies \cup {[client |-> r.client, op |-> op, uid |-> l, lst |-> lst]}

RightShard(n, l) == ListShard[l] = NodeShard[n]

HandleWrongShard(n) ==
  /\ \E r \in wire, l \in ListUid :
       /\ ClientFrame(n, r, l)
       /\ ~ RightShard(n, l)
       /\ Answer(r, "WRONG_SHARD", l, NewList(EmptyName))
  /\ UNCHANGED <<nodeVars, clientVars, issued, clock>>

HandleGetList(n) ==
  /\ \E r \in wire, l \in ListUid :
       /\ ClientFrame(n, r, l)
       /\ RightShard(n, l)
       /\ r.msg.op = "GET_LIST"
       /\ IF db[n][l] # NoList
          THEN Answer(r, "LIST_RESPONSE", l, db[n][l])
          ELSE Answer(r, "NO_LIST_RESPONSE", l, NewList(EmptyName))
  /\ UNCHANGED <<nodeVars, clientVars, issued, clock>>

(* A list-changing request: apply, fan out, and answer with lists[0] as it *)
(* came in.                                                                *)
HandleUpdate(n) ==
  /\ \E r \in wire, l \in ListUid :
       /\ ClientFrame(n, r, l)
       /\ RightShard(n, l)
       /\ r.msg.op # "GET_LIST"
       /\ db' = [db EXCEPT ![n] = ApplyMessage(@, r.msg)]
       /\ EagerFanout(n, db'[n])
       /\ Answer(r, IF r.msg.op = "DELETE_LIST" THEN "NO_LIST_RESPONSE"
                                                ELSE "LIST_RESPONSE",
                 l, r.msg.lists[l])
  /\ UNCHANGED <<clientVars, issued, clock>>

Pull(m, n) ==
  /\ channel[m][n] # <<>>
  /\ channel' = [channel EXCEPT ![m][n] = Tail(@)]

HandleGossipFrame(m, n) ==
  /\ Pull(m, n)
  /\ db' = [db EXCEPT ![n] = ApplyMessage(@, [op    |-> "GOSSIP_LISTS",
                                              lists |-> Head(channel[m][n])])]
  /\ UNCHANGED <<clientVars, netVars, issued, clock>>

(* A snapshot lost with a stopped node or a closed connection.             *)
LoseGossip(m, n) ==
  /\ Pull(m, n)
  /\ UNCHANGED <<db, clientVars, netVars, issued, clock>>

-----------------------------------------------------------------------------

UserStep(c) ==
  \/ \E name \in ListName \ {EmptyName} : CreateShoppingList(c, name)
  \/ \E l \in ListUid :
       \/ GetShoppingList(c, l)
       \/ DeleteShoppingList(c, l)
       \/ \E body \in Body : AddItem(c, l, body)
       \/ \E i \in ItemUid, body \in Body : UpdateItem(c, l, i, body)
       \/ \E i \in ItemUid : RemoveItem(c, l, i)

ClientStep(c) ==
  \/ HttpSend(c) \/ HttpReply(c) \/ HttpTimeout(c)
  \/ GossipRead(c) \/ GossipSend(c) \/ GossipReply(c) \/ GossipTimeout(c)
  \/ CrashClient(c)

NodeStep(n) ==
  \/ HandleWrongShard(n) \/ HandleGetList(n) \/ HandleUpdate(n)
  \/ PerformShardGossip(n)
  \/ \E m \in Node : HandleGossipFrame(m, n) \/ LoseGossip(m, n)

Next ==
  \/ \E c \in Client : UserStep(c) \/ ClientStep(c)
  \/ \E n \in Node : NodeStep(n)

Spec == Init /\ [][Next]_vars

=============================================================================
