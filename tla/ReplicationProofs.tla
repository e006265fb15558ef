--------------------------- MODULE ReplicationProofs ---------------------------
(***************************************************************************)
(* Theorems about Replication, for any number of clients, nodes, shards,   *)
(* lists, items and messages under way, with crashes, timeouts, late       *)
(* requests and lost messages.                                             *)
(***************************************************************************)
EXTENDS ReplicationProperties, ShoppingListProofs, FiniteSetTheorems

-----------------------------------------------------------------------------
(* Type correctness.  A thread that is busy has the uid of a list.         *)

ThreadUid == \A c \in Client : http[c].pc # "idle" => http[c].uid \in ListUid

TypeInv == TypeOK /\ ThreadUid

LEMMA EmptyStoreType == EmptyStore \in Store
BY DEF EmptyStore, Store

LEMMA SingleType ==
  ASSUME NEW l \in ListUid, NEW lst \in List \cup {NoList}
  PROVE  Single(l, lst) \in Store
BY DEF Single, EmptyStore, Store

LEMMA ApplyMessageType ==
  ASSUME NEW store \in Store, NEW msg, msg.lists \in Store
  PROVE  ApplyMessage(store, msg) \in Store
<1>1. \A l \in ListUid : /\ store[l] \in List \cup {NoList}
                         /\ msg.lists[l] \in List \cup {NoList}
  BY DEF Store
<1>2. \A l \in ListUid :
        msg.lists[l] # NoList => Received(store[l], msg.lists[l]) \in List
  BY <1>1, EmptyNameAssumption, NewListType, ListMergeType DEF Received
<1>3. CASE msg.op \in {"ENSURE_LIST", "GOSSIP_LISTS"}
  <2>1. ApplyMessage(store, msg) =
          [l \in ListUid |-> IF msg.lists[l] = NoList THEN store[l]
                             ELSE Received(store[l], msg.lists[l])]
    BY <1>3 DEF ApplyMessage
  <2> QED
    BY <1>1, <1>2, <2>1 DEF Store
<1>4. CASE msg.op = "DELETE_LIST"
  <2>1. ApplyMessage(store, msg) =
          [l \in ListUid |-> IF msg.lists[l] = NoList THEN store[l] ELSE NoList]
    BY <1>4 DEF ApplyMessage
  <2> QED
    BY <1>1, <2>1 DEF Store
<1>5. CASE msg.op \notin {"ENSURE_LIST", "GOSSIP_LISTS", "DELETE_LIST"}
  BY <1>5 DEF ApplyMessage
<1> QED
  BY <1>3, <1>4, <1>5

LEMMA MergedWithReplyType ==
  ASSUME NEW lst \in List \cup {NoList}, NEW cloud \in List \cup {NoList}
  PROVE  MergedWithReply(lst, cloud) \in List \cup {NoList}
<1>1. CASE cloud = NoList
  BY <1>1 DEF MergedWithReply
<1>2. CASE cloud # NoList /\ lst = NoList
  BY <1>2 DEF MergedWithReply
<1>3. CASE cloud # NoList /\ lst # NoList
  <2>1. MergedWithReply(lst, cloud) = ListMerge(lst, cloud)
    BY <1>3 DEF MergedWithReply
  <2> QED
    BY <1>3, <2>1, ListMergeType
<1> QED
  BY <1>1, <1>2, <1>3

LEMMA CloudMessageType ==
  ASSUME NEW t \in HttpThread, t.uid \in ListUid
  PROVE  CloudMessage(t) \in Message
<1>1. NewList(EmptyName) \in List
  BY EmptyNameAssumption, NewListType
<1>2. t.lst \in List \cup {NoList}
  BY DEF HttpThread
<1>3. CASE t.kind = "get"
  BY <1>1, <1>3, SingleType DEF CloudMessage, Message, RequestOp
<1>4. CASE t.kind = "delete"
  BY <1>1, <1>4, SingleType DEF CloudMessage, Message, RequestOp
<1>5. CASE t.kind \notin {"get", "delete"}
  BY <1>2, <1>5, SingleType DEF CloudMessage, Message, RequestOp
<1> QED
  BY <1>3, <1>4, <1>5

(* What the steps of the network do to requests and replies.               *)
LEMMA SendType ==
  ASSUME wire \subseteq Request, replies \subseteq Reply, NEW c \in Client,
         NEW shard \in Shard, NEW msg \in Message, SendCloudMessage(c, shard, msg)
  PROVE  wire' \subseteq Request /\ replies' \subseteq Reply
BY ReplicationAssumption DEF SendCloudMessage, Request

LEMMA ResetType ==
  ASSUME wire \subseteq Request, replies \subseteq Reply, NEW c \in Client, ResetSocket(c)
  PROVE  wire' \subseteq Request /\ replies' \subseteq Reply
<1>1. \A r \in wire : [r EXCEPT !.client = Gone] \in Request
  BY DEF Request
<1> QED
  BY <1>1 DEF ResetSocket

LEMMA AnswerType ==
  ASSUME wire \subseteq Request, replies \subseteq Reply, NEW r \in wire,
         NEW op \in ReplyOp, NEW l \in ListUid, NEW lst \in List, Answer(r, op, l, lst)
  PROVE  wire' \subseteq Request /\ replies' \subseteq Reply
<1>1. r.client # Gone => [client |-> r.client, op |-> op, uid |-> l, lst |-> lst] \in Reply
  BY DEF Request, Reply
<1> QED
  BY <1>1 DEF Answer

LEMMA PushType ==
  ASSUME channel \in [Node -> [Node -> Seq(Store)]], NEW n \in Node, NEW peers,
         NEW snapshot \in Store, Push(n, peers, snapshot)
  PROVE  channel' \in [Node -> [Node -> Seq(Store)]]
<1>1. \A m \in Node : channel[n][m] \in Seq(Store) /\ Append(channel[n][m], snapshot) \in Seq(Store)
  BY DEF Push
<1>2. [m \in Node |-> IF m \in peers THEN Append(channel[n][m], snapshot)
                                      ELSE channel[n][m]] \in [Node -> Seq(Store)]
  BY <1>1
<1> QED
  BY <1>2 DEF Push

LEMMA PullType ==
  ASSUME channel \in [Node -> [Node -> Seq(Store)]], NEW m \in Node, NEW n \in Node, Pull(m, n)
  PROVE  /\ channel' \in [Node -> [Node -> Seq(Store)]]
         /\ Head(channel[m][n]) \in Store
<1>1. channel[m][n] \in Seq(Store) /\ channel[m][n] # <<>>
  BY DEF Pull
<1>2. Head(channel[m][n]) \in Store /\ Tail(channel[m][n]) \in Seq(Store)
  BY <1>1
<1> QED
  BY <1>2 DEF Pull

LEMMA FinishHttpType ==
  ASSUME TypeInv, NEW c \in Client, http[c].pc # "idle",
         NEW cloud \in List \cup {NoList}, FinishHttp(c, cloud)
  PROVE  /\ cdb' \in [Client -> Store]
         /\ http' \in [Client -> HttpThread]
         /\ ThreadUid'
<1> DEFINE t == http[c]
           lst == MergedWithReply(t.lst, cloud)
<1>1. /\ t \in HttpThread /\ t.uid \in ListUid /\ t.lst \in List \cup {NoList}
      /\ cdb \in [Client -> Store] /\ http \in [Client -> HttpThread]
  BY DEF TypeInv, TypeOK, ThreadUid, HttpThread
<1>2. lst \in List \cup {NoList}
  BY <1>1, MergedWithReplyType
<1>3. HttpIdle \in HttpThread
  BY DEF HttpIdle, HttpThread, RequestKind
<1>4. cdb' \in [Client -> Store]
  <2>1. \/ cdb' = cdb
        \/ cdb' = [cdb EXCEPT ![c][t.uid] = lst]
    BY DEF FinishHttp
  <2> HIDE DEF lst
  <2> QED
    BY <1>1, <1>2, <2>1 DEF Store
<1>5. http' = [http EXCEPT ![c] = HttpIdle]
  BY DEF FinishHttp
<1>6. ThreadUid'
  BY <1>1, <1>5 DEF TypeInv, ThreadUid, HttpIdle
<1> QED
  BY <1>1, <1>3, <1>4, <1>5, <1>6

LEMMA BeginType ==
  ASSUME TypeInv, NEW c \in Client, NEW kind \in RequestKind, NEW l \in ListUid,
         NEW lst \in List \cup {NoList}, Begin(c, kind, l, lst)
  PROVE  http' \in [Client -> HttpThread] /\ ThreadUid'
<1>1. [pc |-> "send", kind |-> kind, uid |-> l, lst |-> lst] \in HttpThread
  BY DEF HttpThread
<1> QED
  BY <1>1 DEF Begin, TypeInv, TypeOK, ThreadUid

-----------------------------------------------------------------------------

LEMMA TypeInvInit == Init => TypeInv
<1> SUFFICES ASSUME Init
             PROVE  TypeInv
  OBVIOUS
<1>1. HttpIdle \in HttpThread /\ GossipIdle \in GossipThread
  BY EmptyStoreType DEF HttpIdle, HttpThread, GossipIdle, GossipThread, RequestKind
<1>2. channel \in [Node -> [Node -> Seq(Store)]]
  BY DEF Init
<1> QED
  BY <1>1, <1>2, EmptyStoreType, ReplicationAssumption
     DEF Init, TypeInv, TypeOK, ThreadUid, HttpIdle

LEMMA TypeInvUser ==
  ASSUME TypeInv, NEW c \in Client, UserStep(c)
  PROVE  TypeInv'
<1>0. /\ cdb \in [Client -> Store] /\ clock \in 0 .. MaxClock
      /\ \A l \in ListUid : cdb[c][l] \in List \cup {NoList}
  BY DEF TypeInv, TypeOK, Store
<1>1. ASSUME NEW name \in ListName, CreateShoppingList(c, name)
      PROVE  TypeInv'
  <2>1. PICK l \in ListUid \ issued :
          /\ Begin(c, "create", l, NewList(name))
          /\ cdb' = [cdb EXCEPT ![c][l] = NewList(name)]
          /\ issued' = issued \cup {l}
    BY <1>1 DEF CreateShoppingList
  <2>2. NewList(name) \in List
    BY NewListType
  <2>3. http' \in [Client -> HttpThread] /\ ThreadUid'
    BY <2>1, <2>2, BeginType DEF RequestKind
  <2>4. cdb' \in [Client -> Store]
    BY <1>0, <2>1, <2>2 DEF Store
  <2> QED
    BY <1>1, <2>1, <2>3, <2>4
       DEF CreateShoppingList, TypeInv, TypeOK, netVars, nodeVars
<1>2. ASSUME NEW l \in ListUid, GetShoppingList(c, l)
      PROVE  TypeInv'
  <2>1. http' \in [Client -> HttpThread] /\ ThreadUid'
    BY <1>0, <1>2, BeginType DEF GetShoppingList, RequestKind
  <2> QED
    BY <1>2, <2>1 DEF GetShoppingList, TypeInv, TypeOK, netVars, nodeVars
<1>3. ASSUME NEW l \in ListUid, DeleteShoppingList(c, l)
      PROVE  TypeInv'
  <2>1. http' \in [Client -> HttpThread] /\ ThreadUid'
    BY <1>3, BeginType DEF DeleteShoppingList, RequestKind
  <2>2. cdb' \in [Client -> Store]
    BY <1>0, <1>3 DEF DeleteShoppingList, Store
  <2> QED
    BY <1>3, <2>1, <2>2 DEF DeleteShoppingList, TypeInv, TypeOK, netVars, nodeVars
<1>4. ASSUME NEW l \in ListUid, NEW body \in Body, AddItem(c, l, body)
      PROVE  TypeInv'
  <2>1. PICK i \in ItemUid \ issued, tag \in 1 .. MaxClock :
          /\ GenTag(c, l, i, tag)
          /\ Begin(c, "add", l, ListAdd(cdb[c][l], i, c, body, tag))
          /\ issued' = issued \cup {i}
    BY <1>4 DEF AddItem
  <2>2. tag \in Tag /\ clock' \in 0 .. MaxClock
    BY <2>1, ReplicationAssumption DEF GenTag, Tag
  <2>3. cdb[c][l] \in List
    BY <1>0, <1>4 DEF AddItem
  <2>4. ListAdd(cdb[c][l], i, c, body, tag) \in List
    BY <2>2, <2>3, ListAddIsList DEF Client
  <2>5. http' \in [Client -> HttpThread] /\ ThreadUid'
    BY <2>1, <2>4, BeginType DEF RequestKind
  <2> QED
    BY <1>4, <2>1, <2>2, <2>5 DEF AddItem, TypeInv, TypeOK, netVars, nodeVars
<1>5. ASSUME NEW l \in ListUid, NEW i \in ItemUid, NEW body \in Body, UpdateItem(c, l, i, body)
      PROVE  TypeInv'
  <2>1. PICK tag \in 1 .. MaxClock :
          /\ GenTag(c, l, i, tag)
          /\ Begin(c, "update", l, ListUpdate(cdb[c][l], i, c, body, tag))
    BY <1>5 DEF UpdateItem
  <2>2. tag \in Tag /\ clock' \in 0 .. MaxClock
    BY <2>1, ReplicationAssumption DEF GenTag, Tag
  <2>3. cdb[c][l] \in List /\ HasItem(cdb[c][l], i)
    BY <1>0, <1>5 DEF UpdateItem
  <2>4. ListUpdate(cdb[c][l], i, c, body, tag) \in List
    BY <2>2, <2>3, ListUpdateType DEF Client
  <2>5. http' \in [Client -> HttpThread] /\ ThreadUid'
    BY <2>1, <2>4, BeginType DEF RequestKind
  <2> QED
    BY <1>5, <2>1, <2>2, <2>5 DEF UpdateItem, TypeInv, TypeOK, netVars, nodeVars
<1>6. ASSUME NEW l \in ListUid, NEW i \in ItemUid, RemoveItem(c, l, i)
      PROVE  TypeInv'
  <2>1. cdb[c][l] \in List
    BY <1>0, <1>6 DEF RemoveItem
  <2>2. ListRemove(cdb[c][l], i) \in List
    BY <2>1, ListRemoveType
  <2>3. http' \in [Client -> HttpThread] /\ ThreadUid'
    BY <1>6, <2>2, BeginType DEF RemoveItem, RequestKind
  <2> QED
    BY <1>6, <2>3 DEF RemoveItem, TypeInv, TypeOK, netVars, nodeVars
<1> QED
  BY <1>1, <1>2, <1>3, <1>4, <1>5, <1>6 DEF UserStep

LEMMA GossipThreadType ==
  ASSUME gossiper \in [Client -> GossipThread], NEW c \in Client, FinishGossip(c)
  PROVE  gossiper' \in [Client -> GossipThread]
<1>1. GossipIdle \in GossipThread
  BY EmptyStoreType DEF GossipIdle, GossipThread
<1>2. [gossiper[c] EXCEPT !.pc = "send"] \in GossipThread
  BY DEF GossipThread
<1> QED
  BY <1>1, <1>2 DEF FinishGossip

LEMMA ShardListsType ==
  ASSUME NEW store \in Store, NEW shard
  PROVE  ShardLists(store, shard) \in Store
BY DEF ShardLists, Store

LEMMA TypeInvClient ==
  ASSUME TypeInv, NEW c \in Client, ClientStep(c)
  PROVE  TypeInv'
<1>0. /\ cdb \in [Client -> Store] /\ http \in [Client -> HttpThread]
      /\ gossiper \in [Client -> GossipThread]
      /\ wire \subseteq Request /\ replies \subseteq Reply
      /\ http[c].pc # "idle" => http[c].uid \in ListUid
      /\ \A p \in Reply : p.lst \in List
  BY DEF TypeInv, TypeOK, ThreadUid, Reply
<1>1. CASE HttpSend(c)
  <2>1. http[c].uid \in ListUid /\ http[c] \in HttpThread
    BY <1>0, <1>1 DEF HttpSend
  <2>2. CloudMessage(http[c]) \in Message /\ ListShard[http[c].uid] \in Shard
    BY <2>1, CloudMessageType, ReplicationAssumption
  <2>3. wire' \subseteq Request /\ replies' \subseteq Reply
    BY <1>0, <1>1, <2>2, SendType DEF HttpSend
  <2>4. http' \in [Client -> HttpThread] /\ ThreadUid'
    <3>1. http' = [http EXCEPT ![c].pc = "wait"] /\ http[c].pc = "send"
      BY <1>1 DEF HttpSend
    <3>2. [http[c] EXCEPT !.pc = "wait"] \in HttpThread
      BY <2>1 DEF HttpThread
    <3> QED
      BY <1>0, <2>1, <3>1, <3>2 DEF TypeInv, ThreadUid
  <2> QED
    BY <1>1, <2>3, <2>4 DEF HttpSend, TypeInv, TypeOK, nodeVars
<1>2. CASE HttpReply(c)
  <2>1. PICK p \in replies :
          /\ TakeReply(c, p)
          /\ FinishHttp(c, IF p.op = "LIST_RESPONSE" THEN p.lst ELSE NoList)
    BY <1>2 DEF HttpReply
  <2>2. (IF p.op = "LIST_RESPONSE" THEN p.lst ELSE NoList) \in List \cup {NoList}
    BY <1>0
  <2>3. http[c].pc # "idle"
    BY <1>2 DEF HttpReply
  <2>4. cdb' \in [Client -> Store] /\ http' \in [Client -> HttpThread] /\ ThreadUid'
    BY <2>1, <2>2, <2>3, FinishHttpType
  <2>5. wire' \subseteq Request /\ replies' \subseteq Reply
    BY <1>0, <2>1 DEF TakeReply
  <2> QED
    BY <1>2, <2>4, <2>5 DEF HttpReply, TypeInv, TypeOK, nodeVars
<1>3. CASE HttpTimeout(c)
  <2>1. http[c].pc # "idle"
    BY <1>3 DEF HttpTimeout
  <2>2. cdb' \in [Client -> Store] /\ http' \in [Client -> HttpThread] /\ ThreadUid'
    BY <1>3, <2>1, FinishHttpType DEF HttpTimeout
  <2>3. wire' \subseteq Request /\ replies' \subseteq Reply
    BY <1>0, <1>3, ResetType DEF HttpTimeout
  <2> QED
    BY <1>3, <2>2, <2>3 DEF HttpTimeout, TypeInv, TypeOK, nodeVars
<1>4. CASE GossipRead(c)
  <2>1. [pc |-> "send", lists |-> cdb[c],
         left |-> {ListShard[l] : l \in Stored(cdb[c])}] \in GossipThread
    BY <1>0, ReplicationAssumption DEF GossipThread, Stored
  <2>2. gossiper' \in [Client -> GossipThread]
    BY <1>0, <1>4, <2>1 DEF GossipRead
  <2> QED
    BY <1>4, <2>2 DEF GossipRead, TypeInv, TypeOK, ThreadUid, netVars, nodeVars
<1>5. CASE GossipSend(c)
  <2>1. PICK shard \in gossiper[c].left :
          /\ SendCloudMessage(c, shard,
               [op    |-> "GOSSIP_LISTS",
                lists |-> ShardLists(gossiper[c].lists, shard)])
          /\ gossiper' = [gossiper EXCEPT ![c].pc = "wait", ![c].left = @ \ {shard}]
    BY <1>5 DEF GossipSend
  <2>2. shard \in Shard /\ gossiper[c].lists \in Store
    BY <1>0 DEF GossipThread
  <2>3. [op |-> "GOSSIP_LISTS", lists |-> ShardLists(gossiper[c].lists, shard)] \in Message
    BY <2>2, ShardListsType DEF Message, RequestOp
  <2>4. wire' \subseteq Request /\ replies' \subseteq Reply
    BY <1>0, <2>1, <2>2, <2>3, SendType
  <2>5. gossiper' \in [Client -> GossipThread]
    BY <1>0, <2>1 DEF GossipThread
  <2> QED
    BY <1>5, <2>4, <2>5 DEF GossipSend, TypeInv, TypeOK, ThreadUid, nodeVars
<1>6. CASE GossipReply(c)
  <2>1. wire' \subseteq Request /\ replies' \subseteq Reply
    BY <1>0, <1>6 DEF GossipReply, TakeReply
  <2>2. gossiper' \in [Client -> GossipThread]
    BY <1>0, <1>6, GossipThreadType DEF GossipReply
  <2> QED
    BY <1>6, <2>1, <2>2 DEF GossipReply, TypeInv, TypeOK, ThreadUid, nodeVars
<1>7. CASE GossipTimeout(c)
  <2>1. wire' \subseteq Request /\ replies' \subseteq Reply
    BY <1>0, <1>7, ResetType DEF GossipTimeout
  <2>2. gossiper' \in [Client -> GossipThread]
    BY <1>0, <1>7, GossipThreadType DEF GossipTimeout
  <2> QED
    BY <1>7, <2>1, <2>2 DEF GossipTimeout, TypeInv, TypeOK, ThreadUid, nodeVars
<1>8. CASE CrashClient(c)
  <2>1. wire' \subseteq Request /\ replies' \subseteq Reply
    BY <1>0, <1>8, ResetType DEF CrashClient
  <2>2. HttpIdle \in HttpThread /\ GossipIdle \in GossipThread
    BY EmptyStoreType DEF HttpIdle, HttpThread, GossipIdle, GossipThread, RequestKind
  <2>3. /\ http' \in [Client -> HttpThread] /\ gossiper' \in [Client -> GossipThread]
        /\ ThreadUid'
    BY <1>0, <1>8, <2>2 DEF CrashClient, TypeInv, ThreadUid, HttpIdle
  <2> QED
    BY <1>8, <2>1, <2>3 DEF CrashClient, TypeInv, TypeOK, nodeVars
<1> QED
  BY <1>1, <1>2, <1>3, <1>4, <1>5, <1>6, <1>7, <1>8 DEF ClientStep

LEMMA ClientFrameType ==
  ASSUME TypeInv, NEW n \in Node, NEW r, NEW l \in ListUid, ClientFrame(n, r, l)
  PROVE  /\ r \in wire /\ r \in Request /\ r.msg \in Message /\ r.msg.lists \in Store
         /\ r.msg.lists[l] \in List
BY DEF TypeInv, TypeOK, ClientFrame, Request, Message, Stored, Store

LEMMA TypeInvNode ==
  ASSUME TypeInv, NEW n \in Node, NodeStep(n)
  PROVE  TypeInv'
<1>0. /\ db \in [Node -> Store] /\ channel \in [Node -> [Node -> Seq(Store)]]
      /\ wire \subseteq Request /\ replies \subseteq Reply
      /\ NewList(EmptyName) \in List
  BY EmptyNameAssumption, NewListType DEF TypeInv, TypeOK
<1>1. CASE HandleWrongShard(n)
  <2>1. PICK r \in wire, l \in ListUid :
          ClientFrame(n, r, l) /\ Answer(r, "WRONG_SHARD", l, NewList(EmptyName))
    BY <1>1 DEF HandleWrongShard
  <2>2. wire' \subseteq Request /\ replies' \subseteq Reply
    BY <1>0, <2>1, AnswerType DEF ReplyOp
  <2> QED
    BY <1>1, <2>2 DEF HandleWrongShard, TypeInv, TypeOK, ThreadUid, nodeVars, clientVars
<1>2. CASE HandleGetList(n)
  <2>1. PICK r \in wire, l \in ListUid :
          IF db[n][l] # NoList THEN Answer(r, "LIST_RESPONSE", l, db[n][l])
                               ELSE Answer(r, "NO_LIST_RESPONSE", l, NewList(EmptyName))
    BY <1>2 DEF HandleGetList
  <2>2. db[n][l] \in List \cup {NoList}
    BY <1>0 DEF Store
  <2>3. wire' \subseteq Request /\ replies' \subseteq Reply
    BY <1>0, <2>1, <2>2, AnswerType DEF ReplyOp
  <2> QED
    BY <1>2, <2>3 DEF HandleGetList, TypeInv, TypeOK, ThreadUid, nodeVars, clientVars
<1>3. CASE HandleUpdate(n)
  <2>1. PICK r \in wire, l \in ListUid :
          /\ ClientFrame(n, r, l)
          /\ db' = [db EXCEPT ![n] = ApplyMessage(@, r.msg)]
          /\ EagerFanout(n, db'[n])
          /\ Answer(r, IF r.msg.op = "DELETE_LIST" THEN "NO_LIST_RESPONSE"
                                                   ELSE "LIST_RESPONSE",
                    l, r.msg.lists[l])
    BY <1>3 DEF HandleUpdate
  <2>2. r.msg.lists \in Store /\ r.msg.lists[l] \in List
    BY <2>1, ClientFrameType
  <2>3. ApplyMessage(db[n], r.msg) \in Store
    BY <1>0, <2>2, ApplyMessageType
  <2>4. db' \in [Node -> Store] /\ db'[n] \in Store
    BY <1>0, <2>1, <2>3
  <2>5. channel' \in [Node -> [Node -> Seq(Store)]]
    BY <1>0, <2>1, <2>4, PushType DEF EagerFanout
  <2>6. wire' \subseteq Request /\ replies' \subseteq Reply
    BY <1>0, <2>1, <2>2, AnswerType DEF ReplyOp
  <2> QED
    BY <1>3, <2>4, <2>5, <2>6 DEF HandleUpdate, TypeInv, TypeOK, ThreadUid, clientVars
<1>4. CASE PerformShardGossip(n)
  <2>1. channel' \in [Node -> [Node -> Seq(Store)]]
    BY <1>0, <1>4, PushType DEF PerformShardGossip
  <2> QED
    BY <1>4, <2>1 DEF PerformShardGossip, TypeInv, TypeOK, ThreadUid, clientVars, netVars
<1>5. ASSUME NEW m \in Node, HandleGossipFrame(m, n)
      PROVE  TypeInv'
  <2>1. /\ channel' \in [Node -> [Node -> Seq(Store)]]
        /\ Head(channel[m][n]) \in Store
    BY <1>0, <1>5, PullType DEF HandleGossipFrame
  <2> DEFINE gm == [op |-> "GOSSIP_LISTS", lists |-> Head(channel[m][n])]
  <2>2. ApplyMessage(db[n], gm) \in Store
    BY <1>0, <2>1, ApplyMessageType
  <2>3. db' \in [Node -> Store]
    BY <1>0, <1>5, <2>2 DEF HandleGossipFrame
  <2> QED
    BY <1>5, <2>1, <2>3 DEF HandleGossipFrame, TypeInv, TypeOK, ThreadUid, clientVars, netVars
<1>6. ASSUME NEW m \in Node, LoseGossip(m, n)
      PROVE  TypeInv'
  <2>1. channel' \in [Node -> [Node -> Seq(Store)]]
    BY <1>0, <1>6, PullType DEF LoseGossip
  <2> QED
    BY <1>6, <2>1 DEF LoseGossip, TypeInv, TypeOK, ThreadUid, clientVars, netVars
<1> QED
  BY <1>1, <1>2, <1>3, <1>4, <1>5, <1>6 DEF NodeStep

LEMMA TypeInvNext == TypeInv /\ [Next]_vars => TypeInv'
<1> SUFFICES ASSUME TypeInv, [Next]_vars
             PROVE  TypeInv'
  OBVIOUS
<1>1. CASE UNCHANGED vars
  BY <1>1 DEF TypeInv, TypeOK, ThreadUid, vars
<1>2. CASE Next
  BY <1>2, TypeInvUser, TypeInvClient, TypeInvNode DEF Next
<1> QED
  BY <1>1, <1>2

LEMMA TypeInvHolds == Spec => []TypeInv
BY TypeInvInit, TypeInvNext, PTL DEF Spec

(* The databases, threads, messages and channels of all clients and nodes  *)
(* always hold what the code's types say.                                  *)
THEOREM TypeCorrect == Spec => []TypeOK
<1>1. TypeInv => TypeOK
  BY DEF TypeInv
<1> QED
  BY <1>1, TypeInvHolds, PTL

-----------------------------------------------------------------------------
(* What the steps add to the channels and to the requests under way.       *)

Queued(m, n) == {channel[m][n][k] : k \in DOMAIN channel[m][n]}

LEMMA PushContents ==
  ASSUME channel \in [Node -> [Node -> Seq(Store)]], NEW n \in Node,
         NEW peers \in SUBSET Node, NEW snapshot \in Store, Push(n, peers, snapshot),
         NEW x \in Node, NEW y \in Node, NEW s \in Queued(x, y)'
  PROVE  s \in Queued(x, y) \/ (x = n /\ y \in peers /\ s = snapshot)
<1>1. channel[x][y] \in Seq(Store)
  OBVIOUS
<1>2. PICK k \in DOMAIN channel'[x][y] : s = channel'[x][y][k]
  BY DEF Queued
<1>3. CASE x = n /\ y \in peers
  <2>1. channel'[x][y] = Append(channel[x][y], snapshot)
    BY <1>3 DEF Push
  <2>2. k \in 1 .. Len(channel[x][y]) + 1
    BY <1>1, <1>2, <2>1
  <2>3. CASE k \in 1 .. Len(channel[x][y])
    BY <1>1, <1>2, <2>1, <2>3 DEF Queued
  <2>4. CASE k = Len(channel[x][y]) + 1
    BY <1>1, <1>2, <1>3, <2>1, <2>4
  <2> QED
    BY <1>1, <2>2, <2>3, <2>4
<1>4. CASE ~ (x = n /\ y \in peers)
  <2>1. channel'[x][y] = channel[x][y]
    BY <1>4 DEF Push
  <2> QED
    BY <1>2, <2>1 DEF Queued
<1> QED
  BY <1>3, <1>4

LEMMA PullContents ==
  ASSUME channel \in [Node -> [Node -> Seq(Store)]], NEW m \in Node, NEW n \in Node,
         Pull(m, n)
  PROVE  /\ Head(channel[m][n]) \in Queued(m, n)
         /\ \A x, y \in Node : Queued(x, y)' \subseteq Queued(x, y)
<1>1. channel[m][n] \in Seq(Store) /\ channel[m][n] # <<>>
  BY DEF Pull
<1>2. Head(channel[m][n]) \in Queued(m, n)
  <2>1. 1 \in DOMAIN channel[m][n] /\ Head(channel[m][n]) = channel[m][n][1]
    BY <1>1
  <2> QED
    BY <2>1 DEF Queued
<1>3. ASSUME NEW x \in Node, NEW y \in Node, NEW s \in Queued(x, y)'
      PROVE  s \in Queued(x, y)
  <2>1. PICK k \in DOMAIN channel'[x][y] : s = channel'[x][y][k]
    BY <1>3 DEF Queued
  <2>2. CASE x = m /\ y = n
    <3>1. channel'[x][y] = Tail(channel[x][y])
      BY <2>2 DEF Pull
    <3>2. k + 1 \in DOMAIN channel[x][y] /\ s = channel[x][y][k + 1]
      BY <1>1, <2>1, <2>2, <3>1
    <3> QED
      BY <3>2 DEF Queued
  <2>3. CASE ~ (x = m /\ y = n)
    <3>1. channel'[x][y] = channel[x][y]
      BY <2>3 DEF Pull
    <3> QED
      BY <2>1, <3>1 DEF Queued
  <2> QED
    BY <2>2, <2>3
<1> QED
  BY <1>2, <1>3

LEMMA ResetContents ==
  ASSUME wire \subseteq Request, NEW c \in Client, ResetSocket(c), NEW r \in wire'
  PROVE  \E q \in wire : r.msg = q.msg
<1>1. \A q \in wire : [q EXCEPT !.client = Gone].msg = q.msg
  BY DEF Request
<1>2. CASE r \in wire
  BY <1>2
<1>3. CASE r \notin wire
  <2>1. \E q \in wire : r = [q EXCEPT !.client = Gone]
    BY <1>3 DEF ResetSocket
  <2> QED
    BY <1>1, <2>1
<1> QED
  BY <1>2, <1>3

(* A list that apply_message leaves behind was stored or has just come in. *)
LEMMA ApplyMessageSource ==
  ASSUME NEW store \in Store, NEW msg, NEW l \in ListUid,
         ApplyMessage(store, msg)[l] # NoList
  PROVE  store[l] # NoList \/ msg.lists[l] # NoList
<1>1. CASE msg.op \in {"ENSURE_LIST", "GOSSIP_LISTS"}
  BY <1>1 DEF ApplyMessage
<1>2. CASE msg.op = "DELETE_LIST"
  BY <1>2 DEF ApplyMessage
<1>3. CASE msg.op \notin {"ENSURE_LIST", "GOSSIP_LISTS", "DELETE_LIST"}
  BY <1>3 DEF ApplyMessage
<1> QED
  BY <1>1, <1>2, <1>3

-----------------------------------------------------------------------------
(***************************************************************************)
(* Where lists are.  A node that checks one list of a message may take all,*)
(* because a message carries the lists of one shard only; a node may take  *)
(* all of a snapshot, because only nodes of its own shard push to it.      *)
(***************************************************************************)
PureChannels ==
  \A m, n \in Node : \A s \in Queued(m, n) : \A l \in Stored(s) : RightShard(n, l)

PureRequests ==
  \A r \in wire : \A k, l \in Stored(r.msg.lists) : ListShard[k] = ListShard[l]

Placed == ShardPurity /\ PureChannels /\ PureRequests

LEMMA PlacedInit == Init => Placed
BY DEF Init, Placed, ShardPurity, PureChannels, PureRequests, Queued, EmptyStore

LEMMA PureSend ==
  ASSUME PureRequests, NEW c \in Client, NEW shard, NEW msg,
         \A k, l \in Stored(msg.lists) : ListShard[k] = ListShard[l],
         SendCloudMessage(c, shard, msg)
  PROVE  PureRequests'
BY DEF PureRequests, SendCloudMessage, Stored

LEMMA PureReset ==
  ASSUME TypeInv, PureRequests, NEW c \in Client, ResetSocket(c)
  PROVE  PureRequests'
<1>1. \A r \in wire' : \E q \in wire : r.msg = q.msg
  BY ResetContents DEF TypeInv, TypeOK
<1> QED
  BY <1>1 DEF PureRequests

(* A push by n of what it stores, to peers of its shard.                   *)
LEMMA PurePush ==
  ASSUME TypeInv, PureChannels, NEW n \in Node, NEW peers \in SUBSET ConnectedShard(n),
         NEW snapshot \in Store, \A l \in Stored(snapshot) : RightShard(n, l),
         Push(n, peers, snapshot)
  PROVE  PureChannels'
<1> SUFFICES ASSUME NEW x \in Node, NEW y \in Node, NEW s \in Queued(x, y)',
                    NEW l \in Stored(s)
             PROVE  RightShard(y, l)
  BY DEF PureChannels, RightShard
<1>1. s \in Queued(x, y) \/ (x = n /\ y \in peers /\ s = snapshot)
  BY PushContents DEF TypeInv, TypeOK, ConnectedShard
<1> QED
  BY <1>1 DEF PureChannels, RightShard, ConnectedShard

LEMMA PurePull ==
  ASSUME TypeInv, PureChannels, NEW m \in Node, NEW n \in Node, Pull(m, n)
  PROVE  PureChannels' /\ \A l \in Stored(Head(channel[m][n])) : RightShard(n, l)
BY PullContents DEF PureChannels, TypeInv, TypeOK, RightShard

LEMMA PlacedClient ==
  ASSUME TypeInv, Placed, NEW c \in Client, UserStep(c) \/ ClientStep(c)
  PROVE  Placed'
<1>1. UNCHANGED nodeVars => ShardPurity' /\ PureChannels'
  BY DEF Placed, ShardPurity, PureChannels, Queued, nodeVars, RightShard
<1>2. UNCHANGED wire => PureRequests'
  BY DEF Placed, PureRequests
<1>3. CASE UserStep(c)
  BY <1>1, <1>2, <1>3
     DEF UserStep, CreateShoppingList, GetShoppingList, DeleteShoppingList, AddItem,
         UpdateItem, RemoveItem, netVars, Placed
<1>4. CASE HttpSend(c)
  <2>1. \A lst : \A k \in Stored(Single(http[c].uid, lst)) : k = http[c].uid
    BY DEF Single, EmptyStore, Stored
  <2>2. \E lst : CloudMessage(http[c]).lists = Single(http[c].uid, lst)
    <3>1. CASE http[c].kind = "get"
      BY <3>1 DEF CloudMessage
    <3>2. CASE http[c].kind = "delete"
      BY <3>2 DEF CloudMessage
    <3>3. CASE http[c].kind \notin {"get", "delete"}
      BY <3>3 DEF CloudMessage
    <3> QED
      BY <3>1, <3>2, <3>3
  <2>3. \A k, l \in Stored(CloudMessage(http[c]).lists) : ListShard[k] = ListShard[l]
    BY <2>1, <2>2
  <2>4. PureRequests'
    BY <1>4, <2>3, PureSend DEF HttpSend, Placed
  <2> QED
    BY <1>1, <1>4, <2>4 DEF HttpSend, Placed
<1>5. CASE HttpReply(c) \/ GossipReply(c)
  BY <1>1, <1>2, <1>5 DEF HttpReply, GossipReply, TakeReply, Placed
<1>6. CASE HttpTimeout(c) \/ GossipTimeout(c) \/ CrashClient(c)
  BY <1>1, <1>6, PureReset DEF HttpTimeout, GossipTimeout, CrashClient, Placed
<1>7. CASE GossipRead(c)
  BY <1>1, <1>2, <1>7 DEF GossipRead, netVars, Placed
<1>8. CASE GossipSend(c)
  <2>1. PICK shard :
          SendCloudMessage(c, shard,
            [op |-> "GOSSIP_LISTS", lists |-> ShardLists(gossiper[c].lists, shard)])
    BY <1>8 DEF GossipSend
  <2>2. \A k \in Stored(ShardLists(gossiper[c].lists, shard)) : ListShard[k] = shard
    BY DEF Stored, ShardLists
  <2>3. PureRequests'
    BY <2>1, <2>2, PureSend DEF Placed
  <2> QED
    BY <1>1, <1>8, <2>3 DEF GossipSend, Placed
<1> QED
  BY <1>3, <1>4, <1>5, <1>6, <1>7, <1>8 DEF ClientStep

LEMMA PlacedNode ==
  ASSUME TypeInv, Placed, NEW n \in Node, NodeStep(n)
  PROVE  Placed'
<1>0. db \in [Node -> Store]
  BY DEF TypeInv, TypeOK
<1>1. wire' \subseteq wire => PureRequests'
  BY DEF Placed, PureRequests
<1>2. UNCHANGED db => ShardPurity'
  BY DEF Placed, ShardPurity, RightShard
<1>3. UNCHANGED channel => PureChannels'
  BY DEF Placed, PureChannels, Queued, RightShard
<1>4. CASE HandleWrongShard(n) \/ HandleGetList(n)
  <2>1. wire' \subseteq wire
    BY <1>4 DEF HandleWrongShard, HandleGetList, Answer
  <2> QED
    BY <1>1, <1>2, <1>3, <1>4, <2>1 DEF HandleWrongShard, HandleGetList, nodeVars, Placed
<1>5. CASE HandleUpdate(n)
  <2>1. PICK r \in wire, l \in ListUid :
          /\ ClientFrame(n, r, l) /\ RightShard(n, l)
          /\ db' = [db EXCEPT ![n] = ApplyMessage(@, r.msg)]
          /\ EagerFanout(n, db'[n])
          /\ wire' = wire \ {r}
    BY <1>5 DEF HandleUpdate, Answer
  <2>2. r.msg.lists \in Store
    BY <2>1, ClientFrameType
  <2>3. \A k \in Stored(r.msg.lists) : RightShard(n, k)
    BY <2>1 DEF Placed, PureRequests, ClientFrame, RightShard
  <2>4. db'[n] \in Store /\ db'[n] = ApplyMessage(db[n], r.msg)
    BY <1>0, <2>1, <2>2, ApplyMessageType
  <2>5. \A k \in Stored(db'[n]) : RightShard(n, k)
    BY <1>0, <2>3, <2>4, ApplyMessageSource DEF Placed, ShardPurity, Stored
  <2>6. ShardPurity'
    BY <1>0, <2>1, <2>5 DEF Placed, ShardPurity, Stored, RightShard
  <2>7. PureChannels'
    <3>1. PICK peers \in SUBSET GossipTargets(n) : Push(n, peers, db'[n])
      BY <2>1 DEF EagerFanout
    <3>2. peers \in SUBSET ConnectedShard(n)
      BY DEF GossipTargets
    <3> QED
      BY <2>4, <2>5, <3>1, <3>2, PurePush DEF Placed
  <2> QED
    BY <1>1, <2>1, <2>6, <2>7 DEF Placed
<1>6. CASE PerformShardGossip(n)
  <2>1. PICK m \in GossipTargets(n) : Push(n, {m}, db[n])
    BY <1>6 DEF PerformShardGossip
  <2>2. {m} \in SUBSET ConnectedShard(n) /\ db[n] \in Store
    BY <1>0 DEF GossipTargets
  <2>3. \A l \in Stored(db[n]) : RightShard(n, l)
    BY DEF Placed, ShardPurity, Stored
  <2>4. PureChannels'
    BY <2>1, <2>2, <2>3, PurePush DEF Placed
  <2> QED
    BY <1>1, <1>2, <1>6, <2>4 DEF PerformShardGossip, Placed, netVars
<1>7. ASSUME NEW m \in Node, HandleGossipFrame(m, n)
      PROVE  Placed'
  <2> DEFINE gm == [op |-> "GOSSIP_LISTS", lists |-> Head(channel[m][n])]
  <2>1. PureChannels' /\ \A l \in Stored(Head(channel[m][n])) : RightShard(n, l)
    BY <1>7, PurePull DEF HandleGossipFrame, Placed
  <2>2. db' = [db EXCEPT ![n] = ApplyMessage(@, gm)] /\ gm.lists = Head(channel[m][n])
    BY <1>7 DEF HandleGossipFrame
  <2> HIDE DEF gm
  <2>3. \A l \in ListUid : ApplyMessage(db[n], gm)[l] # NoList => RightShard(n, l)
    BY <1>0, <2>1, <2>2, ApplyMessageSource DEF Placed, ShardPurity, Stored
  <2>4. ShardPurity'
    BY <1>0, <2>2, <2>3 DEF Placed, ShardPurity, RightShard
  <2> QED
    BY <1>1, <1>7, <2>1, <2>4 DEF HandleGossipFrame, Placed, netVars
<1>8. ASSUME NEW m \in Node, LoseGossip(m, n)
      PROVE  Placed'
  <2>1. PureChannels'
    BY <1>8, PurePull DEF LoseGossip, Placed
  <2> QED
    BY <1>1, <1>2, <1>8, <2>1 DEF LoseGossip, Placed, netVars
<1> QED
  BY <1>4, <1>5, <1>6, <1>7, <1>8 DEF NodeStep

LEMMA PlacedNext == TypeInv /\ Placed /\ [Next]_vars => Placed'
<1> SUFFICES ASSUME TypeInv, Placed, [Next]_vars
             PROVE  Placed'
  OBVIOUS
<1>1. CASE UNCHANGED vars
  BY <1>1 DEF Placed, ShardPurity, PureChannels, PureRequests, Queued, RightShard, vars
<1>2. CASE Next
  BY <1>2, PlacedClient, PlacedNode DEF Next
<1> QED
  BY <1>1, <1>2

(* A list is only ever stored at nodes of its own shard, whatever endpoints*)
(* the clients send it to (node.cpp:150 checks the first list only).       *)
THEOREM ShardsStayPure == Spec => []ShardPurity
<1>1. Spec => []Placed
  BY PlacedInit, PlacedNext, TypeInvHolds, PTL DEF Spec
<1>2. Placed => ShardPurity
  BY DEF Placed
<1> QED
  BY <1>1, <1>2, PTL

-----------------------------------------------------------------------------
(***************************************************************************)
(* What copies contain.  A copy is good if it is well formed and holds only*)
(* items whose uid was handed out, so that a new item is added over nothing*)
(* and a new list is written over nothing.                                 *)
(***************************************************************************)
Good(lst, known) ==
  lst # NoList => /\ WellFormedSet(lst.items)
                  /\ \A i \in ItemUid : lst.items.elements[i] # NoItem => i \in known

GoodStore(store, known) ==
  \A l \in ListUid : Good(store[l], known) /\ (store[l] # NoList => l \in known)

GoodNodes(known) ==
  /\ \A n \in Node : GoodStore(db[n], known)
  /\ \A m, n \in Node : \A s \in Queued(m, n) : GoodStore(s, known)

GoodDatabases(known) == \A c \in Client : GoodStore(cdb[c], known)

GoodHttp(known) ==
  \A c \in Client : /\ Good(http[c].lst, known)
                    /\ http[c].pc # "idle" => http[c].uid \in known

GoodGossip(known) == \A c \in Client : GoodStore(gossiper[c].lists, known)

GoodNet(known) ==
  /\ \A r \in wire : GoodStore(r.msg.lists, known)
  /\ \A p \in replies : Good(p.lst, known)

AllGood ==
  /\ GoodNodes(issued) /\ GoodDatabases(issued) /\ GoodHttp(issued)
  /\ GoodGossip(issued) /\ GoodNet(issued)

LEMMA GoodNewList ==
  ASSUME NEW name \in ListName, NEW known
  PROVE  Good(NewList(name), known)
BY NewListType DEF Good, NewList, EmptySet

LEMMA GoodMerge ==
  ASSUME NEW x \in List, NEW y \in List, NEW known, Good(x, known), Good(y, known)
  PROVE  Good(ListMerge(x, y), known)
<1>1. WellFormedSet(x.items) /\ WellFormedSet(y.items)
  BY NoListAssumption DEF Good
<1>2. WellFormedSet(ListMerge(x, y).items)
  BY <1>1, ListMergeType
<1>3. \A i \in ItemUid : /\ x.items.elements[i] \in Item \cup {NoItem}
                         /\ y.items.elements[i] \in Item \cup {NoItem}
  BY ItemSetFields DEF List
<1>4. \A i \in ItemUid : ListMerge(x, y).items.elements[i]
                           = ElementMerge(x.items.elements[i], y.items.elements[i])
  BY DEF ListMerge, SetMerge, List
<1>5. \A i \in ItemUid : ListMerge(x, y).items.elements[i] # NoItem => i \in known
  BY <1>3, <1>4, ElementMergeType, NoListAssumption DEF Good
<1> QED
  BY <1>2, <1>5 DEF Good

LEMMA GoodMergedWithReply ==
  ASSUME NEW lst \in List \cup {NoList}, NEW cloud \in List \cup {NoList}, NEW known,
         Good(lst, known), Good(cloud, known)
  PROVE  Good(MergedWithReply(lst, cloud), known)
<1>1. CASE cloud = NoList
  BY <1>1 DEF MergedWithReply
<1>2. CASE cloud # NoList /\ lst = NoList
  BY <1>2 DEF MergedWithReply
<1>3. CASE cloud # NoList /\ lst # NoList
  <2>1. MergedWithReply(lst, cloud) = ListMerge(lst, cloud)
    BY <1>3 DEF MergedWithReply
  <2> QED
    BY <1>3, <2>1, GoodMerge
<1> QED
  BY <1>1, <1>2, <1>3

LEMMA GoodApply ==
  ASSUME NEW store \in Store, NEW msg, msg.lists \in Store, NEW known,
         GoodStore(store, known), GoodStore(msg.lists, known)
  PROVE  GoodStore(ApplyMessage(store, msg), known)
<1> SUFFICES ASSUME NEW l \in ListUid
             PROVE  /\ Good(ApplyMessage(store, msg)[l], known)
                    /\ ApplyMessage(store, msg)[l] # NoList => l \in known
  BY DEF GoodStore
<1>1. /\ store[l] \in List \cup {NoList} /\ Good(store[l], known)
      /\ msg.lists[l] \in List \cup {NoList} /\ Good(msg.lists[l], known)
  BY DEF Store, GoodStore
<1>2. msg.lists[l] # NoList => Good(Received(store[l], msg.lists[l]), known)
  BY <1>1, GoodMerge, GoodNewList, NewListType, EmptyNameAssumption DEF Received
<1>3. Good(NoList, known)
  BY DEF Good
<1>4. Good(ApplyMessage(store, msg)[l], known)
  <2>1. CASE msg.op \in {"ENSURE_LIST", "GOSSIP_LISTS"}
    BY <1>1, <1>2, <2>1 DEF ApplyMessage
  <2>2. CASE msg.op = "DELETE_LIST"
    BY <1>1, <1>3, <2>2 DEF ApplyMessage
  <2>3. CASE msg.op \notin {"ENSURE_LIST", "GOSSIP_LISTS", "DELETE_LIST"}
    BY <1>1, <2>3 DEF ApplyMessage
  <2> QED
    BY <2>1, <2>2, <2>3
<1> QED
  BY <1>4, ApplyMessageSource DEF GoodStore

(* More uids handed out leave good what was good.                          *)
LEMMA GoodStays ==
  ASSUME NEW known, NEW more, known \subseteq more
  PROVE  /\ \A lst : Good(lst, known) => Good(lst, more)
         /\ \A store : GoodStore(store, known) => GoodStore(store, more)
         /\ GoodNodes(known) => GoodNodes(more)
         /\ GoodDatabases(known) => GoodDatabases(more)
         /\ GoodHttp(known) => GoodHttp(more)
         /\ GoodGossip(known) => GoodGossip(more)
         /\ GoodNet(known) => GoodNet(more)
<1>1. \A lst : Good(lst, known) => Good(lst, more)
  BY DEF Good
<1>2. \A store : GoodStore(store, known) => GoodStore(store, more)
  BY <1>1 DEF GoodStore
<1> QED
  BY <1>1, <1>2 DEF GoodNodes, GoodDatabases, GoodHttp, GoodGossip, GoodNet

LEMMA AllGoodInit == Init => AllGood
<1> SUFFICES ASSUME Init
             PROVE  AllGood
  OBVIOUS
<1>1. \A known : GoodStore(EmptyStore, known) /\ Good(NoList, known)
  BY DEF GoodStore, Good, EmptyStore
<1>2. \A m, n \in Node : Queued(m, n) = {}
  BY DEF Init, Queued
<1> QED
  BY <1>1, <1>2 DEF Init, AllGood, GoodNodes, GoodDatabases, GoodHttp, GoodGossip,
                    GoodNet, HttpIdle, GossipIdle

(* The HTTP thread starts on a good working copy.                          *)
LEMMA GoodBegin ==
  ASSUME TypeInv, AllGood, NEW c \in Client, NEW kind, NEW l \in ListUid, NEW lst,
         NEW known, issued \subseteq known, Begin(c, kind, l, lst), Good(lst, known),
         l \in known
  PROVE  GoodHttp(known)'
<1>1. GoodHttp(known)
  BY GoodStays DEF AllGood
<1>2. http' = [http EXCEPT ![c] = [pc |-> "send", kind |-> kind, uid |-> l, lst |-> lst]]
  BY DEF Begin
<1> QED
  BY <1>1, <1>2 DEF GoodHttp, TypeInv, TypeOK

LEMMA GoodUser ==
  ASSUME TypeInv, AllGood, NEW c \in Client, UserStep(c)
  PROVE  AllGood'
<1>0. /\ cdb \in [Client -> Store]
      /\ \A l \in ListUid : /\ cdb[c][l] \in List \cup {NoList}
                            /\ Good(cdb[c][l], issued)
                            /\ cdb[c][l] # NoList => l \in issued
  BY DEF TypeInv, TypeOK, Store, AllGood, GoodDatabases, GoodStore
<1>1. /\ issued \subseteq issued'
      /\ UNCHANGED <<gossiper, wire, replies, db, channel>>
  BY DEF UserStep, CreateShoppingList, GetShoppingList, DeleteShoppingList, AddItem,
         UpdateItem, RemoveItem, netVars, nodeVars
<1>2. GoodNodes(issued)' /\ GoodGossip(issued)' /\ GoodNet(issued)'
  <2>1. GoodNodes(issued') /\ GoodGossip(issued') /\ GoodNet(issued')
    BY <1>1, GoodStays DEF AllGood
  <2>2. \A m, n \in Node : Queued(m, n)' = Queued(m, n)
    BY <1>1 DEF Queued
  <2>3. GoodNodes(issued)'
    BY <1>1, <2>1, <2>2 DEF GoodNodes
  <2> QED
    BY <1>1, <2>1, <2>3 DEF GoodGossip, GoodNet
<1>3. UNCHANGED cdb => GoodDatabases(issued)'
  BY <1>1, GoodStays DEF AllGood, GoodDatabases
<1>4. ASSUME NEW name \in ListName, CreateShoppingList(c, name)
      PROVE  AllGood'
  <2>1. PICK l \in ListUid \ issued :
          /\ Begin(c, "create", l, NewList(name))
          /\ cdb' = [cdb EXCEPT ![c][l] = NewList(name)]
          /\ issued' = issued \cup {l}
    BY <1>4 DEF CreateShoppingList
  <2>2. Good(NewList(name), issued')
    BY GoodNewList
  <2>3. GoodHttp(issued)'
    BY <2>1, <2>2, GoodBegin DEF GoodHttp
  <2>4. GoodDatabases(issued')
    BY <1>1, GoodStays DEF AllGood
  <2>5. GoodDatabases(issued)'
    BY <1>0, <2>1, <2>2, <2>4 DEF GoodDatabases, GoodStore, Store
  <2> QED
    BY <1>2, <2>3, <2>5 DEF AllGood
<1>5. ASSUME NEW l \in ListUid, GetShoppingList(c, l)
      PROVE  AllGood'
  <2>1. GoodHttp(issued)'
    BY <1>0, <1>5, GoodBegin DEF GetShoppingList, GoodHttp
  <2> QED
    BY <1>2, <1>3, <1>5, <2>1 DEF AllGood, GetShoppingList
<1>6. ASSUME NEW l \in ListUid, DeleteShoppingList(c, l)
      PROVE  AllGood'
  <2>1. Good(NoList, issued)
    BY DEF Good
  <2>2. GoodHttp(issued)'
    BY <1>6, <2>1, GoodBegin DEF DeleteShoppingList, GoodHttp
  <2>3. GoodDatabases(issued)'
    BY <1>0, <1>6, <2>1 DEF DeleteShoppingList, AllGood, GoodDatabases, GoodStore, Store
  <2> QED
    BY <1>2, <2>2, <2>3 DEF AllGood
<1>7. ASSUME NEW l \in ListUid, NEW body \in Body, AddItem(c, l, body)
      PROVE  AllGood'
  <2>1. PICK i \in ItemUid \ issued, tag \in 1 .. MaxClock :
          /\ Begin(c, "add", l, ListAdd(cdb[c][l], i, c, body, tag))
          /\ issued' = issued \cup {i}
    BY <1>7 DEF AddItem
  <2> DEFINE lst == ListAdd(cdb[c][l], i, c, body, tag)
  <2>2. tag \in Tag
    BY ReplicationAssumption DEF Tag
  <2>3. cdb[c][l] # NoList /\ cdb[c][l] \in List /\ l \in issued
    BY <1>0, <1>7 DEF AddItem
  <2>4. cdb[c][l].items.elements[i] = NoItem /\ WellFormedSet(cdb[c][l].items)
    BY <1>0, <2>3 DEF Good
  <2>5. lst \in List /\ WellFormedSet(lst.items)
    BY <2>2, <2>3, <2>4, ListAddType DEF Client
  <2>6. \A j \in ItemUid : j # i =>
          lst.items.elements[j] = cdb[c][l].items.elements[j]
    BY <2>3 DEF ListAdd, SetAdd, List, ItemSet
  <2>7. Good(lst, issued')
    BY <1>0, <2>1, <2>3, <2>5, <2>6 DEF Good
  <2>8. GoodHttp(issued)'
    BY <1>1, <2>1, <2>3, <2>7, GoodBegin DEF GoodHttp
  <2> QED
    BY <1>2, <1>3, <1>7, <2>8 DEF AllGood, AddItem
<1>8. ASSUME NEW l \in ListUid, NEW i \in ItemUid, NEW body \in Body, UpdateItem(c, l, i, body)
      PROVE  AllGood'
  <2>1. PICK tag \in 1 .. MaxClock : Begin(c, "update", l, ListUpdate(cdb[c][l], i, c, body, tag))
    BY <1>8 DEF UpdateItem
  <2> DEFINE lst == ListUpdate(cdb[c][l], i, c, body, tag)
  <2>2. tag \in Tag
    BY ReplicationAssumption DEF Tag
  <2>3. /\ cdb[c][l] # NoList /\ cdb[c][l] \in List /\ l \in issued
        /\ HasItem(cdb[c][l], i)
    BY <1>0, <1>8 DEF UpdateItem
  <2>4. cdb[c][l].items.elements[i] # NoItem /\ WellFormedSet(cdb[c][l].items)
    BY <1>0, <2>3 DEF Good, HasItem, Values
  <2>5. lst \in List /\ WellFormedSet(lst.items)
    BY <2>2, <2>3, <2>4, ListUpdateType DEF Client
  <2>6. \A j \in ItemUid : j # i =>
          lst.items.elements[j] = cdb[c][l].items.elements[j]
    BY <2>3 DEF ListUpdate, SetAdd, List, ItemSet
  <2>7. Good(lst, issued)
    BY <1>0, <2>3, <2>4, <2>5, <2>6 DEF Good
  <2>8. UNCHANGED issued
    BY <1>8 DEF UpdateItem
  <2>9. GoodHttp(issued)'
    BY <2>1, <2>3, <2>7, <2>8, GoodBegin DEF GoodHttp
  <2> QED
    BY <1>2, <1>3, <1>8, <2>9 DEF AllGood, UpdateItem
<1>9. ASSUME NEW l \in ListUid, NEW i \in ItemUid, RemoveItem(c, l, i)
      PROVE  AllGood'
  <2> DEFINE lst == ListRemove(cdb[c][l], i)
  <2>1. /\ Begin(c, "remove", l, lst) /\ UNCHANGED <<cdb, issued>>
        /\ cdb[c][l] # NoList /\ cdb[c][l] \in List /\ l \in issued
    BY <1>0, <1>9 DEF RemoveItem
  <2>2. lst \in List /\ WellFormedSet(lst.items)
    BY <1>0, <2>1, ListRemoveType DEF Good
  <2>3. lst.items.elements = cdb[c][l].items.elements
    BY <2>1 DEF ListRemove, SetRemove, List, ItemSet
  <2>4. Good(lst, issued)
    BY <1>0, <2>1, <2>2, <2>3 DEF Good
  <2>5. GoodHttp(issued)'
    BY <2>1, <2>4, GoodBegin DEF GoodHttp
  <2> QED
    BY <1>2, <1>3, <2>1, <2>5 DEF AllGood
<1> QED
  BY <1>4, <1>5, <1>6, <1>7, <1>8, <1>9 DEF UserStep

LEMMA GoodReset ==
  ASSUME TypeInv, AllGood, NEW c \in Client, ResetSocket(c)
  PROVE  /\ \A r \in wire' : GoodStore(r.msg.lists, issued)
         /\ \A p \in replies' : Good(p.lst, issued)
<1>1. \A r \in wire' : \E q \in wire : r.msg = q.msg
  BY ResetContents DEF TypeInv, TypeOK
<1>2. replies' \subseteq replies
  BY DEF ResetSocket
<1> QED
  BY <1>1, <1>2 DEF AllGood, GoodNet

LEMMA GoodFinish ==
  ASSUME TypeInv, AllGood, NEW c \in Client, http[c].pc # "idle",
         NEW cloud \in List \cup {NoList}, Good(cloud, issued), FinishHttp(c, cloud)
  PROVE  /\ \A d \in Client : GoodStore(cdb'[d], issued)
         /\ \A d \in Client : /\ Good(http'[d].lst, issued)
                              /\ http'[d].pc # "idle" => http'[d].uid \in issued
<1> DEFINE t == http[c]
           lst == MergedWithReply(t.lst, cloud)
<1>1. /\ t.lst \in List \cup {NoList} /\ Good(t.lst, issued) /\ t.uid \in issued
      /\ t.uid \in ListUid
      /\ cdb \in [Client -> Store] /\ http \in [Client -> HttpThread]
  BY DEF TypeInv, TypeOK, ThreadUid, HttpThread, AllGood, GoodHttp
<1>2. Good(lst, issued)
  BY <1>1, GoodMergedWithReply
<1>3. /\ cdb' = cdb \/ cdb' = [cdb EXCEPT ![c][t.uid] = lst]
      /\ http' = [http EXCEPT ![c] = HttpIdle]
  BY DEF FinishHttp
<1> HIDE DEF lst
<1>4. \A d \in Client : GoodStore(cdb[d], issued)
  BY DEF AllGood, GoodDatabases
<1>5. \A d \in Client : GoodStore(cdb'[d], issued)
  BY <1>1, <1>2, <1>3, <1>4 DEF GoodStore, Store
<1>6. Good(HttpIdle.lst, issued) /\ HttpIdle.pc = "idle"
  BY DEF Good, HttpIdle
<1> QED
  BY <1>1, <1>3, <1>5, <1>6 DEF AllGood, GoodHttp

LEMMA GoodClient ==
  ASSUME TypeInv, AllGood, NEW c \in Client, ClientStep(c)
  PROVE  AllGood'
<1>0. /\ UNCHANGED <<db, channel, issued>>
      /\ http \in [Client -> HttpThread] /\ gossiper \in [Client -> GossipThread]
      /\ replies \subseteq Reply
  BY DEF ClientStep, HttpSend, HttpReply, HttpTimeout, GossipRead, GossipSend,
         GossipReply, GossipTimeout, CrashClient, nodeVars, TypeInv, TypeOK
<1>1. GoodNodes(issued)'
  <2>1. \A m, n \in Node : Queued(m, n)' = Queued(m, n)
    BY <1>0 DEF Queued
  <2> QED
    BY <1>0, <2>1 DEF AllGood, GoodNodes
<1>2. UNCHANGED cdb => GoodDatabases(issued)'
  BY <1>0 DEF AllGood, GoodDatabases
<1>3. UNCHANGED http => GoodHttp(issued)'
  BY <1>0 DEF AllGood, GoodHttp
<1>4. UNCHANGED gossiper => GoodGossip(issued)'
  BY <1>0 DEF AllGood, GoodGossip
<1>5. ResetSocket(c) => GoodNet(issued)'
  BY <1>0, GoodReset DEF GoodNet
<1>6. (\E p \in replies : TakeReply(c, p)) => GoodNet(issued)'
  BY <1>0 DEF AllGood, GoodNet, TakeReply
<1>7. FinishGossip(c) => GoodGossip(issued)'
  <2>1. GoodStore(EmptyStore, issued)
    BY DEF GoodStore, Good, EmptyStore
  <2>2. FinishGossip(c) =>
          \A d \in Client : gossiper'[d].lists \in {EmptyStore, gossiper[d].lists}
    BY <1>0 DEF FinishGossip, GossipIdle, GossipThread
  <2> QED
    BY <1>0, <2>1, <2>2 DEF AllGood, GoodGossip
<1>8. \A cloud \in List \cup {NoList} :
        http[c].pc # "idle" /\ Good(cloud, issued) /\ FinishHttp(c, cloud)
          => GoodDatabases(issued)' /\ GoodHttp(issued)'
  BY <1>0, GoodFinish DEF GoodDatabases, GoodHttp
<1>9. ASSUME NEW shard, NEW msg, GoodStore(msg.lists, issued), SendCloudMessage(c, shard, msg)
      PROVE  GoodNet(issued)'
  BY <1>0, <1>9 DEF AllGood, GoodNet, SendCloudMessage
<1>10. Good(NoList, issued)
  BY DEF Good
<1>11. CASE HttpSend(c)
  <2> DEFINE t == http[c]
  <2>1. t.uid \in issued /\ Good(t.lst, issued)
    BY <1>11 DEF HttpSend, AllGood, GoodHttp
  <2>2. \A lst : Good(lst, issued) => GoodStore(Single(t.uid, lst), issued)
    BY <1>10, <2>1 DEF Single, EmptyStore, GoodStore
  <2>3. Good(NewList(EmptyName), issued)
    BY GoodNewList, EmptyNameAssumption
  <2>4. GoodStore(CloudMessage(t).lists, issued)
    <3>1. CASE t.kind = "get"
      BY <2>2, <2>3, <3>1 DEF CloudMessage
    <3>2. CASE t.kind = "delete"
      BY <2>2, <2>3, <3>2 DEF CloudMessage
    <3>3. CASE t.kind \notin {"get", "delete"}
      BY <2>1, <2>2, <3>3 DEF CloudMessage
    <3> QED
      BY <3>1, <3>2, <3>3
  <2>5. GoodNet(issued)'
    BY <1>9, <1>11, <2>4 DEF HttpSend
  <2>6. GoodHttp(issued)'
    <3>1. http' = [http EXCEPT ![c].pc = "wait"] /\ t.pc = "send"
      BY <1>11 DEF HttpSend
    <3>2. \A d \in Client : /\ http'[d].lst = http[d].lst /\ http'[d].uid = http[d].uid
                            /\ http'[d].pc # "idle" => http[d].pc # "idle"
      BY <1>0, <3>1 DEF HttpThread
    <3> QED
      BY <1>0, <3>2 DEF AllGood, GoodHttp
  <2> QED
    BY <1>1, <1>2, <1>4, <1>11, <2>5, <2>6 DEF AllGood, HttpSend
<1>12. CASE HttpReply(c)
  <2>1. PICK p \in replies :
          /\ TakeReply(c, p)
          /\ FinishHttp(c, IF p.op = "LIST_RESPONSE" THEN p.lst ELSE NoList)
    BY <1>12 DEF HttpReply
  <2>2. p.lst \in List /\ Good(p.lst, issued)
    BY <1>0 DEF Reply, AllGood, GoodNet
  <2>3. http[c].pc # "idle"
    BY <1>12 DEF HttpReply
  <2>4. GoodDatabases(issued)' /\ GoodHttp(issued)'
    BY <1>8, <1>10, <2>1, <2>2, <2>3
  <2>5. GoodNet(issued)'
    BY <1>6, <2>1
  <2> QED
    BY <1>1, <1>4, <1>12, <2>4, <2>5 DEF AllGood, HttpReply
<1>13. CASE HttpTimeout(c)
  <2>1. http[c].pc # "idle"
    BY <1>13 DEF HttpTimeout
  <2> QED
    BY <1>1, <1>4, <1>5, <1>8, <1>10, <1>13, <2>1 DEF AllGood, HttpTimeout
<1>14. CASE GossipRead(c)
  <2>1. \A d \in Client : GoodStore(gossiper'[d].lists, issued)
    BY <1>0, <1>14 DEF GossipRead, AllGood, GoodGossip, GoodDatabases
  <2>2. GoodGossip(issued)' /\ GoodNet(issued)'
    BY <1>0, <1>14, <2>1 DEF GoodGossip, AllGood, GoodNet, GossipRead, netVars
  <2> QED
    BY <1>1, <1>2, <1>3, <1>14, <2>2 DEF AllGood, GossipRead
<1>15. CASE GossipSend(c)
  <2>1. PICK shard :
          SendCloudMessage(c, shard,
            [op |-> "GOSSIP_LISTS", lists |-> ShardLists(gossiper[c].lists, shard)])
    BY <1>15 DEF GossipSend
  <2>2. GoodStore(ShardLists(gossiper[c].lists, shard), issued)
    BY <1>10 DEF AllGood, GoodGossip, GoodStore, ShardLists
  <2>3. GoodNet(issued)'
    BY <1>9, <2>1, <2>2
  <2>4. \A d \in Client : gossiper'[d].lists = gossiper[d].lists
    BY <1>0, <1>15 DEF GossipSend, GossipThread
  <2>5. GoodGossip(issued)'
    BY <1>0, <2>4 DEF AllGood, GoodGossip
  <2> QED
    BY <1>1, <1>2, <1>3, <1>15, <2>3, <2>5 DEF AllGood, GossipSend
<1>16. CASE GossipReply(c)
  BY <1>1, <1>2, <1>3, <1>6, <1>7, <1>16 DEF AllGood, GossipReply
<1>17. CASE GossipTimeout(c)
  BY <1>1, <1>2, <1>3, <1>5, <1>7, <1>17 DEF AllGood, GossipTimeout
<1>18. CASE CrashClient(c)
  <2>1. /\ http' = [http EXCEPT ![c] = HttpIdle]
        /\ gossiper' = [gossiper EXCEPT ![c] = GossipIdle]
    BY <1>18 DEF CrashClient
  <2>2. GoodStore(GossipIdle.lists, issued) /\ Good(HttpIdle.lst, issued) /\ HttpIdle.pc = "idle"
    BY <1>10 DEF GoodStore, GossipIdle, EmptyStore, HttpIdle
  <2>3. GoodHttp(issued)' /\ GoodGossip(issued)'
    BY <1>0, <2>1, <2>2 DEF AllGood, GoodHttp, GoodGossip
  <2> QED
    BY <1>1, <1>2, <1>5, <1>18, <2>3 DEF AllGood, CrashClient
<1> QED
  BY <1>11, <1>12, <1>13, <1>14, <1>15, <1>16, <1>17, <1>18 DEF ClientStep

(* Node n stores a good store and pushes good snapshots.                   *)
LEMMA GoodStoreAt ==
  ASSUME TypeInv, AllGood, NEW n \in Node, NEW store, GoodStore(store, issued),
         db' = [db EXCEPT ![n] = store]
  PROVE  \A m \in Node : GoodStore(db'[m], issued)
BY DEF TypeInv, TypeOK, AllGood, GoodNodes

LEMMA GoodPush ==
  ASSUME TypeInv, AllGood, NEW n \in Node, NEW peers \in SUBSET Node, NEW snapshot \in Store,
         GoodStore(snapshot, issued), Push(n, peers, snapshot)
  PROVE  \A x, y \in Node : \A s \in Queued(x, y)' : GoodStore(s, issued)
<1> SUFFICES ASSUME NEW x \in Node, NEW y \in Node, NEW s \in Queued(x, y)'
             PROVE  GoodStore(s, issued)
  OBVIOUS
<1>1. channel \in [Node -> [Node -> Seq(Store)]]
  BY DEF TypeInv, TypeOK
<1>2. s \in Queued(x, y) \/ (x = n /\ y \in peers /\ s = snapshot)
  BY <1>1, PushContents
<1> QED
  BY <1>2 DEF AllGood, GoodNodes

LEMMA GoodPull ==
  ASSUME TypeInv, AllGood, NEW m \in Node, NEW n \in Node, Pull(m, n)
  PROVE  /\ \A x, y \in Node : \A s \in Queued(x, y)' : GoodStore(s, issued)
         /\ GoodStore(Head(channel[m][n]), issued)
BY PullContents DEF TypeInv, TypeOK, AllGood, GoodNodes

LEMMA GoodAnswer ==
  ASSUME AllGood, NEW r \in wire, NEW op, NEW l, NEW lst, Good(lst, issued),
         Answer(r, op, l, lst)
  PROVE  /\ \A q \in wire' : GoodStore(q.msg.lists, issued)
         /\ \A p \in replies' : Good(p.lst, issued)
BY DEF Answer, AllGood, GoodNet

LEMMA GoodNode ==
  ASSUME TypeInv, AllGood, NEW n \in Node, NodeStep(n)
  PROVE  AllGood'
<1>0. /\ UNCHANGED <<cdb, http, gossiper, issued>>
      /\ db \in [Node -> Store] /\ channel \in [Node -> [Node -> Seq(Store)]]
  BY DEF NodeStep, HandleWrongShard, HandleGetList, HandleUpdate, PerformShardGossip,
         HandleGossipFrame, LoseGossip, clientVars, TypeInv, TypeOK
<1>1. GoodDatabases(issued)' /\ GoodHttp(issued)' /\ GoodGossip(issued)'
  BY <1>0 DEF AllGood, GoodDatabases, GoodHttp, GoodGossip
<1>2. UNCHANGED <<db, channel>> => GoodNodes(issued)'
  <2>1. UNCHANGED channel => \A x, y \in Node : Queued(x, y)' = Queued(x, y)
    BY DEF Queued
  <2> QED
    BY <1>0, <2>1 DEF AllGood, GoodNodes
<1>3. UNCHANGED <<wire, replies>> => GoodNet(issued)'
  BY <1>0 DEF AllGood, GoodNet
<1>4. Good(NewList(EmptyName), issued)
  BY GoodNewList, EmptyNameAssumption
<1>5. CASE HandleWrongShard(n)
  <2>1. GoodNet(issued)'
    BY <1>0, <1>4, <1>5, GoodAnswer DEF HandleWrongShard, GoodNet
  <2> QED
    BY <1>1, <1>2, <1>5, <2>1 DEF AllGood, HandleWrongShard, nodeVars
<1>6. CASE HandleGetList(n)
  <2>1. \A l \in ListUid : Good(db[n][l], issued)
    BY DEF AllGood, GoodNodes, GoodStore
  <2>2. GoodNet(issued)'
    BY <1>0, <1>4, <1>6, <2>1, GoodAnswer DEF HandleGetList, GoodNet
  <2> QED
    BY <1>1, <1>2, <1>6, <2>2 DEF AllGood, HandleGetList, nodeVars
<1>7. CASE HandleUpdate(n)
  <2>1. PICK r \in wire, l \in ListUid :
          /\ ClientFrame(n, r, l)
          /\ db' = [db EXCEPT ![n] = ApplyMessage(@, r.msg)]
          /\ EagerFanout(n, db'[n])
          /\ Answer(r, IF r.msg.op = "DELETE_LIST" THEN "NO_LIST_RESPONSE"
                                                   ELSE "LIST_RESPONSE",
                    l, r.msg.lists[l])
    BY <1>7 DEF HandleUpdate
  <2>2. r.msg.lists \in Store /\ GoodStore(r.msg.lists, issued) /\ Good(r.msg.lists[l], issued)
    BY <2>1, ClientFrameType DEF AllGood, GoodNet, GoodStore
  <2>3. /\ db'[n] = ApplyMessage(db[n], r.msg)
        /\ db'[n] \in Store /\ GoodStore(db'[n], issued)
    BY <1>0, <2>1, <2>2, ApplyMessageType, GoodApply DEF AllGood, GoodNodes
  <2>4. \A m \in Node : GoodStore(db'[m], issued)
    BY <2>1, <2>3, GoodStoreAt
  <2>5. PICK peers \in SUBSET GossipTargets(n) : Push(n, peers, db'[n])
    BY <2>1 DEF EagerFanout
  <2>6. peers \in SUBSET Node
    BY DEF GossipTargets, ConnectedShard
  <2>7. GoodNodes(issued)'
    BY <1>0, <2>3, <2>4, <2>5, <2>6, GoodPush DEF GoodNodes
  <2>8. GoodNet(issued)'
    BY <1>0, <2>1, <2>2, GoodAnswer DEF GoodNet
  <2> QED
    BY <1>1, <2>7, <2>8 DEF AllGood
<1>8. CASE PerformShardGossip(n)
  <2>1. PICK m \in GossipTargets(n) : Push(n, {m}, db[n])
    BY <1>8 DEF PerformShardGossip
  <2>2. {m} \in SUBSET Node /\ db[n] \in Store /\ GoodStore(db[n], issued)
    BY <1>0 DEF GossipTargets, ConnectedShard, AllGood, GoodNodes
  <2>3. GoodNodes(issued)'
    BY <1>0, <1>8, <2>1, <2>2, GoodPush DEF GoodNodes, PerformShardGossip, AllGood
  <2> QED
    BY <1>1, <1>3, <1>8, <2>3 DEF AllGood, PerformShardGossip, netVars
<1>9. ASSUME NEW m \in Node, HandleGossipFrame(m, n)
      PROVE  AllGood'
  <2> DEFINE gm == [op |-> "GOSSIP_LISTS", lists |-> Head(channel[m][n])]
  <2>1. Pull(m, n) /\ db' = [db EXCEPT ![n] = ApplyMessage(@, gm)]
    BY <1>9 DEF HandleGossipFrame
  <2>2. gm.lists \in Store /\ GoodStore(gm.lists, issued)
    BY <1>0, <2>1, PullType, GoodPull
  <2> HIDE DEF gm
  <2>3. GoodStore(ApplyMessage(db[n], gm), issued)
    BY <1>0, <2>2, GoodApply DEF AllGood, GoodNodes
  <2>4. \A k \in Node : GoodStore(db'[k], issued)
    BY <2>1, <2>3, GoodStoreAt
  <2>5. GoodNodes(issued)'
    BY <1>0, <2>1, <2>4, GoodPull DEF GoodNodes
  <2> QED
    BY <1>1, <1>3, <1>9, <2>5 DEF AllGood, HandleGossipFrame, netVars
<1>10. ASSUME NEW m \in Node, LoseGossip(m, n)
       PROVE  AllGood'
  <2>1. GoodNodes(issued)'
    BY <1>0, <1>10, GoodPull DEF GoodNodes, LoseGossip, AllGood
  <2> QED
    BY <1>1, <1>3, <1>10, <2>1 DEF AllGood, LoseGossip, netVars
<1> QED
  BY <1>5, <1>6, <1>7, <1>8, <1>9, <1>10 DEF NodeStep

LEMMA AllGoodNext == TypeInv /\ AllGood /\ [Next]_vars => AllGood'
<1> SUFFICES ASSUME TypeInv, AllGood, [Next]_vars
             PROVE  AllGood'
  OBVIOUS
<1>1. CASE UNCHANGED vars
  <2>1. \A m, n \in Node : Queued(m, n)' = Queued(m, n)
    BY <1>1 DEF Queued, vars
  <2>2. GoodNodes(issued)'
    BY <1>1, <2>1 DEF AllGood, GoodNodes, vars
  <2> QED
    BY <1>1, <2>2 DEF AllGood, GoodDatabases, GoodHttp, GoodGossip, GoodNet, vars
<1>2. CASE Next
  BY <1>2, GoodUser, GoodClient, GoodNode DEF Next
<1> QED
  BY <1>1, <1>2

LEMMA AllGoodHolds == Spec => []AllGood
BY AllGoodInit, AllGoodNext, TypeInvHolds, PTL DEF Spec

(* Every copy of every list, stored, being edited or in transit, has only  *)
(* removed tags that were added and an element for each tagged item.       *)
THEOREM CopiesStayWellFormed == Spec => []CopiesWellFormed
<1>1. TypeInv /\ AllGood => CopiesWellFormed
  <2> SUFFICES ASSUME TypeInv, AllGood, NEW l \in ListUid, NEW lst \in Copies(l)
               PROVE  WellFormedSet(lst.items)
    BY DEF CopiesWellFormed
  <2>1. CASE lst \in StoredCopies(l)
    BY <2>1 DEF StoredCopies, AllGood, GoodNodes, GoodDatabases, GoodStore, Good, Copies
  <2>2. CASE lst \in WorkingCopies(l)
    BY <2>2 DEF WorkingCopies, WorkingCopy, AllGood, GoodHttp, GoodDatabases, GoodGossip,
                GoodStore, Good, Copies
  <2>3. CASE lst \in TravellingCopies(l)
    <3>1. CASE \E r \in wire : lst = r.msg.lists[l]
      BY <3>1 DEF AllGood, GoodNet, GoodStore, Good, Copies
    <3>2. CASE \E p \in replies : lst = p.lst
      BY <3>2 DEF AllGood, GoodNet, Good, Copies
    <3>3. CASE \E m, n \in Node : \E k \in DOMAIN channel[m][n] : lst = channel[m][n][k][l]
      BY <3>3 DEF AllGood, GoodNodes, Queued, GoodStore, Good, Copies
    <3> QED
      BY <2>3, <3>1, <3>2, <3>3 DEF TravellingCopies
  <2> QED
    BY <2>1, <2>2, <2>3 DEF Copies
<1> QED
  BY <1>1, TypeInvHolds, AllGoodHolds, PTL

-----------------------------------------------------------------------------
(***************************************************************************)
(* The one request of a client.  A reply answers what was asked, so for    *)
(* replies to match, requests under way have to match what the HTTP thread *)
(* is waiting for, and its two threads must not wait at once.              *)
(***************************************************************************)
Asks(c, r) == r \in wire /\ r.client = c
Answers(c, p) == p \in replies /\ p.client = c

OneAtATime(c) ==
  /\ \A r, s : Asks(c, r) /\ Asks(c, s) => r = s
  /\ \A p, q : Answers(c, p) /\ Answers(c, q) => p = q
  /\ \A r, p : ~ (Asks(c, r) /\ Answers(c, p))
  /\ \A r : Asks(c, r) \/ Answers(c, r) => SocketBusy(c)
  /\ ~ (http[c].pc = "wait" /\ gossiper[c].pc = "wait")

AboutHttp(c) ==
  http[c].pc = "wait" =>
    /\ \A r : Asks(c, r) => Stored(r.msg.lists) \subseteq {http[c].uid}
    /\ \A p : Answers(c, p) => p.uid = http[c].uid

RequestInv == \A c \in Client : OneAtATime(c) /\ AboutHttp(c)

LEMMA RequestInvInit == Init => RequestInv
BY DEF Init, RequestInv, OneAtATime, AboutHttp, Asks, Answers, HttpIdle, GossipIdle

(* A step that adds no message of a client, and in which its threads wait  *)
(* for what they waited for before.                                        *)
LEMMA RequestQuiet ==
  ASSUME RequestInv, NEW c \in Client,
         \A r \in wire' : r.client = c => r \in wire,
         \A p \in replies' : p.client = c => p \in replies,
         http'[c].pc = "wait" <=> http[c].pc = "wait",
         http'[c].pc = "wait" => http'[c].uid = http[c].uid,
         gossiper'[c].pc = "wait" <=> gossiper[c].pc = "wait"
  PROVE  OneAtATime(c)' /\ AboutHttp(c)'
<1>1. OneAtATime(c) /\ AboutHttp(c)
  BY DEF RequestInv
<1>2. \A r : /\ Asks(c, r)' => Asks(c, r)
             /\ Answers(c, r)' => Answers(c, r)
  BY DEF Asks, Answers
<1>3. SocketBusy(c)' <=> SocketBusy(c)
  BY DEF SocketBusy
<1>4. OneAtATime(c)'
  BY <1>1, <1>2, <1>3 DEF OneAtATime
<1>5. AboutHttp(c)'
  BY <1>1, <1>2 DEF AboutHttp
<1> QED
  BY <1>4, <1>5

(* A step after which a client has no message under way.                   *)
LEMMA RequestOver ==
  ASSUME NEW c \in Client,
         \A r \in wire' : r.client # c,
         \A p \in replies' : p.client # c,
         ~ (http'[c].pc = "wait" /\ gossiper'[c].pc = "wait")
  PROVE  OneAtATime(c)' /\ AboutHttp(c)'
BY DEF OneAtATime, AboutHttp, Asks, Answers

(* A client that may send has no message under way.                        *)
LEMMA RequestFree ==
  ASSUME RequestInv, NEW c \in Client, ~ SocketBusy(c)
  PROVE  /\ \A r \in wire : r.client # c
         /\ \A p \in replies : p.client # c
BY DEF RequestInv, OneAtATime, Asks, Answers

LEMMA RequestSend ==
  ASSUME RequestInv, NEW c \in Client, NEW shard, NEW msg,
         SendCloudMessage(c, shard, msg)
  PROVE  /\ ~ SocketBusy(c)
         /\ \A d \in Client \ {c} : \A r \in wire' : r.client = d => r \in wire
         /\ \A r, s \in wire' : r.client = c /\ s.client = c => r = s
         /\ \A r \in wire' : r.client = c => r.msg = msg
         /\ \A p \in replies' : p.client # c
         /\ replies' = replies
<1>1. PICK n \in Endpoints[shard] :
        wire' = wire \cup {[client |-> c, node |-> n, msg |-> msg]}
  BY DEF SendCloudMessage
<1>2. ~ SocketBusy(c) /\ replies' = replies
  BY DEF SendCloudMessage
<1> QED
  BY <1>1, <1>2, RequestFree

LEMMA RequestReset ==
  ASSUME NEW c \in Client, ResetSocket(c), wire \subseteq Request
  PROVE  /\ \A d \in Client : \A r \in wire' : r.client = d => r \in wire
         /\ \A r \in wire' : r.client # c
         /\ replies' \subseteq replies
         /\ \A p \in replies' : p.client # c
<1> DEFINE pending == {r \in wire : r.client = c}
           late    == {[r EXCEPT !.client = Gone] : r \in pending}
<1>1. wire' = wire \ pending \/ wire' = (wire \ pending) \cup late
  BY DEF ResetSocket
<1>2. \A r \in late : r.client = Gone
  BY DEF Request
<1>3. replies' = {p \in replies : p.client # c}
  BY DEF ResetSocket
<1> QED
  BY <1>1, <1>2, <1>3, ReplicationAssumption

LEMMA RequestTaken ==
  ASSUME RequestInv, NEW c \in Client, NEW p, TakeReply(c, p)
  PROVE  /\ wire' = wire /\ replies' \subseteq replies
         /\ \A r \in wire' : r.client # c
         /\ \A q \in replies' : q.client # c
<1>1. Answers(c, p) /\ replies' = replies \ {p} /\ wire' = wire
  BY DEF TakeReply, Answers
<1>2. OneAtATime(c)
  BY DEF RequestInv
<1> QED
  BY <1>1, <1>2 DEF OneAtATime, Asks, Answers

LEMMA RequestUser ==
  ASSUME TypeInv, RequestInv, NEW d \in Client, UserStep(d)
  PROVE  RequestInv'
<1>1. /\ wire' = wire /\ replies' = replies /\ gossiper' = gossiper
      /\ \E kind, l, lst : Begin(d, kind, l, lst)
  BY DEF UserStep, CreateShoppingList, GetShoppingList, AddItem, UpdateItem, RemoveItem,
         DeleteShoppingList, netVars
<1>2. PICK kind, l, lst : Begin(d, kind, l, lst)
  BY <1>1
<1>3. http \in [Client -> HttpThread]
  BY DEF TypeInv, TypeOK
<1>4. \A c \in Client : /\ http'[c].pc = "wait" <=> http[c].pc = "wait"
                        /\ http'[c].pc = "wait" => http'[c].uid = http[c].uid
  BY <1>2, <1>3 DEF Begin
<1> QED
  BY <1>1, <1>4, RequestQuiet DEF RequestInv

LEMMA CloudMessageAbout ==
  ASSUME NEW t \in HttpThread
  PROVE  Stored(CloudMessage(t).lists) \subseteq {t.uid}
<1>1. \A l, lst : Stored(Single(l, lst)) \subseteq {l}
  BY DEF Stored, Single, EmptyStore
<1>2. \E lst : CloudMessage(t).lists = Single(t.uid, lst)
  BY DEF CloudMessage
<1> QED
  BY <1>1, <1>2

LEMMA RequestClient ==
  ASSUME TypeInv, RequestInv, NEW d \in Client, ClientStep(d)
  PROVE  RequestInv'
<1>0. /\ http \in [Client -> HttpThread] /\ gossiper \in [Client -> GossipThread]
      /\ wire \subseteq Request
  BY DEF TypeInv, TypeOK
<1>1. CASE HttpSend(d)
  <2> DEFINE msg == CloudMessage(http[d])
  <2>1. SendCloudMessage(d, ListShard[http[d].uid], msg)
    BY <1>1 DEF HttpSend
  <2>2. http' = [http EXCEPT ![d].pc = "wait"] /\ gossiper' = gossiper
    BY <1>1 DEF HttpSend
  <2>3. Stored(msg.lists) \subseteq {http'[d].uid}
    BY <1>0, <2>2, CloudMessageAbout
  <2>4. ASSUME NEW c \in Client \ {d}
        PROVE  OneAtATime(c)' /\ AboutHttp(c)'
    BY <1>0, <2>1, <2>2, RequestSend, RequestQuiet
  <2>5. OneAtATime(d)' /\ AboutHttp(d)'
    <3>1. SocketBusy(d)' /\ gossiper'[d].pc # "wait"
      BY <1>0, <2>1, <2>2, RequestSend DEF SocketBusy
    <3> QED
      BY <2>1, <2>3, <3>1, RequestSend DEF OneAtATime, AboutHttp, Asks, Answers
  <2> QED
    BY <2>4, <2>5 DEF RequestInv
<1>2. CASE GossipSend(d)
  <2>1. PICK shard \in gossiper[d].left :
          /\ SendCloudMessage(d, shard, [op    |-> "GOSSIP_LISTS",
                                         lists |-> ShardLists(gossiper[d].lists, shard)])
          /\ gossiper' = [gossiper EXCEPT ![d].pc = "wait", ![d].left = @ \ {shard}]
    BY <1>2 DEF GossipSend
  <2>2. http' = http /\ gossiper'[d].pc = "wait"
    BY <1>0, <1>2, <2>1 DEF GossipSend, GossipThread
  <2>3. ASSUME NEW c \in Client \ {d}
        PROVE  OneAtATime(c)' /\ AboutHttp(c)'
    <3>1. gossiper'[c] = gossiper[c]
      BY <1>0, <2>1
    <3> QED
      BY <2>1, <2>2, <3>1, RequestSend, RequestQuiet
  <2>4. OneAtATime(d)' /\ AboutHttp(d)'
    <3>1. SocketBusy(d)' /\ http'[d].pc # "wait"
      BY <2>1, <2>2, RequestSend DEF SocketBusy
    <3> QED
      BY <2>1, <3>1, RequestSend DEF OneAtATime, AboutHttp, Asks, Answers
  <2> QED
    BY <2>3, <2>4 DEF RequestInv
<1>3. CASE HttpReply(d) \/ HttpTimeout(d)
  <2>1. /\ http' = [http EXCEPT ![d] = HttpIdle] /\ gossiper' = gossiper
        /\ (\E p : TakeReply(d, p)) \/ ResetSocket(d)
    BY <1>3 DEF HttpReply, HttpTimeout, FinishHttp
  <2>2. /\ \A c \in Client : \A r \in wire' : r.client = c => r \in wire
        /\ replies' \subseteq replies
        /\ \A r \in wire' : r.client # d
        /\ \A p \in replies' : p.client # d
    BY <1>0, <2>1, RequestReset, RequestTaken
  <2>3. http'[d].pc # "wait"
    BY <1>0, <2>1 DEF HttpIdle
  <2>4. ASSUME NEW c \in Client \ {d}
        PROVE  OneAtATime(c)' /\ AboutHttp(c)'
    BY <1>0, <2>1, <2>2, RequestQuiet
  <2>5. OneAtATime(d)' /\ AboutHttp(d)'
    BY <2>2, <2>3, RequestOver
  <2> QED
    BY <2>4, <2>5 DEF RequestInv
<1>4. CASE GossipReply(d) \/ GossipTimeout(d)
  <2>1. /\ FinishGossip(d) /\ http' = http
        /\ (\E p : TakeReply(d, p)) \/ ResetSocket(d)
    BY <1>4 DEF GossipReply, GossipTimeout
  <2>2. /\ \A c \in Client : \A r \in wire' : r.client = c => r \in wire
        /\ replies' \subseteq replies
        /\ \A r \in wire' : r.client # d
        /\ \A p \in replies' : p.client # d
    BY <1>0, <2>1, RequestReset, RequestTaken
  <2>3. gossiper'[d].pc # "wait" /\ \A c \in Client \ {d} : gossiper'[c] = gossiper[c]
    BY <1>0, <2>1 DEF FinishGossip, GossipIdle, GossipThread
  <2>4. ASSUME NEW c \in Client \ {d}
        PROVE  OneAtATime(c)' /\ AboutHttp(c)'
    BY <2>1, <2>2, <2>3, RequestQuiet
  <2>5. OneAtATime(d)' /\ AboutHttp(d)'
    BY <2>2, <2>3, RequestOver
  <2> QED
    BY <2>4, <2>5 DEF RequestInv
<1>5. CASE GossipRead(d)
  <2>1. wire' = wire /\ replies' = replies /\ http' = http
    BY <1>5 DEF GossipRead, netVars
  <2>2. \A c \in Client : gossiper'[c].pc = "wait" <=> gossiper[c].pc = "wait"
    BY <1>0, <1>5 DEF GossipRead
  <2> QED
    BY <2>1, <2>2, RequestQuiet DEF RequestInv
<1>6. CASE CrashClient(d)
  <2>1. /\ http' = [http EXCEPT ![d] = HttpIdle]
        /\ gossiper' = [gossiper EXCEPT ![d] = GossipIdle]
        /\ ResetSocket(d)
    BY <1>6 DEF CrashClient
  <2>2. http'[d].pc # "wait"
    BY <1>0, <2>1 DEF HttpIdle
  <2>3. ASSUME NEW c \in Client \ {d}
        PROVE  OneAtATime(c)' /\ AboutHttp(c)'
    BY <1>0, <2>1, RequestReset, RequestQuiet
  <2>4. OneAtATime(d)' /\ AboutHttp(d)'
    BY <1>0, <2>1, <2>2, RequestReset, RequestOver
  <2> QED
    BY <2>3, <2>4 DEF RequestInv
<1> QED
  BY <1>1, <1>2, <1>3, <1>4, <1>5, <1>6 DEF ClientStep

(* A node answers a request to the client it is from, about its list.      *)
LEMMA RequestAnswer ==
  ASSUME RequestInv, NEW c \in Client, NEW n \in Node, NEW r, NEW op,
         NEW l \in ListUid, NEW lst,
         ClientFrame(n, r, l), Answer(r, op, l, lst),
         http' = http, gossiper' = gossiper
  PROVE  OneAtATime(c)' /\ AboutHttp(c)'
<1> DEFINE answer == [client |-> r.client, op |-> op, uid |-> l, lst |-> lst]
<1>1. /\ wire' = wire \ {r} /\ r \in wire /\ l \in Stored(r.msg.lists)
      /\ replies' = replies \/ (r.client # Gone /\ replies' = replies \cup {answer})
  BY DEF ClientFrame, Answer
<1>2. CASE r.client # c \/ replies' = replies
  <2>1. \A p \in replies' : p.client = c => p \in replies
    BY <1>1, <1>2
  <2> QED
    BY <1>1, <2>1, RequestQuiet
<1>3. CASE r.client = c /\ replies' = replies \cup {answer}
  <2>1. Asks(c, r) /\ OneAtATime(c) /\ AboutHttp(c)
    BY <1>1, <1>3 DEF RequestInv, Asks
  <2>2. \A s : ~ Asks(c, s)'
    BY <1>1, <2>1 DEF Asks, OneAtATime
  <2>3. \A p : Answers(c, p)' <=> p = answer
    BY <1>1, <1>3, <2>1 DEF Answers, OneAtATime
  <2>4. SocketBusy(c)' /\ ~ (http'[c].pc = "wait" /\ gossiper'[c].pc = "wait")
    BY <2>1 DEF OneAtATime, SocketBusy
  <2>5. http[c].pc = "wait" => l = http[c].uid
    BY <1>1, <2>1 DEF AboutHttp
  <2> QED
    BY <2>2, <2>3, <2>4, <2>5 DEF OneAtATime, AboutHttp
<1> QED
  BY <1>1, <1>2, <1>3

LEMMA RequestNode ==
  ASSUME RequestInv, NEW n \in Node, NodeStep(n)
  PROVE  RequestInv'
<1>1. CASE HandleWrongShard(n) \/ HandleGetList(n) \/ HandleUpdate(n)
  <2>1. \E r, op, l, lst : l \in ListUid /\ ClientFrame(n, r, l) /\ Answer(r, op, l, lst)
    BY <1>1 DEF HandleWrongShard, HandleGetList, HandleUpdate
  <2>2. http' = http /\ gossiper' = gossiper
    BY <1>1 DEF HandleWrongShard, HandleGetList, HandleUpdate, clientVars
  <2> QED
    BY <2>1, <2>2, RequestAnswer DEF RequestInv
<1>2. CASE \/ PerformShardGossip(n)
           \/ \E m \in Node : HandleGossipFrame(m, n) \/ LoseGossip(m, n)
  <2>1. wire' = wire /\ replies' = replies /\ http' = http /\ gossiper' = gossiper
    BY <1>2 DEF PerformShardGossip, HandleGossipFrame, LoseGossip, netVars, clientVars
  <2> QED
    BY <2>1, RequestQuiet DEF RequestInv
<1> QED
  BY <1>1, <1>2 DEF NodeStep

LEMMA RequestInvNext == TypeInv /\ RequestInv /\ [Next]_vars => RequestInv'
<1> SUFFICES ASSUME TypeInv, RequestInv, [Next]_vars
             PROVE  RequestInv'
  OBVIOUS
<1>1. CASE UNCHANGED vars
  BY <1>1, RequestQuiet DEF RequestInv, vars
<1>2. CASE Next
  BY <1>2, RequestUser, RequestClient, RequestNode DEF Next
<1> QED
  BY <1>1, <1>2

(* A set without two different members has at most one.                    *)
LEMMA AtMostOne ==
  ASSUME NEW S, \A x, y \in S : x = y
  PROVE  Cardinality(S) \in {0, 1} /\ (Cardinality(S) = 1 => S # {})
<1>1. CASE S = {}
  BY <1>1, FS_EmptySet
<1>2. CASE S # {}
  <2>1. PICK x \in S : S = {x}
    BY <1>2
  <2> QED
    BY <2>1, FS_Singleton
<1> QED
  BY <1>1, <1>2

(* A client has one request or reply under way at most, and a reply that   *)
(* the HTTP thread gets is about the list it asked for, with timeouts, late*)
(* requests and crashes (api.cpp:72-106, 132, 168).                        *)
THEOREM RepliesAlwaysMatch == Spec => []ReplyForCurrentRequest
<1>1. RequestInv => ReplyForCurrentRequest
  <2> SUFFICES ASSUME RequestInv, NEW c \in Client
               PROVE  LET asked    == {r \in wire : r.client = c}
                          answered == {p \in replies : p.client = c}
                      IN  /\ Cardinality(asked) + Cardinality(answered) <= 1
                          /\ asked \cup answered # {} => SocketBusy(c)
                          /\ http[c].pc = "wait" =>
                               \A p \in answered :
                                 gossiper[c].pc # "wait" /\ p.uid = http[c].uid
    BY DEF ReplyForCurrentRequest
  <2> DEFINE asked    == {r \in wire : r.client = c}
             answered == {p \in replies : p.client = c}
  <2>1. OneAtATime(c) /\ AboutHttp(c)
    BY DEF RequestInv
  <2>2. /\ \A r, s \in asked : r = s
        /\ \A p, q \in answered : p = q
        /\ asked = {} \/ answered = {}
    BY <2>1 DEF OneAtATime, Asks, Answers
  <2>3. Cardinality(asked) + Cardinality(answered) <= 1
    <3>1. /\ Cardinality(asked) \in {0, 1} /\ Cardinality(answered) \in {0, 1}
          /\ Cardinality(asked) = 0 \/ Cardinality(answered) = 0
      BY <2>2, AtMostOne
    <3> QED
      BY <3>1
  <2>4. asked \cup answered # {} => SocketBusy(c)
    BY <2>1 DEF OneAtATime, Asks, Answers
  <2>5. http[c].pc = "wait" =>
          \A p \in answered : gossiper[c].pc # "wait" /\ p.uid = http[c].uid
    BY <2>1 DEF OneAtATime, AboutHttp, Answers
  <2> QED
    BY <2>3, <2>4, <2>5
<1> QED
  BY <1>1, RequestInvInit, RequestInvNext, TypeInvHolds, PTL DEF Spec
=============================================================================
