----------------------------- MODULE GrowthProofs -----------------------------
(***************************************************************************)
(* Theorems about Replication: no stored copy ever forgets anything, unless*)
(* its list is deleted by request (CopiesOnlyGrow), and nobody knows more  *)
(* of a client's counts than the client itself (OwnerAhead).               *)
(***************************************************************************)
EXTENDS ReplicationProofs

(* A copy that is written over old knows all that old knew.                *)
Grows(old, new) == old = NoList \/ (new # NoList /\ ListLeq(old, new))

(* What the HTTP thread works on knows all that the client's database      *)
(* knows, until the thread writes it back.  No other thread writes there.  *)
ThreadAhead ==
  \A c \in Client :
    http[c].pc # "idle" /\ http[c].kind \notin {"create", "delete"} =>
      Grows(cdb[c][http[c].uid], http[c].lst)

-----------------------------------------------------------------------------

LEMMA GrowsReflexive ==
  ASSUME NEW x \in List \cup {NoList}
  PROVE  Grows(x, x)
BY ListLeqReflexive DEF Grows

LEMMA GrowsTransitive ==
  ASSUME NEW x \in List \cup {NoList}, NEW y \in List \cup {NoList},
         NEW z \in List \cup {NoList}, Grows(x, y), Grows(y, z)
  PROVE  Grows(x, z)
<1>1. CASE x = NoList
  BY <1>1 DEF Grows
<1>2. CASE x # NoList
  BY <1>2, ListLeqTransitive DEF Grows
<1> QED
  BY <1>1, <1>2

(* Merging an answer into the working copy keeps what the copy knows.      *)
LEMMA MergedGrows ==
  ASSUME NEW lst \in List \cup {NoList}, NEW cloud \in List \cup {NoList}
  PROVE  Grows(lst, MergedWithReply(lst, cloud))
<1>1. CASE cloud = NoList
  BY <1>1, GrowsReflexive DEF MergedWithReply
<1>2. CASE cloud # NoList /\ lst = NoList
  BY <1>2 DEF Grows
<1>3. CASE cloud # NoList /\ lst # NoList
  <2>1. MergedWithReply(lst, cloud) = ListMerge(lst, cloud)
    BY <1>3 DEF MergedWithReply
  <2> QED
    BY <1>3, <2>1, ListMergeType, NoListAssumption DEF Grows
<1> QED
  BY <1>1, <1>2, <1>3

(* A node that applies a message keeps what it knows, unless it deletes.   *)
LEMMA ApplyGrows ==
  ASSUME NEW store \in Store, NEW msg, msg.lists \in Store, NEW l \in ListUid,
         ~ (msg.op = "DELETE_LIST" /\ msg.lists[l] # NoList)
  PROVE  Grows(store[l], ApplyMessage(store, msg)[l])
<1>1. store[l] \in List \cup {NoList} /\ msg.lists[l] \in List \cup {NoList}
  BY DEF Store
<1>2. Grows(store[l], store[l])
  BY <1>1, GrowsReflexive
<1>3. msg.lists[l] # NoList => Grows(store[l], Received(store[l], msg.lists[l]))
  BY <1>1, ListMergeType, NoListAssumption DEF Received, Grows
<1>4. CASE msg.op \in {"ENSURE_LIST", "GOSSIP_LISTS"}
  BY <1>2, <1>3, <1>4 DEF ApplyMessage
<1>5. CASE msg.op = "DELETE_LIST"
  BY <1>2, <1>5 DEF ApplyMessage
<1>6. CASE msg.op \notin {"ENSURE_LIST", "GOSSIP_LISTS", "DELETE_LIST"}
  BY <1>2, <1>6 DEF ApplyMessage
<1> QED
  BY <1>4, <1>5, <1>6

-----------------------------------------------------------------------------
(* ThreadAhead is an invariant, given TypeInv and AllGood.                 *)

LEMMA AheadBegin ==
  ASSUME TypeInv, ThreadAhead, NEW c \in Client, NEW kind, NEW l \in ListUid, NEW lst,
         Begin(c, kind, l, lst), \A d \in Client : d # c => cdb'[d] = cdb[d],
         kind \notin {"create", "delete"} => Grows(cdb'[c][l], lst)
  PROVE  ThreadAhead'
<1>1. http' = [http EXCEPT ![c] = [pc |-> "send", kind |-> kind, uid |-> l, lst |-> lst]]
  BY DEF Begin
<1> QED
  BY <1>1 DEF ThreadAhead, TypeInv, TypeOK

LEMMA AheadUser ==
  ASSUME TypeInv, AllGood, ThreadAhead, NEW c \in Client, UserStep(c)
  PROVE  ThreadAhead'
<1>0. /\ cdb \in [Client -> Store]
      /\ \A l \in ListUid : cdb[c][l] \in List \cup {NoList} /\ Good(cdb[c][l], issued)
  BY DEF TypeInv, TypeOK, Store, AllGood, GoodDatabases, GoodStore
<1>1. ASSUME NEW name \in ListName, CreateShoppingList(c, name)
      PROVE  ThreadAhead'
  BY <1>0, <1>1, AheadBegin DEF CreateShoppingList
<1>2. ASSUME NEW l \in ListUid, GetShoppingList(c, l)
      PROVE  ThreadAhead'
  BY <1>0, <1>2, AheadBegin, GrowsReflexive DEF GetShoppingList
<1>3. ASSUME NEW l \in ListUid, DeleteShoppingList(c, l)
      PROVE  ThreadAhead'
  BY <1>0, <1>3, AheadBegin DEF DeleteShoppingList
<1>4. ASSUME NEW l \in ListUid, NEW body \in Body, AddItem(c, l, body)
      PROVE  ThreadAhead'
  <2>1. PICK i \in ItemUid \ issued, tag \in 1 .. MaxClock :
          Begin(c, "add", l, ListAdd(cdb[c][l], i, c, body, tag))
    BY <1>4 DEF AddItem
  <2>2. tag \in Tag
    BY ReplicationAssumption DEF Tag
  <2>3. UNCHANGED cdb /\ cdb[c][l] \in List /\ cdb[c][l] # NoList
    BY <1>0, <1>4 DEF AddItem
  <2>4. cdb[c][l].items.elements[i] = NoItem
    BY <1>0, <2>3 DEF Good
  <2>5. Grows(cdb[c][l], ListAdd(cdb[c][l], i, c, body, tag))
    BY <2>2, <2>3, <2>4, ListAddType, NoListAssumption DEF Grows, Client
  <2> QED
    BY <2>1, <2>3, <2>5, AheadBegin
<1>5. ASSUME NEW l \in ListUid, NEW i \in ItemUid, NEW body \in Body, UpdateItem(c, l, i, body)
      PROVE  ThreadAhead'
  <2>1. PICK tag \in 1 .. MaxClock :
          Begin(c, "update", l, ListUpdate(cdb[c][l], i, c, body, tag))
    BY <1>5 DEF UpdateItem
  <2>2. tag \in Tag
    BY ReplicationAssumption DEF Tag
  <2>3. /\ UNCHANGED cdb /\ cdb[c][l] \in List /\ cdb[c][l] # NoList
        /\ HasItem(cdb[c][l], i)
    BY <1>0, <1>5 DEF UpdateItem
  <2>4. Grows(cdb[c][l], ListUpdate(cdb[c][l], i, c, body, tag))
    BY <2>2, <2>3, ListUpdateType, NoListAssumption DEF Grows, Client
  <2> QED
    BY <2>1, <2>3, <2>4, AheadBegin
<1>6. ASSUME NEW l \in ListUid, NEW i \in ItemUid, RemoveItem(c, l, i)
      PROVE  ThreadAhead'
  <2>1. /\ Begin(c, "remove", l, ListRemove(cdb[c][l], i)) /\ UNCHANGED cdb
        /\ cdb[c][l] \in List /\ cdb[c][l] # NoList
    BY <1>0, <1>6 DEF RemoveItem
  <2>2. Grows(cdb[c][l], ListRemove(cdb[c][l], i))
    BY <2>1, ListRemoveType, NoListAssumption DEF Grows
  <2> QED
    BY <2>1, <2>2, AheadBegin
<1> QED
  BY <1>1, <1>2, <1>3, <1>4, <1>5, <1>6 DEF UserStep

LEMMA AheadFinish ==
  ASSUME TypeInv, ThreadAhead, NEW c \in Client, NEW cloud, FinishHttp(c, cloud)
  PROVE  ThreadAhead'
<1>1. http' = [http EXCEPT ![c] = HttpIdle] /\ HttpIdle.pc = "idle"
  BY DEF FinishHttp, HttpIdle
<1>2. \A d \in Client : d # c => cdb'[d] = cdb[d]
  BY DEF FinishHttp, TypeInv, TypeOK
<1> QED
  BY <1>1, <1>2 DEF ThreadAhead, TypeInv, TypeOK

LEMMA AheadClient ==
  ASSUME TypeInv, ThreadAhead, NEW c \in Client, ClientStep(c)
  PROVE  ThreadAhead'
<1>0. http \in [Client -> HttpThread]
  BY DEF TypeInv, TypeOK
<1>1. CASE HttpSend(c)
  <2>1. http' = [http EXCEPT ![c].pc = "wait"] /\ http[c].pc = "send" /\ UNCHANGED cdb
    BY <1>1 DEF HttpSend
  <2>2. \A d \in Client : /\ http'[d].kind = http[d].kind /\ http'[d].uid = http[d].uid
                          /\ http'[d].lst = http[d].lst
                          /\ http'[d].pc # "idle" => http[d].pc # "idle"
    BY <1>0, <2>1 DEF HttpThread
  <2> QED
    BY <2>1, <2>2 DEF ThreadAhead
<1>2. CASE HttpReply(c)
  BY <1>2, AheadFinish DEF HttpReply
<1>3. CASE HttpTimeout(c)
  BY <1>3, AheadFinish DEF HttpTimeout
<1>4. CASE GossipRead(c) \/ GossipSend(c) \/ GossipReply(c) \/ GossipTimeout(c)
  <2>1. UNCHANGED <<cdb, http>>
    BY <1>4 DEF GossipRead, GossipSend, GossipReply, GossipTimeout
  <2> QED
    BY <2>1 DEF ThreadAhead
<1>5. CASE CrashClient(c)
  <2>1. http' = [http EXCEPT ![c] = HttpIdle] /\ UNCHANGED cdb /\ HttpIdle.pc = "idle"
    BY <1>5 DEF CrashClient, HttpIdle
  <2> QED
    BY <1>0, <2>1 DEF ThreadAhead
<1> QED
  BY <1>1, <1>2, <1>3, <1>4, <1>5 DEF ClientStep

LEMMA NodeLeavesClients ==
  ASSUME NEW n \in Node, NodeStep(n)
  PROVE  UNCHANGED <<cdb, http>>
BY DEF NodeStep, HandleWrongShard, HandleGetList, HandleUpdate, PerformShardGossip,
       HandleGossipFrame, LoseGossip, clientVars

LEMMA AheadInit == Init => ThreadAhead
BY DEF Init, ThreadAhead, HttpIdle

LEMMA AheadNext == TypeInv /\ AllGood /\ ThreadAhead /\ [Next]_vars => ThreadAhead'
<1> SUFFICES ASSUME TypeInv, AllGood, ThreadAhead, [Next]_vars
             PROVE  ThreadAhead'
  OBVIOUS
<1>1. CASE UNCHANGED vars
  BY <1>1 DEF ThreadAhead, vars
<1>2. ASSUME NEW n \in Node, NodeStep(n)
      PROVE  ThreadAhead'
  BY <1>2, NodeLeavesClients DEF ThreadAhead
<1> QED
  BY <1>1, <1>2, AheadUser, AheadClient DEF Next

LEMMA AheadHolds == Spec => []ThreadAhead
<1>1. Spec => []TypeInv /\ []AllGood
  BY TypeInvHolds, AllGoodHolds, PTL
<1> QED
  BY <1>1, AheadInit, AheadNext, PTL DEF Spec

-----------------------------------------------------------------------------
(* The tables of nodes and of clients, step by step.                       *)

MayDeleteAt(n, l) ==
  \E r \in wire : r.node = n /\ r.msg.op = "DELETE_LIST" /\ r.msg.lists[l] # NoList

LEMMA NodesKeep ==
  ASSUME TypeInv, NEW n \in Node, NodeStep(n), NEW m \in Node, NEW l \in ListUid
  PROVE  Grows(db[m][l], db'[m][l]) \/ (MayDeleteAt(m, l) /\ db'[m][l] = NoList)
<1>0. /\ db \in [Node -> Store] /\ db[m][l] \in List \cup {NoList}
      /\ wire \subseteq Request /\ channel \in [Node -> [Node -> Seq(Store)]]
  BY DEF TypeInv, TypeOK, Store
<1>1. UNCHANGED db => Grows(db[m][l], db'[m][l])
  BY <1>0, GrowsReflexive
<1>2. CASE HandleUpdate(n)
  <2>1. PICK r \in wire, k \in ListUid :
          ClientFrame(n, r, k) /\ db' = [db EXCEPT ![n] = ApplyMessage(@, r.msg)]
    BY <1>2 DEF HandleUpdate
  <2>2. r.msg.lists \in Store /\ r.node = n
    BY <2>1, ClientFrameType DEF ClientFrame
  <2>3. CASE m # n
    BY <1>0, <2>1, <2>3, GrowsReflexive
  <2>4. CASE m = n /\ ~ (r.msg.op = "DELETE_LIST" /\ r.msg.lists[l] # NoList)
    BY <1>0, <2>1, <2>2, <2>4, ApplyGrows
  <2>5. CASE m = n /\ r.msg.op = "DELETE_LIST" /\ r.msg.lists[l] # NoList
    <3>1. ApplyMessage(db[n], r.msg)[l] = NoList
      BY <2>5 DEF ApplyMessage
    <3> QED
      BY <1>0, <2>1, <2>2, <2>5, <3>1 DEF MayDeleteAt
  <2> QED
    BY <2>3, <2>4, <2>5
<1>3. ASSUME NEW k \in Node, HandleGossipFrame(k, n)
      PROVE  Grows(db[m][l], db'[m][l])
  <2> DEFINE gm == [op |-> "GOSSIP_LISTS", lists |-> Head(channel[k][n])]
  <2>1. gm.lists \in Store /\ gm.op = "GOSSIP_LISTS"
    BY <1>0, <1>3, PullType DEF HandleGossipFrame
  <2>2. db' = [db EXCEPT ![n] = ApplyMessage(@, gm)]
    BY <1>3 DEF HandleGossipFrame
  <2>3. Grows(db[n][l], ApplyMessage(db[n], gm)[l])
    BY <1>0, <2>1, ApplyGrows
  <2> HIDE DEF gm
  <2> QED
    BY <1>0, <2>2, <2>3, GrowsReflexive
<1>4. HandleWrongShard(n) \/ HandleGetList(n) \/ PerformShardGossip(n)
        \/ (\E k \in Node : LoseGossip(k, n)) => UNCHANGED db
  BY DEF HandleWrongShard, HandleGetList, PerformShardGossip, LoseGossip, nodeVars
<1> QED
  BY <1>1, <1>2, <1>3, <1>4 DEF NodeStep

LEMMA FinishKeeps ==
  ASSUME TypeInv, ThreadAhead, NEW c \in Client, http[c].pc # "idle",
         NEW cloud \in List \cup {NoList}, FinishHttp(c, cloud),
         NEW d \in Client, NEW l \in ListUid
  PROVE  Grows(cdb[d][l], cdb'[d][l])
<1> DEFINE t == http[c]
           lst == MergedWithReply(t.lst, cloud)
<1>1. /\ t.lst \in List \cup {NoList} /\ t.uid \in ListUid
      /\ cdb \in [Client -> Store] /\ cdb[d][l] \in List \cup {NoList}
      /\ cdb[c][t.uid] \in List \cup {NoList}
  BY DEF TypeInv, TypeOK, ThreadUid, HttpThread, Store
<1>2. CASE t.kind \in {"create", "delete"} \/ lst = NoList
  BY <1>1, <1>2, GrowsReflexive DEF FinishHttp
<1>3. CASE ~ (t.kind \in {"create", "delete"} \/ lst = NoList)
  <2>1. cdb' = [cdb EXCEPT ![c][t.uid] = lst]
    BY <1>3 DEF FinishHttp
  <2>2. Grows(cdb[c][t.uid], t.lst)
    BY <1>3 DEF ThreadAhead
  <2>3. Grows(cdb[c][t.uid], lst)
    BY <1>1, <2>2, MergedGrows, MergedWithReplyType, GrowsTransitive
  <2> HIDE DEF lst
  <2>4. CASE d = c /\ l = t.uid
    BY <1>1, <2>1, <2>3, <2>4 DEF Store
  <2>5. CASE ~ (d = c /\ l = t.uid)
    <3>1. cdb'[d][l] = cdb[d][l]
      BY <1>1, <2>1, <2>5 DEF Store
    <3> QED
      BY <1>1, <3>1, GrowsReflexive
  <2> QED
    BY <2>4, <2>5
<1> QED
  BY <1>2, <1>3

LEMMA ClientsKeep ==
  ASSUME TypeInv, AllGood, ThreadAhead, NEW c \in Client, UserStep(c) \/ ClientStep(c),
         NEW d \in Client, NEW l \in ListUid
  PROVE  \/ Grows(cdb[d][l], cdb'[d][l])
         \/ cdb'[d][l] = NoList /\ http'[d].kind = "delete" /\ http'[d].uid = l
<1>0. /\ cdb \in [Client -> Store] /\ http \in [Client -> HttpThread]
      /\ replies \subseteq Reply /\ cdb[d][l] \in List \cup {NoList}
  BY DEF TypeInv, TypeOK, Store
<1>1. UNCHANGED cdb => Grows(cdb[d][l], cdb'[d][l])
  BY <1>0, GrowsReflexive
<1>2. ASSUME NEW name \in ListName, CreateShoppingList(c, name)
      PROVE  Grows(cdb[d][l], cdb'[d][l])
  <2>1. PICK k \in ListUid \ issued : cdb' = [cdb EXCEPT ![c][k] = NewList(name)]
    BY <1>2 DEF CreateShoppingList
  <2>2. cdb[c][k] = NoList
    BY DEF AllGood, GoodDatabases, GoodStore
  <2>3. CASE d = c /\ l = k
    BY <2>2, <2>3 DEF Grows
  <2>4. CASE ~ (d = c /\ l = k)
    <3>1. cdb'[d][l] = cdb[d][l]
      BY <1>0, <2>1, <2>4 DEF Store
    <3> QED
      BY <1>0, <3>1, GrowsReflexive
  <2> QED
    BY <2>3, <2>4
<1>3. ASSUME NEW k \in ListUid, DeleteShoppingList(c, k)
      PROVE  \/ Grows(cdb[d][l], cdb'[d][l])
             \/ cdb'[d][l] = NoList /\ http'[d].kind = "delete" /\ http'[d].uid = l
  <2>1. /\ cdb' = [cdb EXCEPT ![c][k] = NoList]
        /\ http' = [http EXCEPT ![c] =
                      [pc |-> "send", kind |-> "delete", uid |-> k, lst |-> NoList]]
    BY <1>3 DEF DeleteShoppingList, Begin
  <2>2. CASE d = c /\ l = k
    BY <1>0, <2>1, <2>2 DEF Store
  <2>3. CASE ~ (d = c /\ l = k)
    <3>1. cdb'[d][l] = cdb[d][l]
      BY <1>0, <2>1, <2>3 DEF Store
    <3> QED
      BY <1>0, <3>1, GrowsReflexive
  <2> QED
    BY <2>2, <2>3
<1>4. CASE HttpReply(c)
  <2>1. PICK p \in replies :
          FinishHttp(c, IF p.op = "LIST_RESPONSE" THEN p.lst ELSE NoList)
    BY <1>4 DEF HttpReply
  <2>2. http[c].pc # "idle" /\ p.lst \in List
    BY <1>0, <1>4 DEF HttpReply, Reply
  <2> QED
    BY <2>1, <2>2, FinishKeeps
<1>5. CASE HttpTimeout(c)
  <2>1. FinishHttp(c, NoList) /\ http[c].pc # "idle"
    BY <1>5 DEF HttpTimeout
  <2> QED
    BY <2>1, FinishKeeps
<1>6. ClientStep(c) => HttpReply(c) \/ HttpTimeout(c) \/ UNCHANGED cdb
  BY DEF ClientStep, HttpSend, GossipRead, GossipSend, GossipReply, GossipTimeout, CrashClient
<1>7. UserStep(c) =>
        \/ UNCHANGED cdb
        \/ \E name \in ListName : CreateShoppingList(c, name)
        \/ \E k \in ListUid : DeleteShoppingList(c, k)
  BY DEF UserStep, GetShoppingList, AddItem, UpdateItem, RemoveItem
<1> QED
  BY <1>1, <1>2, <1>3, <1>4, <1>5, <1>6, <1>7

(* Only a request to delete a list makes a stored copy forget what it knew:*)
(* write-back after a round trip, snapshots in any order, late requests and*)
(* crashes do not (CopiesOnlyGrow).                                        *)
THEOREM StoredCopiesOnlyGrow == Spec => CopiesOnlyGrow
<1>1. ASSUME TypeInv, AllGood, ThreadAhead, Next
      PROVE  NodeCopiesGrow /\ ClientCopiesGrow
  <2>0. /\ \A n \in Node, l \in ListUid : db[n][l] \in List \cup {NoList}
        /\ \A c \in Client, l \in ListUid : cdb[c][l] \in List \cup {NoList}
    BY <1>1 DEF TypeInv, TypeOK, Store
  <2>1. UNCHANGED db => NodeCopiesGrow
    BY <2>0, GrowsReflexive DEF NodeCopiesGrow, Keeps, Grows
  <2>2. UNCHANGED cdb => ClientCopiesGrow
    BY <2>0, GrowsReflexive DEF ClientCopiesGrow, Keeps, Grows
  <2>3. ASSUME NEW c \in Client, UserStep(c) \/ ClientStep(c)
        PROVE  NodeCopiesGrow /\ ClientCopiesGrow
    <3>1. UNCHANGED db
      BY <2>3 DEF UserStep, CreateShoppingList, GetShoppingList, DeleteShoppingList, AddItem,
                  UpdateItem, RemoveItem, ClientStep, HttpSend, HttpReply, HttpTimeout,
                  GossipRead, GossipSend, GossipReply, GossipTimeout, CrashClient, nodeVars
    <3>2. ClientCopiesGrow
      BY <1>1, <2>3, ClientsKeep DEF ClientCopiesGrow, Keeps, Grows
    <3> QED
      BY <2>1, <3>1, <3>2
  <2>4. ASSUME NEW n \in Node, NodeStep(n)
        PROVE  NodeCopiesGrow /\ ClientCopiesGrow
    <3>1. UNCHANGED cdb
      BY <2>4, NodeLeavesClients
    <3>2. NodeCopiesGrow
      BY <1>1, <2>4, NodesKeep DEF NodeCopiesGrow, Keeps, Grows, MayDeleteAt
    <3> QED
      BY <2>2, <3>1, <3>2
  <2> QED
    BY <1>1, <2>3, <2>4 DEF Next
<1>2. TypeInv /\ AllGood /\ ThreadAhead /\ [Next]_vars
        => [NodeCopiesGrow /\ ClientCopiesGrow]_vars
  BY <1>1
<1> QED
  BY <1>2, TypeInvHolds, AllGoodHolds, AheadHolds, PTL DEF Spec, CopiesOnlyGrow

-----------------------------------------------------------------------------
(***************************************************************************)
(* Who counts what.  own[c][l] is the copy of list l that client c goes on *)
(* from.  A copy is behind if it knows no more of a client's counts than   *)
(* the client's own copy does, whoever the client is.                      *)
(***************************************************************************)
ElementOf(lst, i) == IF lst = NoList THEN NoItem ELSE lst.items.elements[i]

Own == [c \in Client |-> [l \in ListUid |-> WorkingCopy(c, l)]]

Behind(lst, l, own) ==
  \A c \in Client, i \in ItemUid :
    BehindOwner(ElementOf(lst, i), ElementOf(own[c][l], i), c)

BehindStore(store, own) == \A l \in ListUid : Behind(store[l], l, own)

BehindNodes(own) ==
  /\ \A n \in Node : BehindStore(db[n], own)
  /\ \A m, n \in Node : \A s \in Queued(m, n) : BehindStore(s, own)

BehindDatabases(own) == \A c \in Client : BehindStore(cdb[c], own)

BehindHttp(own) ==
  \A c \in Client : http[c].pc # "idle" => Behind(http[c].lst, http[c].uid, own)

BehindGossip(own) == \A c \in Client : BehindStore(gossiper[c].lists, own)

BehindNet(own) ==
  /\ \A r \in wire : BehindStore(r.msg.lists, own)
  /\ \A p \in replies : Behind(p.lst, p.uid, own)

AllBehind(own) ==
  /\ BehindNodes(own) /\ BehindDatabases(own) /\ BehindHttp(own)
  /\ BehindGossip(own) /\ BehindNet(own)

(* Every client has counted in more all that it has counted in own.        *)
Raised(own, more) ==
  \A c \in Client, l \in ListUid, i \in ItemUid :
    BehindOwner(ElementOf(own[c][l], i), ElementOf(more[c][l], i), c)

LEMMA ElementOfType ==
  ASSUME NEW lst \in List \cup {NoList}, NEW i \in ItemUid
  PROVE  ElementOf(lst, i) \in Item \cup {NoItem}
BY ItemSetFields DEF ElementOf, List

LEMMA OwnType ==
  ASSUME TypeInv
  PROVE  /\ Own \in [Client -> Store]
         /\ \A c \in Client, l \in ListUid : Own[c][l] = WorkingCopy(c, l)
<1>1. ASSUME NEW c \in Client, NEW l \in ListUid
      PROVE  WorkingCopy(c, l) \in List \cup {NoList}
  BY DEF TypeInv, TypeOK, HttpThread, Store, WorkingCopy
<1> QED
  BY <1>1 DEF Own, Store

LEMMA OwnTypeNext ==
  ASSUME TypeInv'
  PROVE  Own' \in [Client -> Store]
<1>1. ASSUME NEW c \in Client, NEW l \in ListUid
      PROVE  WorkingCopy(c, l)' \in List \cup {NoList}
  BY DEF TypeInv, TypeOK, HttpThread, Store, WorkingCopy
<1> QED
  BY <1>1 DEF Own, Store

LEMMA OwnElement ==
  ASSUME NEW own \in [Client -> Store], NEW c \in Client, NEW l \in ListUid,
         NEW i \in ItemUid
  PROVE  ElementOf(own[c][l], i) \in Item \cup {NoItem}
<1>1. own[c][l] \in List \cup {NoList}
  BY DEF Store
<1> QED
  BY <1>1, ElementOfType

LEMMA BehindReflexive ==
  ASSUME NEW e \in Item \cup {NoItem}, NEW c \in Client
  PROVE  BehindOwner(e, e, c)
BY ElementCounters DEF BehindOwner, CountLeq, Counter, Client

(* A list with nothing in it is behind.                                    *)
LEMMA NothingBehind ==
  ASSUME NEW own \in [Client -> Store], NEW l \in ListUid, NEW lst,
         \A i \in ItemUid : ElementOf(lst, i) = NoItem
  PROVE  Behind(lst, l, own)
<1> SUFFICES ASSUME NEW c \in Client, NEW i \in ItemUid
             PROVE  BehindOwner(NoItem, ElementOf(own[c][l], i), c)
  BY DEF Behind
<1>1. ElementOf(own[c][l], i) \in Item \cup {NoItem}
  BY OwnElement
<1>2. ElementLeq(NoItem, ElementOf(own[c][l], i))
  BY DEF ElementLeq
<1> QED
  BY <1>1, <1>2, LeqRaisesCounts DEF Client

LEMMA EmptyBehind ==
  ASSUME NEW own \in [Client -> Store], NEW l \in ListUid
  PROVE  /\ Behind(NoList, l, own)
         /\ \A name \in ListName : Behind(NewList(name), l, own)
<1>1. \A i \in ItemUid : ElementOf(NoList, i) = NoItem
  BY DEF ElementOf
<1>2. \A name \in ListName, i \in ItemUid : ElementOf(NewList(name), i) = NoItem
  BY DEF ElementOf, NewList, EmptySet
<1> QED
  BY <1>1, <1>2, NothingBehind

LEMMA BehindMerge ==
  ASSUME NEW own \in [Client -> Store], NEW l \in ListUid, NEW x \in List, NEW y \in List,
         Behind(x, l, own), Behind(y, l, own)
  PROVE  Behind(ListMerge(x, y), l, own)
<1> SUFFICES ASSUME NEW c \in Client, NEW i \in ItemUid
             PROVE  BehindOwner(ElementOf(ListMerge(x, y), i), ElementOf(own[c][l], i), c)
  BY DEF Behind
<1>1. ElementOf(ListMerge(x, y), i) = ElementMerge(ElementOf(x, i), ElementOf(y, i))
  BY ListMergeType, NoListAssumption DEF ElementOf, ListMerge, SetMerge, List
<1>2. /\ ElementOf(x, i) \in Item \cup {NoItem} /\ ElementOf(y, i) \in Item \cup {NoItem}
      /\ ElementOf(own[c][l], i) \in Item \cup {NoItem}
  BY ElementOfType, OwnElement
<1>3. /\ BehindOwner(ElementOf(x, i), ElementOf(own[c][l], i), c)
      /\ BehindOwner(ElementOf(y, i), ElementOf(own[c][l], i), c)
  BY DEF Behind
<1> QED
  BY <1>1, <1>2, <1>3, MergedCounts DEF Client

LEMMA BehindMergedWithReply ==
  ASSUME NEW own \in [Client -> Store], NEW l \in ListUid,
         NEW lst \in List \cup {NoList}, NEW cloud \in List \cup {NoList},
         Behind(lst, l, own), Behind(cloud, l, own)
  PROVE  Behind(MergedWithReply(lst, cloud), l, own)
<1>1. CASE cloud = NoList
  BY <1>1 DEF MergedWithReply
<1>2. CASE cloud # NoList /\ lst = NoList
  BY <1>2 DEF MergedWithReply
<1>3. CASE cloud # NoList /\ lst # NoList
  <2>1. MergedWithReply(lst, cloud) = ListMerge(lst, cloud)
    BY <1>3 DEF MergedWithReply
  <2> QED
    BY <1>3, <2>1, BehindMerge
<1> QED
  BY <1>1, <1>2, <1>3

LEMMA BehindApply ==
  ASSUME NEW own \in [Client -> Store], NEW store \in Store, NEW msg, msg.lists \in Store,
         BehindStore(store, own), BehindStore(msg.lists, own)
  PROVE  BehindStore(ApplyMessage(store, msg), own)
<1> SUFFICES ASSUME NEW l \in ListUid
             PROVE  Behind(ApplyMessage(store, msg)[l], l, own)
  BY DEF BehindStore
<1>1. /\ store[l] \in List \cup {NoList} /\ Behind(store[l], l, own)
      /\ msg.lists[l] \in List \cup {NoList} /\ Behind(msg.lists[l], l, own)
  BY DEF Store, BehindStore
<1>2. msg.lists[l] # NoList => Behind(Received(store[l], msg.lists[l]), l, own)
  BY <1>1, BehindMerge, EmptyBehind, NewListType, EmptyNameAssumption DEF Received
<1>3. Behind(NoList, l, own)
  BY EmptyBehind
<1>4. CASE msg.op \in {"ENSURE_LIST", "GOSSIP_LISTS"}
  BY <1>1, <1>2, <1>4 DEF ApplyMessage
<1>5. CASE msg.op = "DELETE_LIST"
  BY <1>1, <1>3, <1>5 DEF ApplyMessage
<1>6. CASE msg.op \notin {"ENSURE_LIST", "GOSSIP_LISTS", "DELETE_LIST"}
  BY <1>1, <1>6 DEF ApplyMessage
<1> QED
  BY <1>4, <1>5, <1>6

(* What is behind stays behind when clients count on.                      *)
LEMMA BehindStays ==
  ASSUME TypeInv, NEW own \in [Client -> Store], NEW more \in [Client -> Store],
         Raised(own, more), AllBehind(own)
  PROVE  AllBehind(more)
<1>1. ASSUME NEW lst \in List \cup {NoList}, NEW l \in ListUid, Behind(lst, l, own)
      PROVE  Behind(lst, l, more)
  <2> SUFFICES ASSUME NEW c \in Client, NEW i \in ItemUid
               PROVE  BehindOwner(ElementOf(lst, i), ElementOf(more[c][l], i), c)
    BY DEF Behind
  <2>1. /\ BehindOwner(ElementOf(lst, i), ElementOf(own[c][l], i), c)
        /\ BehindOwner(ElementOf(own[c][l], i), ElementOf(more[c][l], i), c)
    BY <1>1 DEF Behind, Raised
  <2>2. /\ ElementOf(lst, i) \in Item \cup {NoItem}
        /\ ElementOf(own[c][l], i) \in Item \cup {NoItem}
        /\ ElementOf(more[c][l], i) \in Item \cup {NoItem}
    BY ElementOfType, OwnElement
  <2> QED
    BY <2>1, <2>2, BehindTransitive DEF Client
<1>2. ASSUME NEW store \in Store, BehindStore(store, own)
      PROVE  BehindStore(store, more)
  BY <1>1, <1>2 DEF BehindStore, Store
<1>3. /\ db \in [Node -> Store] /\ cdb \in [Client -> Store]
      /\ \A c \in Client : /\ gossiper[c].lists \in Store
                           /\ http[c].lst \in List \cup {NoList}
                           /\ http[c].pc # "idle" => http[c].uid \in ListUid
      /\ \A r \in wire : r.msg.lists \in Store
      /\ \A p \in replies : p.lst \in List /\ p.uid \in ListUid
  BY DEF TypeInv, TypeOK, ThreadUid, GossipThread, HttpThread, Request, Message, Reply
<1>4. ASSUME NEW m \in Node, NEW n \in Node, NEW s \in Queued(m, n)
      PROVE  s \in Store
  <2>1. channel[m][n] \in Seq(Store)
    BY DEF TypeInv, TypeOK
  <2> QED
    BY <1>4, <2>1 DEF Queued
<1>5. BehindNodes(more)
  BY <1>2, <1>3, <1>4 DEF AllBehind, BehindNodes
<1>6. BehindDatabases(more) /\ BehindGossip(more)
  BY <1>2, <1>3 DEF AllBehind, BehindDatabases, BehindGossip
<1>7. BehindHttp(more) /\ BehindNet(more)
  BY <1>1, <1>2, <1>3 DEF AllBehind, BehindHttp, BehindNet
<1> QED
  BY <1>5, <1>6, <1>7 DEF AllBehind

-----------------------------------------------------------------------------
(* A step leaves behind what it copies, merges, sends and takes.  The own  *)
(* copies are those of one moment here; how they change comes after.       *)

LEMMA BehindBegin ==
  ASSUME TypeInv, NEW own \in [Client -> Store], AllBehind(own), NEW c \in Client, NEW kind,
         NEW l \in ListUid, NEW lst, Begin(c, kind, l, lst), Behind(lst, l, own),
         UNCHANGED <<gossiper, netVars, nodeVars>>,
         \A d \in Client : BehindStore(cdb'[d], own)
  PROVE  AllBehind(own)'
<1>1. http' = [http EXCEPT ![c] = [pc |-> "send", kind |-> kind, uid |-> l, lst |-> lst]]
  BY DEF Begin
<1>2. BehindHttp(own)'
  BY <1>1 DEF AllBehind, BehindHttp, TypeInv, TypeOK
<1>3. BehindNodes(own)'
  <2>1. \A m, n \in Node : Queued(m, n)' = Queued(m, n)
    BY DEF Queued, nodeVars
  <2> QED
    BY <2>1 DEF AllBehind, BehindNodes, nodeVars
<1> QED
  BY <1>2, <1>3 DEF AllBehind, BehindDatabases, BehindGossip, BehindNet, netVars

LEMMA BehindFinish ==
  ASSUME TypeInv, NEW own \in [Client -> Store], AllBehind(own), NEW c \in Client,
         http[c].pc # "idle", NEW cloud \in List \cup {NoList},
         Behind(cloud, http[c].uid, own), FinishHttp(c, cloud)
  PROVE  BehindDatabases(own)' /\ BehindHttp(own)'
<1> DEFINE t == http[c]
           lst == MergedWithReply(t.lst, cloud)
<1>1. /\ t.lst \in List \cup {NoList} /\ t.uid \in ListUid /\ Behind(t.lst, t.uid, own)
      /\ cdb \in [Client -> Store] /\ http \in [Client -> HttpThread]
  BY DEF TypeInv, TypeOK, ThreadUid, HttpThread, AllBehind, BehindHttp
<1>2. Behind(lst, t.uid, own)
  BY <1>1, BehindMergedWithReply
<1>3. /\ cdb' = cdb \/ cdb' = [cdb EXCEPT ![c][t.uid] = lst]
      /\ http' = [http EXCEPT ![c] = HttpIdle]
  BY DEF FinishHttp
<1> HIDE DEF lst
<1>4. \A d \in Client : BehindStore(cdb[d], own)
  BY DEF AllBehind, BehindDatabases
<1>5. ASSUME NEW d \in Client, NEW l \in ListUid
      PROVE  Behind(cdb'[d][l], l, own)
  <2>1. Behind(cdb[d][l], l, own)
    BY <1>4 DEF BehindStore
  <2>2. CASE d = c /\ l = t.uid
    <3>1. cdb'[d][l] \in {cdb[d][l], lst}
      BY <1>1, <1>3, <2>2 DEF Store
    <3> QED
      BY <1>2, <2>1, <2>2, <3>1
  <2>3. CASE ~ (d = c /\ l = t.uid)
    <3>1. cdb'[d][l] = cdb[d][l]
      BY <1>1, <1>3, <2>3 DEF Store
    <3> QED
      BY <2>1, <3>1
  <2> QED
    BY <2>2, <2>3
<1>6. HttpIdle.pc = "idle"
  BY DEF HttpIdle
<1>7. BehindHttp(own)'
  BY <1>1, <1>3, <1>6 DEF AllBehind, BehindHttp
<1> QED
  BY <1>5, <1>7 DEF BehindDatabases, BehindStore

LEMMA BehindClient ==
  ASSUME TypeInv, RequestInv, NEW own \in [Client -> Store], AllBehind(own),
         NEW c \in Client, ClientStep(c)
  PROVE  AllBehind(own)'
<1>0. /\ UNCHANGED <<db, channel>>
      /\ http \in [Client -> HttpThread] /\ gossiper \in [Client -> GossipThread]
      /\ replies \subseteq Reply /\ wire \subseteq Request
  BY DEF ClientStep, HttpSend, HttpReply, HttpTimeout, GossipRead, GossipSend,
         GossipReply, GossipTimeout, CrashClient, nodeVars, TypeInv, TypeOK
<1>1. BehindNodes(own)'
  <2>1. \A m, n \in Node : Queued(m, n)' = Queued(m, n)
    BY <1>0 DEF Queued
  <2> QED
    BY <1>0, <2>1 DEF AllBehind, BehindNodes
<1>2. UNCHANGED cdb => BehindDatabases(own)'
  BY DEF AllBehind, BehindDatabases
<1>3. UNCHANGED http => BehindHttp(own)'
  BY DEF AllBehind, BehindHttp
<1>4. UNCHANGED gossiper => BehindGossip(own)'
  BY DEF AllBehind, BehindGossip
<1>5. ResetSocket(c) => BehindNet(own)'
  <2> SUFFICES ASSUME ResetSocket(c)
               PROVE  BehindNet(own)'
    OBVIOUS
  <2>1. \A r \in wire' : \E q \in wire : r.msg = q.msg
    BY <1>0, ResetContents
  <2>2. replies' \subseteq replies
    BY DEF ResetSocket
  <2> QED
    BY <2>1, <2>2 DEF AllBehind, BehindNet
<1>6. (\E p \in replies : TakeReply(c, p)) => BehindNet(own)'
  BY DEF AllBehind, BehindNet, TakeReply
<1>7. \A l \in ListUid : Behind(NoList, l, own) /\ Behind(NewList(EmptyName), l, own)
  BY EmptyBehind, EmptyNameAssumption
<1>8. FinishGossip(c) => BehindGossip(own)'
  <2>1. BehindStore(EmptyStore, own)
    BY <1>7 DEF BehindStore, EmptyStore
  <2>2. FinishGossip(c) =>
          \A d \in Client : gossiper'[d].lists \in {EmptyStore, gossiper[d].lists}
    BY <1>0 DEF FinishGossip, GossipIdle, GossipThread
  <2> QED
    BY <2>1, <2>2 DEF AllBehind, BehindGossip
<1>9. ASSUME NEW shard, NEW msg, BehindStore(msg.lists, own), SendCloudMessage(c, shard, msg)
      PROVE  BehindNet(own)'
  BY <1>9 DEF AllBehind, BehindNet, SendCloudMessage
<1>10. CASE HttpSend(c)
  <2> DEFINE t == http[c]
  <2>1. t.uid \in ListUid /\ Behind(t.lst, t.uid, own)
    BY <1>10 DEF HttpSend, AllBehind, BehindHttp, TypeInv, ThreadUid
  <2>2. \A lst : Behind(lst, t.uid, own) => BehindStore(Single(t.uid, lst), own)
    BY <1>7, <2>1 DEF Single, EmptyStore, BehindStore
  <2>3. BehindStore(CloudMessage(t).lists, own)
    <3>1. CASE t.kind = "get"
      BY <1>7, <2>1, <2>2, <3>1 DEF CloudMessage
    <3>2. CASE t.kind = "delete"
      BY <1>7, <2>1, <2>2, <3>2 DEF CloudMessage
    <3>3. CASE t.kind \notin {"get", "delete"}
      BY <2>1, <2>2, <3>3 DEF CloudMessage
    <3> QED
      BY <3>1, <3>2, <3>3
  <2>4. BehindNet(own)'
    BY <1>9, <1>10, <2>3 DEF HttpSend
  <2>5. BehindHttp(own)'
    <3>1. http' = [http EXCEPT ![c].pc = "wait"] /\ t.pc = "send"
      BY <1>10 DEF HttpSend
    <3>2. \A d \in Client : /\ http'[d].lst = http[d].lst /\ http'[d].uid = http[d].uid
                            /\ http'[d].pc # "idle" => http[d].pc # "idle"
      BY <1>0, <3>1 DEF HttpThread
    <3> QED
      BY <3>2 DEF AllBehind, BehindHttp
  <2> QED
    BY <1>1, <1>2, <1>4, <1>10, <2>4, <2>5 DEF AllBehind, HttpSend
<1>11. CASE HttpReply(c)
  <2>1. PICK p \in replies :
          /\ TakeReply(c, p)
          /\ FinishHttp(c, IF p.op = "LIST_RESPONSE" THEN p.lst ELSE NoList)
    BY <1>11 DEF HttpReply
  <2>2. http[c].pc = "wait" /\ p.uid = http[c].uid
    BY <1>11, <2>1 DEF HttpReply, RequestInv, AboutHttp, Answers, TakeReply
  <2>3. http[c].uid \in ListUid
    BY <2>2 DEF TypeInv, ThreadUid
  <2>4. p.lst \in List /\ Behind(p.lst, http[c].uid, own)
    BY <1>0, <2>2 DEF Reply, AllBehind, BehindNet
  <2>5. BehindDatabases(own)' /\ BehindHttp(own)'
    BY <1>7, <2>1, <2>2, <2>3, <2>4, BehindFinish
  <2>6. BehindNet(own)'
    BY <1>6, <2>1
  <2> QED
    BY <1>1, <1>4, <1>11, <2>5, <2>6 DEF AllBehind, HttpReply
<1>12. CASE HttpTimeout(c)
  <2>1. http[c].pc # "idle" /\ http[c].uid \in ListUid
    BY <1>12 DEF HttpTimeout, TypeInv, ThreadUid
  <2>2. BehindDatabases(own)' /\ BehindHttp(own)'
    BY <1>7, <1>12, <2>1, BehindFinish DEF HttpTimeout
  <2> QED
    BY <1>1, <1>4, <1>5, <1>12, <2>2 DEF AllBehind, HttpTimeout
<1>13. CASE GossipRead(c)
  <2>1. BehindGossip(own)'
    BY <1>0, <1>13 DEF GossipRead, AllBehind, BehindGossip, BehindDatabases
  <2>2. BehindNet(own)'
    BY <1>13 DEF AllBehind, BehindNet, GossipRead, netVars
  <2> QED
    BY <1>1, <1>2, <1>3, <1>13, <2>1, <2>2 DEF AllBehind, GossipRead
<1>14. CASE GossipSend(c)
  <2>1. PICK shard :
          SendCloudMessage(c, shard,
            [op |-> "GOSSIP_LISTS", lists |-> ShardLists(gossiper[c].lists, shard)])
    BY <1>14 DEF GossipSend
  <2>2. BehindStore(ShardLists(gossiper[c].lists, shard), own)
    BY <1>7 DEF AllBehind, BehindGossip, BehindStore, ShardLists
  <2>3. BehindNet(own)'
    BY <1>9, <2>1, <2>2
  <2>4. \A d \in Client : gossiper'[d].lists = gossiper[d].lists
    BY <1>0, <1>14 DEF GossipSend, GossipThread
  <2>5. BehindGossip(own)'
    BY <2>4 DEF AllBehind, BehindGossip
  <2> QED
    BY <1>1, <1>2, <1>3, <1>14, <2>3, <2>5 DEF AllBehind, GossipSend
<1>15. CASE GossipReply(c)
  BY <1>1, <1>2, <1>3, <1>6, <1>8, <1>15 DEF AllBehind, GossipReply
<1>16. CASE GossipTimeout(c)
  BY <1>1, <1>2, <1>3, <1>5, <1>8, <1>16 DEF AllBehind, GossipTimeout
<1>17. CASE CrashClient(c)
  <2>1. /\ http' = [http EXCEPT ![c] = HttpIdle]
        /\ gossiper' = [gossiper EXCEPT ![c] = GossipIdle]
    BY <1>17 DEF CrashClient
  <2>2. BehindStore(GossipIdle.lists, own) /\ HttpIdle.pc = "idle"
    BY <1>7 DEF BehindStore, GossipIdle, EmptyStore, HttpIdle
  <2>3. BehindHttp(own)' /\ BehindGossip(own)'
    BY <1>0, <2>1, <2>2 DEF AllBehind, BehindHttp, BehindGossip
  <2> QED
    BY <1>1, <1>2, <1>5, <1>17, <2>3 DEF AllBehind, CrashClient
<1> QED
  BY <1>10, <1>11, <1>12, <1>13, <1>14, <1>15, <1>16, <1>17 DEF ClientStep

LEMMA BehindPush ==
  ASSUME TypeInv, NEW own \in [Client -> Store], AllBehind(own), NEW n \in Node,
         NEW peers \in SUBSET Node, NEW snapshot \in Store,
         BehindStore(snapshot, own), Push(n, peers, snapshot)
  PROVE  \A x, y \in Node : \A s \in Queued(x, y)' : BehindStore(s, own)
<1> SUFFICES ASSUME NEW x \in Node, NEW y \in Node, NEW s \in Queued(x, y)'
             PROVE  BehindStore(s, own)
  OBVIOUS
<1>1. channel \in [Node -> [Node -> Seq(Store)]]
  BY DEF TypeInv, TypeOK
<1>2. s \in Queued(x, y) \/ (x = n /\ y \in peers /\ s = snapshot)
  BY <1>1, PushContents
<1> QED
  BY <1>2 DEF AllBehind, BehindNodes

LEMMA BehindPull ==
  ASSUME TypeInv, NEW own, AllBehind(own), NEW m \in Node, NEW n \in Node, Pull(m, n)
  PROVE  /\ \A x, y \in Node : \A s \in Queued(x, y)' : BehindStore(s, own)
         /\ BehindStore(Head(channel[m][n]), own)
BY PullContents DEF TypeInv, TypeOK, AllBehind, BehindNodes

LEMMA BehindAnswer ==
  ASSUME NEW own, AllBehind(own), NEW r \in wire, NEW op, NEW l, NEW lst,
         Behind(lst, l, own), Answer(r, op, l, lst)
  PROVE  BehindNet(own)'
BY DEF Answer, AllBehind, BehindNet

LEMMA BehindNode ==
  ASSUME TypeInv, NEW own \in [Client -> Store], AllBehind(own), NEW n \in Node, NodeStep(n)
  PROVE  AllBehind(own)'
<1>0. /\ UNCHANGED <<cdb, http, gossiper>>
      /\ db \in [Node -> Store] /\ channel \in [Node -> [Node -> Seq(Store)]]
      /\ \A m \in Node : BehindStore(db[m], own)
  BY DEF NodeStep, HandleWrongShard, HandleGetList, HandleUpdate, PerformShardGossip,
         HandleGossipFrame, LoseGossip, clientVars, TypeInv, TypeOK, AllBehind, BehindNodes
<1>1. BehindDatabases(own)' /\ BehindHttp(own)' /\ BehindGossip(own)'
  BY <1>0 DEF AllBehind, BehindDatabases, BehindHttp, BehindGossip
<1>2. UNCHANGED <<db, channel>> => BehindNodes(own)'
  <2>1. UNCHANGED channel => \A x, y \in Node : Queued(x, y)' = Queued(x, y)
    BY DEF Queued
  <2> QED
    BY <2>1 DEF AllBehind, BehindNodes
<1>3. UNCHANGED <<wire, replies>> => BehindNet(own)'
  BY DEF AllBehind, BehindNet
<1>4. \A l \in ListUid : Behind(NewList(EmptyName), l, own)
  BY EmptyBehind, EmptyNameAssumption
<1>5. CASE HandleWrongShard(n)
  <2>1. BehindNet(own)'
    BY <1>4, <1>5, BehindAnswer DEF HandleWrongShard
  <2> QED
    BY <1>1, <1>2, <1>5, <2>1 DEF AllBehind, HandleWrongShard, nodeVars
<1>6. CASE HandleGetList(n)
  <2>1. \A l \in ListUid : Behind(db[n][l], l, own)
    BY <1>0 DEF BehindStore
  <2>2. BehindNet(own)'
    BY <1>4, <1>6, <2>1, BehindAnswer DEF HandleGetList
  <2> QED
    BY <1>1, <1>2, <1>6, <2>2 DEF AllBehind, HandleGetList, nodeVars
<1>7. CASE HandleUpdate(n)
  <2>1. PICK r \in wire, l \in ListUid :
          /\ ClientFrame(n, r, l)
          /\ db' = [db EXCEPT ![n] = ApplyMessage(@, r.msg)]
          /\ EagerFanout(n, db'[n])
          /\ Answer(r, IF r.msg.op = "DELETE_LIST" THEN "NO_LIST_RESPONSE"
                                                   ELSE "LIST_RESPONSE",
                    l, r.msg.lists[l])
    BY <1>7 DEF HandleUpdate
  <2>2. /\ r.msg.lists \in Store /\ BehindStore(r.msg.lists, own)
        /\ Behind(r.msg.lists[l], l, own)
    BY <2>1, ClientFrameType DEF AllBehind, BehindNet, BehindStore
  <2>3. /\ db'[n] = ApplyMessage(db[n], r.msg)
        /\ db'[n] \in Store /\ BehindStore(db'[n], own)
    BY <1>0, <2>1, <2>2, ApplyMessageType, BehindApply
  <2>4. \A m \in Node : BehindStore(db'[m], own)
    BY <1>0, <2>1, <2>3
  <2>5. PICK peers \in SUBSET GossipTargets(n) : Push(n, peers, db'[n])
    BY <2>1 DEF EagerFanout
  <2>6. peers \in SUBSET Node
    BY DEF GossipTargets, ConnectedShard
  <2>7. BehindNodes(own)'
    BY <2>3, <2>4, <2>5, <2>6, BehindPush DEF BehindNodes
  <2>8. BehindNet(own)'
    BY <2>1, <2>2, BehindAnswer
  <2> QED
    BY <1>1, <2>7, <2>8 DEF AllBehind
<1>8. CASE PerformShardGossip(n)
  <2>1. PICK m \in GossipTargets(n) : Push(n, {m}, db[n])
    BY <1>8 DEF PerformShardGossip
  <2>2. {m} \in SUBSET Node /\ db[n] \in Store
    BY <1>0 DEF GossipTargets, ConnectedShard
  <2>3. BehindNodes(own)'
    BY <1>0, <1>8, <2>1, <2>2, BehindPush DEF BehindNodes, PerformShardGossip
  <2> QED
    BY <1>1, <1>3, <1>8, <2>3 DEF AllBehind, PerformShardGossip, netVars
<1>9. ASSUME NEW m \in Node, HandleGossipFrame(m, n)
      PROVE  AllBehind(own)'
  <2> DEFINE gm == [op |-> "GOSSIP_LISTS", lists |-> Head(channel[m][n])]
  <2>1. Pull(m, n) /\ db' = [db EXCEPT ![n] = ApplyMessage(@, gm)]
    BY <1>9 DEF HandleGossipFrame
  <2>2. gm.lists \in Store /\ BehindStore(gm.lists, own)
    BY <1>0, <2>1, PullType, BehindPull
  <2> HIDE DEF gm
  <2>3. BehindStore(ApplyMessage(db[n], gm), own)
    BY <1>0, <2>2, BehindApply
  <2>4. \A k \in Node : BehindStore(db'[k], own)
    BY <1>0, <2>1, <2>3
  <2>5. BehindNodes(own)'
    BY <2>1, <2>4, BehindPull DEF BehindNodes
  <2> QED
    BY <1>1, <1>3, <1>9, <2>5 DEF AllBehind, HandleGossipFrame, netVars
<1>10. ASSUME NEW m \in Node, LoseGossip(m, n)
       PROVE  AllBehind(own)'
  <2>1. BehindNodes(own)'
    BY <1>0, <1>10, BehindPull DEF BehindNodes, LoseGossip
  <2> QED
    BY <1>1, <1>3, <1>10, <2>1 DEF AllBehind, LoseGossip, netVars
<1> QED
  BY <1>5, <1>6, <1>7, <1>8, <1>9, <1>10 DEF NodeStep

-----------------------------------------------------------------------------
(* How own copies change: a client only ever counts on, as long as it does *)
(* not delete lists or crash between an edit and its storing.              *)

NoDeletesNoCrashes == "delete" \notin UserRequests /\ CrashClients = {}

(* A thread that is free has no list, and create has stored what it sends. *)
ThreadStores ==
  \A c \in Client :
    IF http[c].pc = "idle" THEN http[c].uid = NoUid
    ELSE /\ http[c].kind # "delete"
         /\ http[c].kind = "create" => cdb[c][http[c].uid] = http[c].lst

(* Client c makes new of old: what it counts is its own.                   *)
OwnEdit(c, old, new) ==
  \A i \in ItemUid :
    /\ BehindOwner(ElementOf(old, i), ElementOf(new, i), c)
    /\ \A d \in Client \ {c} : BehindOwner(ElementOf(new, i), ElementOf(old, i), d)

LEMMA OwnEditSame ==
  ASSUME NEW c \in Client, NEW old \in List \cup {NoList}, NEW new,
         \A i \in ItemUid : ElementOf(new, i) = ElementOf(old, i)
  PROVE  OwnEdit(c, old, new)
BY ElementOfType, BehindReflexive DEF OwnEdit

(* An edit of one item, of which it leaves the counts of others alone.     *)
LEMMA OwnEditItem ==
  ASSUME NEW c \in Client, NEW old \in List \cup {NoList}, NEW new, NEW i \in ItemUid,
         NEW e \in Item,
         \A j \in ItemUid : ElementOf(new, j) = IF j = i THEN e ELSE ElementOf(old, j),
         ElementLeq(ElementOf(old, i), e),
         OthersSame(Desired(ElementOf(old, i)), e.desired, c),
         OthersSame(Current(ElementOf(old, i)), e.current, c)
  PROVE  OwnEdit(c, old, new)
<1> SUFFICES ASSUME NEW j \in ItemUid
             PROVE  /\ BehindOwner(ElementOf(old, j), ElementOf(new, j), c)
                    /\ \A d \in Client \ {c} :
                         BehindOwner(ElementOf(new, j), ElementOf(old, j), d)
  BY DEF OwnEdit
<1>1. ElementOf(old, j) \in Item \cup {NoItem}
  BY ElementOfType
<1>2. CASE j # i
  BY <1>1, <1>2, BehindReflexive
<1>3. CASE j = i
  <2>1. BehindOwner(ElementOf(old, i), e, c)
    BY <1>1, <1>3, LeqRaisesCounts DEF Client
  <2>2. Desired(e) = e.desired /\ Current(e) = e.current
    BY NoItemAssumption DEF Desired, Current
  <2>3. Desired(ElementOf(old, i)) \in Counter /\ Current(ElementOf(old, i)) \in Counter
    BY <1>1, <1>3, ElementCounters
  <2>4. ASSUME NEW d \in Client \ {c}
        PROVE  BehindOwner(e, ElementOf(old, i), d)
    BY <2>2, <2>3 DEF BehindOwner, CountLeq, OthersSame, Counter, Client
  <2> QED
    BY <1>3, <2>1, <2>4
<1> QED
  BY <1>2, <1>3

LEMMA AddIsOwn ==
  ASSUME NEW c \in Client, NEW lst \in List, NEW i \in ItemUid, NEW body \in Body,
         NEW tag \in Tag, lst.items.elements[i] = NoItem
  PROVE  OwnEdit(c, lst, ListAdd(lst, i, c, body, tag))
<1> DEFINE e   == NewItem(c, body)
           new == ListAdd(lst, i, c, body, tag)
<1>1. lst # NoList /\ new # NoList
  BY ListAddType, NoListAssumption DEF Client
<1>2. \A j \in ItemUid : ElementOf(new, j) = IF j = i THEN e ELSE ElementOf(lst, j)
  BY <1>1 DEF ElementOf, ListAdd, SetAdd, List, ItemSet
<1>3. e \in Item /\ ElementOf(lst, i) = NoItem /\ ElementLeq(ElementOf(lst, i), e)
  BY <1>1, NewItemType DEF ElementOf, ElementLeq, Client
<1>4. /\ OthersSame(Desired(ElementOf(lst, i)), e.desired, c)
      /\ OthersSame(Current(ElementOf(lst, i)), e.current, c)
  BY <1>3, NewItemOwn DEF Desired, Current, Client
<1> HIDE DEF e, new
<1>5. OwnEdit(c, lst, new)
  BY <1>2, <1>3, <1>4, OwnEditItem
<1> QED
  BY <1>5 DEF new

LEMMA UpdateIsOwn ==
  ASSUME NEW c \in Client, NEW lst \in List, NEW i \in ItemUid, NEW body \in Body,
         NEW tag \in Tag, HasItem(lst, i)
  PROVE  OwnEdit(c, lst, ListUpdate(lst, i, c, body, tag))
<1> DEFINE old == lst.items.elements[i]
           e   == EditItem(old, c, body)
           new == ListUpdate(lst, i, c, body, tag)
<1>1. lst # NoList /\ new # NoList
  BY ListUpdateType, NoListAssumption DEF Client
<1>2. \A j \in ItemUid : ElementOf(new, j) = IF j = i THEN e ELSE ElementOf(lst, j)
  BY <1>1 DEF ElementOf, ListUpdate, SetAdd, List, ItemSet
<1>3. old \in Item /\ old # NoItem /\ ElementOf(lst, i) = old
  BY <1>1, ItemSetFields DEF HasItem, Values, List, ElementOf
<1>4. e \in Item /\ ElementLeq(old, e)
  BY <1>3, EditItemType, NoItemAssumption DEF ElementLeq, Client
<1>5. /\ OthersSame(Desired(old), e.desired, c)
      /\ OthersSame(Current(old), e.current, c)
  BY <1>3, SetQuantityOwn DEF Desired, Current, EditItem, Item, Client
<1> HIDE DEF e, new, old
<1>6. OwnEdit(c, lst, new)
  BY <1>2, <1>3, <1>4, <1>5, OwnEditItem
<1> QED
  BY <1>6 DEF new

LEMMA RemoveIsOwn ==
  ASSUME NEW c \in Client, NEW lst \in List, NEW i \in ItemUid
  PROVE  OwnEdit(c, lst, ListRemove(lst, i))
<1>1. lst # NoList /\ ListRemove(lst, i) # NoList
  BY ListRemoveType, NoListAssumption
<1>2. \A j \in ItemUid : ElementOf(ListRemove(lst, i), j) = ElementOf(lst, j)
  BY <1>1 DEF ElementOf, ListRemove, SetRemove, List, ItemSet
<1> QED
  BY <1>2, OwnEditSame

(* Every step of a user is an edit of the client's own counts.             *)
LEMMA UserEdits ==
  ASSUME TypeInv, AllGood, NoDeletesNoCrashes, NEW c \in Client, UserStep(c)
  PROVE  \E l \in ListUid, kind \in RequestKind \ {"delete"}, lst \in List \cup {NoList} :
           /\ Begin(c, kind, l, lst)
           /\ OwnEdit(c, cdb[c][l], lst)
           /\ \/ kind # "create" /\ UNCHANGED cdb
              \/ kind = "create" /\ cdb' = [cdb EXCEPT ![c][l] = lst]
                   /\ \A i \in ItemUid : ElementOf(lst, i) = NoItem
           /\ UNCHANGED <<gossiper, netVars, nodeVars>>
<1>0. \A l \in ListUid : cdb[c][l] \in List \cup {NoList} /\ Good(cdb[c][l], issued)
                           /\ (cdb[c][l] # NoList => l \in issued)
  BY DEF TypeInv, TypeOK, Store, AllGood, GoodDatabases, GoodStore
<1>1. ASSUME NEW name \in ListName, CreateShoppingList(c, name)
      PROVE  \E l \in ListUid, lst \in List :
               /\ Begin(c, "create", l, lst)
               /\ OwnEdit(c, cdb[c][l], lst)
               /\ cdb' = [cdb EXCEPT ![c][l] = lst]
               /\ \A i \in ItemUid : ElementOf(lst, i) = NoItem
               /\ UNCHANGED <<gossiper, netVars, nodeVars>>
  <2>1. PICK l \in ListUid \ issued :
          /\ Begin(c, "create", l, NewList(name))
          /\ cdb' = [cdb EXCEPT ![c][l] = NewList(name)]
    BY <1>1 DEF CreateShoppingList
  <2>2. NewList(name) \in List /\ \A i \in ItemUid : ElementOf(NewList(name), i) = NoItem
    BY NewListType DEF ElementOf, NewList, EmptySet
  <2>3. cdb[c][l] = NoList /\ \A i \in ItemUid : ElementOf(NoList, i) = NoItem
    BY <1>0 DEF ElementOf
  <2>4. OwnEdit(c, cdb[c][l], NewList(name))
    BY <2>2, <2>3, OwnEditSame
  <2>5. UNCHANGED <<gossiper, netVars, nodeVars>>
    BY <1>1 DEF CreateShoppingList
  <2> QED
    BY <2>1, <2>2, <2>4, <2>5
<1>2. ASSUME NEW l \in ListUid, GetShoppingList(c, l)
      PROVE  /\ Begin(c, "get", l, cdb[c][l]) /\ OwnEdit(c, cdb[c][l], cdb[c][l])
             /\ UNCHANGED <<cdb, gossiper, netVars, nodeVars>>
  BY <1>0, <1>2, OwnEditSame DEF GetShoppingList
<1>3. ASSUME NEW l \in ListUid, NEW body \in Body, AddItem(c, l, body)
      PROVE  \E lst \in List : /\ Begin(c, "add", l, lst) /\ OwnEdit(c, cdb[c][l], lst)
                               /\ UNCHANGED <<cdb, gossiper, netVars, nodeVars>>
  <2>1. PICK i \in ItemUid \ issued, tag \in 1 .. MaxClock :
          Begin(c, "add", l, ListAdd(cdb[c][l], i, c, body, tag))
    BY <1>3 DEF AddItem
  <2>2. tag \in Tag
    BY ReplicationAssumption DEF Tag
  <2>3. cdb[c][l] \in List /\ cdb[c][l] # NoList
    BY <1>0, <1>3 DEF AddItem
  <2>4. cdb[c][l].items.elements[i] = NoItem
    BY <1>0, <2>3 DEF Good
  <2>5. /\ ListAdd(cdb[c][l], i, c, body, tag) \in List
        /\ OwnEdit(c, cdb[c][l], ListAdd(cdb[c][l], i, c, body, tag))
    BY <2>2, <2>3, <2>4, ListAddType, AddIsOwn DEF Client
  <2>6. UNCHANGED <<cdb, gossiper, netVars, nodeVars>>
    BY <1>3 DEF AddItem
  <2> QED
    BY <2>1, <2>5, <2>6
<1>4. ASSUME NEW l \in ListUid, NEW i \in ItemUid, NEW body \in Body, UpdateItem(c, l, i, body)
      PROVE  \E lst \in List : /\ Begin(c, "update", l, lst) /\ OwnEdit(c, cdb[c][l], lst)
                               /\ UNCHANGED <<cdb, gossiper, netVars, nodeVars>>
  <2>1. PICK tag \in 1 .. MaxClock :
          Begin(c, "update", l, ListUpdate(cdb[c][l], i, c, body, tag))
    BY <1>4 DEF UpdateItem
  <2>2. tag \in Tag
    BY ReplicationAssumption DEF Tag
  <2>3. cdb[c][l] \in List /\ HasItem(cdb[c][l], i)
    BY <1>0, <1>4 DEF UpdateItem
  <2>4. /\ ListUpdate(cdb[c][l], i, c, body, tag) \in List
        /\ OwnEdit(c, cdb[c][l], ListUpdate(cdb[c][l], i, c, body, tag))
    BY <2>2, <2>3, ListUpdateType, UpdateIsOwn DEF Client
  <2>5. UNCHANGED <<cdb, gossiper, netVars, nodeVars>>
    BY <1>4 DEF UpdateItem
  <2> QED
    BY <2>1, <2>4, <2>5
<1>5. ASSUME NEW l \in ListUid, NEW i \in ItemUid, RemoveItem(c, l, i)
      PROVE  \E lst \in List : /\ Begin(c, "remove", l, lst) /\ OwnEdit(c, cdb[c][l], lst)
                               /\ UNCHANGED <<cdb, gossiper, netVars, nodeVars>>
  <2>1. /\ Begin(c, "remove", l, ListRemove(cdb[c][l], i)) /\ cdb[c][l] \in List
        /\ UNCHANGED <<cdb, gossiper, netVars, nodeVars>>
    BY <1>0, <1>5 DEF RemoveItem
  <2> QED
    BY <2>1, ListRemoveType, RemoveIsOwn
<1>6. \A l \in ListUid : ~ DeleteShoppingList(c, l)
  BY DEF DeleteShoppingList, Begin, NoDeletesNoCrashes
<1>7. CASE \E name \in ListName : CreateShoppingList(c, name)
  BY <1>1, <1>7 DEF RequestKind
<1>8. CASE \E l \in ListUid : GetShoppingList(c, l)
  BY <1>0, <1>2, <1>8 DEF RequestKind
<1>9. CASE \E l \in ListUid, body \in Body : AddItem(c, l, body)
  BY <1>3, <1>9 DEF RequestKind
<1>10. CASE \E l \in ListUid, i \in ItemUid, body \in Body : UpdateItem(c, l, i, body)
  BY <1>4, <1>10 DEF RequestKind
<1>11. CASE \E l \in ListUid, i \in ItemUid : RemoveItem(c, l, i)
  BY <1>5, <1>11 DEF RequestKind
<1> QED
  BY <1>6, <1>7, <1>8, <1>9, <1>10, <1>11 DEF UserStep

LEMMA StoresInit == Init => ThreadStores
BY DEF Init, ThreadStores, HttpIdle

LEMMA StoresNext ==
  TypeInv /\ AllGood /\ ThreadStores /\ NoDeletesNoCrashes /\ [Next]_vars => ThreadStores'
<1> SUFFICES ASSUME TypeInv, AllGood, ThreadStores, NoDeletesNoCrashes, [Next]_vars
             PROVE  ThreadStores'
  OBVIOUS
<1>0. /\ cdb \in [Client -> Store] /\ http \in [Client -> HttpThread]
      /\ \A c \in Client : http[c].pc # "idle" => http[c].uid \in ListUid
  BY DEF TypeInv, TypeOK, ThreadUid
<1>1. UNCHANGED <<cdb, http>> => ThreadStores'
  BY DEF ThreadStores
<1>2. ASSUME NEW c \in Client, UserStep(c)
      PROVE  ThreadStores'
  <2>1. PICK l \in ListUid, kind \in RequestKind \ {"delete"}, lst \in List \cup {NoList} :
          /\ Begin(c, kind, l, lst)
          /\ \/ kind # "create" /\ UNCHANGED cdb
             \/ kind = "create" /\ cdb' = [cdb EXCEPT ![c][l] = lst]
    BY <1>2, UserEdits
  <2>2. http' = [http EXCEPT ![c] = [pc |-> "send", kind |-> kind, uid |-> l, lst |-> lst]]
    BY <2>1 DEF Begin
  <2>3. \A d \in Client : d # c => cdb'[d] = cdb[d] /\ http'[d] = http[d]
    BY <1>0, <2>1, <2>2
  <2>4. kind = "create" => cdb'[c][l] = lst
    BY <1>0, <2>1 DEF Store
  <2>5. http'[c] = [pc |-> "send", kind |-> kind, uid |-> l, lst |-> lst]
    BY <1>0, <2>2
  <2> QED
    BY <2>3, <2>4, <2>5 DEF ThreadStores
<1>3. ASSUME NEW c \in Client, NEW cloud, FinishHttp(c, cloud)
      PROVE  ThreadStores'
  <2>1. /\ http' = [http EXCEPT ![c] = HttpIdle]
        /\ HttpIdle.pc = "idle" /\ HttpIdle.uid = NoUid
    BY <1>3 DEF FinishHttp, HttpIdle
  <2>2. \A d \in Client : d # c => cdb'[d] = cdb[d] /\ http'[d] = http[d]
    BY <1>0, <1>3 DEF FinishHttp
  <2>3. http'[c] = HttpIdle
    BY <1>0, <2>1
  <2> QED
    BY <2>1, <2>2, <2>3 DEF ThreadStores
<1>4. ASSUME NEW c \in Client, ClientStep(c)
      PROVE  ThreadStores'
  <2>1. CASE HttpSend(c)
    <3>1. http' = [http EXCEPT ![c].pc = "wait"] /\ http[c].pc = "send" /\ UNCHANGED cdb
      BY <2>1 DEF HttpSend
    <3>2. \A d \in Client : /\ http'[d].kind = http[d].kind /\ http'[d].uid = http[d].uid
                            /\ http'[d].lst = http[d].lst
                            /\ http'[d].pc = "idle" <=> http[d].pc = "idle"
      BY <1>0, <3>1 DEF HttpThread
    <3> QED
      BY <3>1, <3>2 DEF ThreadStores
  <2>2. CASE HttpReply(c) \/ HttpTimeout(c)
    BY <1>3, <2>2 DEF HttpReply, HttpTimeout
  <2>3. CASE GossipRead(c) \/ GossipSend(c) \/ GossipReply(c) \/ GossipTimeout(c)
    BY <1>1, <2>3 DEF GossipRead, GossipSend, GossipReply, GossipTimeout
  <2>4. ~ CrashClient(c)
    BY DEF CrashClient, NoDeletesNoCrashes
  <2> QED
    BY <1>4, <2>1, <2>2, <2>3, <2>4 DEF ClientStep
<1>5. ASSUME NEW n \in Node, NodeStep(n)
      PROVE  ThreadStores'
  BY <1>1, <1>5, NodeLeavesClients
<1>6. CASE UNCHANGED vars
  BY <1>1, <1>6 DEF vars
<1> QED
  BY <1>2, <1>4, <1>5, <1>6 DEF Next

(* A thread that starts goes on from what it makes of the stored copy.     *)
LEMMA BeginRaises ==
  ASSUME TypeInv, ThreadStores, NEW c \in Client, NEW kind, NEW l \in ListUid,
         NEW lst \in List \cup {NoList}, Begin(c, kind, l, lst), OwnEdit(c, cdb[c][l], lst),
         cdb' = cdb \/ cdb' = [cdb EXCEPT ![c][l] = lst], TypeInv'
  PROVE  Raised(Own, Own')
<1>0. /\ cdb \in [Client -> Store] /\ http \in [Client -> HttpThread] /\ http[c].pc = "idle"
      /\ http' = [http EXCEPT ![c] = [pc |-> "send", kind |-> kind, uid |-> l, lst |-> lst]]
  BY DEF TypeInv, TypeOK, Begin
<1>1. ASSUME NEW d \in Client, NEW k \in ListUid
      PROVE  /\ Own[d][k] = WorkingCopy(d, k)
             /\ Own'[d][k] = WorkingCopy(d, k)'
  BY DEF Own
<1>2. \A k \in ListUid : WorkingCopy(c, k) = cdb[c][k]
  BY <1>0, ReplicationAssumption DEF ThreadStores, WorkingCopy
<1>3. http'[c].uid = l /\ http'[c].lst = lst
  BY <1>0
<1>4. \A d \in Client, k \in ListUid : ~ (d = c /\ k = l) => cdb'[d][k] = cdb[d][k]
  BY <1>0 DEF Store
<1>5. \A d \in Client, k \in ListUid :
        WorkingCopy(d, k)' = IF d = c /\ k = l THEN lst ELSE WorkingCopy(d, k)
  <2> TAKE d \in Client, k \in ListUid
  <2>1. CASE d = c /\ k = l
    BY <1>3, <2>1 DEF WorkingCopy
  <2>2. CASE d = c /\ k # l
    BY <1>2, <1>3, <1>4, <2>2 DEF WorkingCopy
  <2>3. CASE d # c
    BY <1>0, <1>4, <2>3 DEF WorkingCopy
  <2> QED
    BY <2>1, <2>2, <2>3
<1> SUFFICES ASSUME NEW d \in Client, NEW k \in ListUid, NEW i \in ItemUid
             PROVE  BehindOwner(ElementOf(Own[d][k], i), ElementOf(Own'[d][k], i), d)
  BY DEF Raised
<1>6. CASE d = c /\ k = l
  BY <1>1, <1>2, <1>5, <1>6 DEF OwnEdit
<1>7. CASE ~ (d = c /\ k = l)
  <2>1. Own'[d][k] = Own[d][k]
    BY <1>1, <1>5, <1>7
  <2>2. ElementOf(Own[d][k], i) \in Item \cup {NoItem}
    BY OwnType, OwnElement
  <2> QED
    BY <2>1, <2>2, BehindReflexive
<1> QED
  BY <1>6, <1>7

(* A thread that ends leaves in the database all that it went on from.     *)
LEMMA FinishRaises ==
  ASSUME TypeInv, ThreadAhead, ThreadStores, NEW c \in Client, http[c].pc # "idle",
         NEW cloud \in List \cup {NoList}, FinishHttp(c, cloud)
  PROVE  Raised(Own, Own')
<1> DEFINE t == http[c]
           lst == MergedWithReply(t.lst, cloud)
<1>0. /\ cdb \in [Client -> Store] /\ http \in [Client -> HttpThread]
      /\ t.uid \in ListUid /\ t.lst \in List \cup {NoList}
      /\ http' = [http EXCEPT ![c] = HttpIdle] /\ HttpIdle.uid = NoUid
  BY DEF TypeInv, TypeOK, ThreadUid, HttpThread, FinishHttp, HttpIdle
<1>1. ASSUME NEW d \in Client, NEW k \in ListUid
      PROVE  /\ Own[d][k] = WorkingCopy(d, k)
             /\ Own'[d][k] = WorkingCopy(d, k)'
  BY DEF Own
<1>2. /\ lst \in List \cup {NoList} /\ Grows(t.lst, lst)
      /\ lst = NoList => t.lst = NoList
  BY <1>0, MergedWithReplyType, MergedGrows DEF Grows
<1>3. cdb' = IF t.kind \in {"create", "delete"} \/ lst = NoList
             THEN cdb ELSE [cdb EXCEPT ![c][t.uid] = lst]
  BY DEF FinishHttp
<1> HIDE DEF lst
<1>4. cdb'[c][t.uid] \in {t.lst, lst}
  <2>1. CASE t.kind = "create"
    BY <1>3, <2>1 DEF ThreadStores
  <2>2. CASE t.kind # "create" /\ lst = NoList
    <3>1. t.kind # "delete" /\ t.lst = NoList
      BY <1>2, <2>2 DEF ThreadStores
    <3>2. Grows(cdb[c][t.uid], t.lst)
      BY <2>2, <3>1 DEF ThreadAhead
    <3> QED
      BY <1>3, <2>2, <3>1, <3>2 DEF Grows
  <2>3. CASE t.kind # "create" /\ lst # NoList
    <3>1. t.kind # "delete"
      BY DEF ThreadStores
    <3> QED
      BY <1>0, <1>3, <2>3, <3>1 DEF Store
  <2> QED
    BY <2>1, <2>2, <2>3
<1>5. \A i \in ItemUid :
        BehindOwner(ElementOf(t.lst, i), ElementOf(cdb'[c][t.uid], i), c)
  <2> TAKE i \in ItemUid
  <2>1. ElementOf(t.lst, i) \in Item \cup {NoItem} /\ ElementOf(lst, i) \in Item \cup {NoItem}
    BY <1>0, <1>2, ElementOfType
  <2>2. ElementLeq(ElementOf(t.lst, i), ElementOf(lst, i))
    BY <1>2 DEF Grows, ListLeq, SetLeq, ElementOf, ElementLeq
  <2>3. /\ BehindOwner(ElementOf(t.lst, i), ElementOf(t.lst, i), c)
        /\ BehindOwner(ElementOf(t.lst, i), ElementOf(lst, i), c)
    BY <2>1, <2>2, BehindReflexive, LeqRaisesCounts DEF Client
  <2> QED
    BY <1>4, <2>3
<1>6. \A d \in Client, k \in ListUid : ~ (d = c /\ k = t.uid) => cdb'[d][k] = cdb[d][k]
  BY <1>0, <1>3 DEF Store
<1>7. \A d \in Client, k \in ListUid :
        WorkingCopy(d, k)' = IF d = c THEN cdb'[c][k] ELSE WorkingCopy(d, k)
  <2> TAKE d \in Client, k \in ListUid
  <2>1. CASE d = c
    <3>1. http'[c].uid = NoUid
      BY <1>0
    <3> QED
      BY <2>1, <3>1, ReplicationAssumption DEF WorkingCopy
  <2>2. CASE d # c
    BY <1>0, <1>6, <2>2 DEF WorkingCopy
  <2> QED
    BY <2>1, <2>2
<1>8. WorkingCopy(c, t.uid) = t.lst
  BY DEF WorkingCopy
<1>9. \A k \in ListUid : k # t.uid => WorkingCopy(c, k) = cdb'[c][k]
  BY <1>6 DEF WorkingCopy
<1> SUFFICES ASSUME NEW d \in Client, NEW k \in ListUid, NEW i \in ItemUid
             PROVE  BehindOwner(ElementOf(Own[d][k], i), ElementOf(Own'[d][k], i), d)
  BY DEF Raised
<1>10. CASE d = c /\ k = t.uid
  BY <1>1, <1>5, <1>7, <1>8, <1>10
<1>11. CASE ~ (d = c /\ k = t.uid)
  <2>1. Own'[d][k] = Own[d][k]
    BY <1>1, <1>7, <1>9, <1>11
  <2>2. ElementOf(Own[d][k], i) \in Item \cup {NoItem}
    BY OwnType, OwnElement
  <2> QED
    BY <2>1, <2>2, BehindReflexive
<1> QED
  BY <1>10, <1>11

LEMMA SameRaises ==
  ASSUME TypeInv, \A c \in Client, l \in ListUid : WorkingCopy(c, l)' = WorkingCopy(c, l)
  PROVE  Raised(Own, Own')
<1>1. \A c \in Client, l \in ListUid : Own'[c][l] = Own[c][l]
  BY DEF Own
<1>2. \A c \in Client, l \in ListUid, i \in ItemUid :
        ElementOf(Own[c][l], i) \in Item \cup {NoItem}
  BY OwnType, OwnElement
<1> QED
  BY <1>1, <1>2, BehindReflexive DEF Raised

LEMMA ClientRaises ==
  ASSUME TypeInv, ThreadAhead, ThreadStores, NoDeletesNoCrashes, NEW c \in Client, ClientStep(c)
  PROVE  Raised(Own, Own')
<1>0. http \in [Client -> HttpThread] /\ replies \subseteq Reply
  BY DEF TypeInv, TypeOK
<1>1. CASE HttpSend(c)
  <2>1. http' = [http EXCEPT ![c].pc = "wait"] /\ UNCHANGED cdb
    BY <1>1 DEF HttpSend
  <2>2. \A d \in Client : http'[d].uid = http[d].uid /\ http'[d].lst = http[d].lst
    BY <1>0, <2>1 DEF HttpThread
  <2>3. \A d \in Client, l \in ListUid : WorkingCopy(d, l)' = WorkingCopy(d, l)
    BY <2>1, <2>2 DEF WorkingCopy
  <2> QED
    BY <2>3, SameRaises
<1>2. CASE HttpReply(c)
  <2>1. PICK p \in replies :
          FinishHttp(c, IF p.op = "LIST_RESPONSE" THEN p.lst ELSE NoList)
    BY <1>2 DEF HttpReply
  <2>2. http[c].pc # "idle" /\ p.lst \in List
    BY <1>0, <1>2 DEF HttpReply, Reply
  <2> QED
    BY <2>1, <2>2, FinishRaises
<1>3. CASE HttpTimeout(c)
  <2>1. FinishHttp(c, NoList) /\ http[c].pc # "idle"
    BY <1>3 DEF HttpTimeout
  <2> QED
    BY <2>1, FinishRaises
<1>4. CASE GossipRead(c) \/ GossipSend(c) \/ GossipReply(c) \/ GossipTimeout(c)
  <2>1. UNCHANGED <<cdb, http>>
    BY <1>4 DEF GossipRead, GossipSend, GossipReply, GossipTimeout
  <2> QED
    BY <2>1, SameRaises DEF WorkingCopy
<1>5. ~ CrashClient(c)
  BY DEF CrashClient, NoDeletesNoCrashes
<1> QED
  BY <1>1, <1>2, <1>3, <1>4, <1>5 DEF ClientStep

(* What a user's step makes is behind, once its maker goes on from it.     *)
LEMMA EditBehind ==
  ASSUME TypeInv, TypeInv', AllBehind(Own), NEW c \in Client, NEW l \in ListUid,
         NEW lst \in List \cup {NoList}, OwnEdit(c, cdb[c][l], lst),
         Raised(Own, Own'), Own'[c][l] = lst
  PROVE  Behind(lst, l, Own')
<1> SUFFICES ASSUME NEW d \in Client, NEW i \in ItemUid
             PROVE  BehindOwner(ElementOf(lst, i), ElementOf(Own'[d][l], i), d)
  BY DEF Behind
<1>1. cdb[c][l] \in List \cup {NoList}
  BY DEF TypeInv, TypeOK, Store
<1>2. /\ ElementOf(lst, i) \in Item \cup {NoItem}
      /\ ElementOf(cdb[c][l], i) \in Item \cup {NoItem}
      /\ ElementOf(Own[d][l], i) \in Item \cup {NoItem}
  BY <1>1, ElementOfType, OwnType, OwnElement
<1>3. ElementOf(Own'[d][l], i) \in Item \cup {NoItem}
  BY OwnTypeNext, OwnElement
<1>4. CASE d = c
  BY <1>2, <1>4, BehindReflexive
<1>5. CASE d # c
  <2>1. BehindOwner(ElementOf(lst, i), ElementOf(cdb[c][l], i), d)
    BY <1>5 DEF OwnEdit
  <2>2. BehindOwner(ElementOf(cdb[c][l], i), ElementOf(Own[d][l], i), d)
    BY DEF AllBehind, BehindDatabases, BehindStore, Behind
  <2>3. BehindOwner(ElementOf(Own[d][l], i), ElementOf(Own'[d][l], i), d)
    BY DEF Raised
  <2>4. BehindOwner(ElementOf(lst, i), ElementOf(Own[d][l], i), d)
    BY <1>2, <2>1, <2>2, BehindTransitive DEF Client
  <2> QED
    BY <1>2, <1>3, <2>3, <2>4, BehindTransitive DEF Client
<1> QED
  BY <1>4, <1>5

LEMMA OwnInit == Init => AllBehind(Own)
<1> SUFFICES ASSUME Init
             PROVE  AllBehind(Own)
  OBVIOUS
<1>1. Own \in [Client -> Store]
  BY TypeInvInit, OwnType
<1>2. BehindStore(EmptyStore, Own)
  BY <1>1, EmptyBehind DEF BehindStore, EmptyStore
<1>3. \A m, n \in Node : Queued(m, n) = {}
  BY DEF Init, Queued
<1> HIDE DEF Own
<1> QED
  BY <1>2, <1>3 DEF Init, AllBehind, BehindNodes, BehindDatabases, BehindHttp, BehindGossip,
                    BehindNet, HttpIdle, GossipIdle

LEMMA OwnNext ==
  /\ TypeInv /\ TypeInv' /\ AllGood /\ ThreadAhead /\ RequestInv
  /\ ThreadStores /\ NoDeletesNoCrashes /\ AllBehind(Own) /\ [Next]_vars
  => AllBehind(Own)'
<1> SUFFICES ASSUME TypeInv, TypeInv', AllGood, ThreadAhead, RequestInv, ThreadStores,
                    NoDeletesNoCrashes, AllBehind(Own), [Next]_vars
             PROVE  AllBehind(Own)'
  OBVIOUS
<1>1. PICK own : own = Own'
  OBVIOUS
<1>2. own \in [Client -> Store] /\ Own \in [Client -> Store]
  BY <1>1, OwnType, OwnTypeNext
<1>3. AllBehind(own)' => AllBehind(Own)'
  BY <1>1 DEF AllBehind, BehindNodes, BehindDatabases, BehindHttp, BehindGossip, BehindNet
<1>4. Raised(Own, Own') => AllBehind(own)
  BY <1>1, <1>2, BehindStays
<1>5. ASSUME NEW c \in Client, UserStep(c)
      PROVE  AllBehind(own)'
  <2>1. PICK l \in ListUid, kind \in RequestKind \ {"delete"}, lst \in List \cup {NoList} :
          /\ Begin(c, kind, l, lst)
          /\ OwnEdit(c, cdb[c][l], lst)
          /\ \/ kind # "create" /\ UNCHANGED cdb
             \/ kind = "create" /\ cdb' = [cdb EXCEPT ![c][l] = lst]
                  /\ \A i \in ItemUid : ElementOf(lst, i) = NoItem
          /\ UNCHANGED <<gossiper, netVars, nodeVars>>
    BY <1>5, UserEdits
  <2>2. Raised(Own, Own')
    BY <2>1, BeginRaises
  <2>3. Own'[c][l] = lst
    BY <2>1 DEF Own, WorkingCopy, Begin, TypeInv, TypeOK
  <2>4. Behind(lst, l, own)
    BY <1>1, <2>1, <2>2, <2>3, EditBehind
  <2>5. AllBehind(own)
    BY <1>4, <2>2
  <2>6. \A d \in Client : BehindStore(cdb'[d], own)
    <3>1. /\ cdb \in [Client -> Store]
          /\ \A d \in Client, k \in ListUid : Behind(cdb[d][k], k, own)
      BY <2>5 DEF TypeInv, TypeOK, AllBehind, BehindDatabases, BehindStore
    <3>2. ASSUME NEW d \in Client, NEW k \in ListUid
          PROVE  cdb'[d][k] = cdb[d][k] \/ (k = l /\ cdb'[d][k] = lst)
      BY <2>1, <3>1 DEF Store
    <3> QED
      BY <2>4, <3>1, <3>2 DEF BehindStore
  <2> QED
    BY <1>2, <2>1, <2>4, <2>5, <2>6, BehindBegin
<1>6. ASSUME NEW c \in Client, ClientStep(c)
      PROVE  AllBehind(own)'
  BY <1>2, <1>4, <1>6, ClientRaises, BehindClient
<1>7. ASSUME NEW n \in Node, NodeStep(n)
      PROVE  AllBehind(own)'
  <2>1. UNCHANGED <<cdb, http>>
    BY <1>7, NodeLeavesClients
  <2>2. Raised(Own, Own')
    BY <2>1, SameRaises DEF WorkingCopy
  <2> QED
    BY <1>2, <1>4, <1>7, <2>2, BehindNode
<1>8. CASE UNCHANGED vars
  <2>1. \A m, n \in Node : Queued(m, n)' = Queued(m, n)
    BY <1>8 DEF Queued, vars
  <2>2. Raised(Own, Own')
    BY <1>8, SameRaises DEF WorkingCopy, vars
  <2>3. AllBehind(own)'
    BY <1>4, <1>8, <2>1, <2>2 DEF AllBehind, BehindNodes, BehindDatabases, BehindHttp,
                                  BehindGossip, BehindNet, vars
  <2> QED
    BY <1>3, <2>3
<1> QED
  BY <1>3, <1>5, <1>6, <1>7, <1>8 DEF Next

(* A copy that is behind has no entry above the owner's.                   *)
LEMMA BehindEntries ==
  ASSUME NEW lst, NEW mine, NEW c \in Client, NEW i \in ItemUid,
         BehindOwner(ElementOf(lst, i), ElementOf(mine, i), c),
         NEW q \in {"desired", "current"}, NEW sign \in {"pos", "neg"}
  PROVE  Entry(lst, i, q, sign, c) <= Entry(mine, i, q, sign, c)
<1>1. \A x : /\ Entry(x, i, "desired", "pos", c) = Desired(ElementOf(x, i)).pos[c]
             /\ Entry(x, i, "desired", "neg", c) = Desired(ElementOf(x, i)).neg[c]
             /\ Entry(x, i, "current", "pos", c) = Current(ElementOf(x, i)).pos[c]
             /\ Entry(x, i, "current", "neg", c) = Current(ElementOf(x, i)).neg[c]
  BY DEF Entry, ElementOf, Desired, Current, ZeroCounter, Client
<1> QED
  BY <1>1 DEF BehindOwner, CountLeq

(* As long as no list is deleted and no client dies between an edit and its*)
(* storing, no copy anywhere knows more of a client's counts than the copy *)
(* the client goes on from, whatever is edited, lost, late or merged in any*)
(* order, so that no count is ever used twice.                             *)
THEOREM ClientsStayAhead ==
  ASSUME "delete" \notin UserRequests, CrashClients = {}
  PROVE  Spec => []OwnerAhead
<1>0. NoDeletesNoCrashes
  BY DEF NoDeletesNoCrashes
<1>1. Spec => []TypeInv /\ []AllGood /\ []ThreadAhead /\ []RequestInv
  BY TypeInvHolds, AllGoodHolds, AheadHolds, RequestInvInit, RequestInvNext, PTL DEF Spec
<1>2. Spec => []ThreadStores
  BY <1>0, <1>1, StoresInit, StoresNext, PTL DEF Spec
<1>3. Spec => [](AllBehind(Own))
  BY <1>0, <1>1, <1>2, OwnInit, OwnNext, PTL DEF Spec
<1>4. TypeInv /\ ThreadStores /\ AllBehind(Own) => OwnerAhead
  <2> SUFFICES ASSUME TypeInv, ThreadStores, AllBehind(Own), NEW l \in ListUid,
                      NEW lst \in Copies(l)
               PROVE  \A c \in Client, i \in ItemUid, q \in {"desired", "current"},
                         sign \in {"pos", "neg"} :
                        Entry(lst, i, q, sign, c) <= Entry(WorkingCopy(c, l), i, q, sign, c)
    BY DEF OwnerAhead
  <2>1. Behind(lst, l, Own)
    <3>1. CASE lst \in StoredCopies(l)
      BY <3>1 DEF StoredCopies, AllBehind, BehindNodes, BehindDatabases, BehindStore
    <3>2. CASE lst \in WorkingCopies(l)
      <4>1. CASE \E c \in Client : lst = WorkingCopy(c, l)
        BY <4>1, ReplicationAssumption
           DEF WorkingCopy, AllBehind, BehindHttp, BehindDatabases, BehindStore, ThreadStores
      <4>2. CASE \E c \in Client : lst = gossiper[c].lists[l]
        BY <4>2 DEF AllBehind, BehindGossip, BehindStore
      <4> QED
        BY <3>2, <4>1, <4>2 DEF WorkingCopies
    <3>3. CASE \E r \in wire : lst = r.msg.lists[l]
      BY <3>3 DEF AllBehind, BehindNet, BehindStore
    <3>4. CASE \E p \in replies : p.uid = l /\ lst = p.lst
      BY <3>4 DEF AllBehind, BehindNet
    <3>5. CASE \E m, n \in Node : \E k \in DOMAIN channel[m][n] : lst = channel[m][n][k][l]
      BY <3>5 DEF AllBehind, BehindNodes, BehindStore, Queued
    <3> QED
      BY <3>1, <3>2, <3>3, <3>4, <3>5 DEF Copies, TravellingCopies
  <2>2. \A c \in Client : Own[c][l] = WorkingCopy(c, l)
    BY OwnType
  <2> QED
    BY <2>1, <2>2, BehindEntries DEF Behind
<1> QED
  BY <1>1, <1>2, <1>3, <1>4, PTL

=============================================================================
