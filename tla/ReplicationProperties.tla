------------------------ MODULE ReplicationProperties ------------------------
(***************************************************************************)
(* What Replication should guarantee: where lists may be stored, what a    *)
(* copy may never lose, which reply a thread gets, and that copies of a    *)
(* list converge.                                                          *)
(***************************************************************************)
EXTENDS Replication

(* The copy of list l that client c goes on from: the one its HTTP thread  *)
(* works on, or the one in its database.                                   *)
WorkingCopy(c, l) == IF http[c].uid = l THEN http[c].lst ELSE cdb[c][l]

StoredCopies(l) ==
  {db[n][l] : n \in Node} \cup {cdb[c][l] : c \in Client}

WorkingCopies(l) ==
  {WorkingCopy(c, l) : c \in Client} \cup {gossiper[c].lists[l] : c \in Client}

TravellingCopies(l) ==
  {r.msg.lists[l] : r \in wire}
    \cup {p.lst : p \in {q \in replies : q.uid = l}}
    \cup UNION {{channel[m][n][k][l] : k \in DOMAIN channel[m][n]} :
                  m \in Node, n \in Node}

(* Every copy of list l that exists anywhere.                              *)
Copies(l) ==
  (StoredCopies(l) \cup WorkingCopies(l) \cup TravellingCopies(l)) \ {NoList}

-----------------------------------------------------------------------------
(* Safety.                                                                 *)

(***************************************************************************)
(* A node stores only lists of its own shard, although it checks only the  *)
(* first list of a client's message (node.cpp:150) and no list of a gossip *)
(* message, and although the client's endpoint table may be wrong.         *)
(***************************************************************************)
ShardPurity ==
  \A n \in Node, l \in ListUid : db[n][l] # NoList => RightShard(n, l)

(***************************************************************************)
(* Whatever is edited, merged, overwritten or in transit: a removed tag is *)
(* one that was added, and an item with tags has its element, so that      *)
(* contains() and values() agree on every copy.                            *)
(***************************************************************************)
CopiesWellFormed ==
  \A l \in ListUid : \A lst \in Copies(l) : WellFormedSet(lst.items)

(***************************************************************************)
(* At most one request of a client is unanswered, a reply reaches a client *)
(* only while a thread waits for it, and the HTTP thread never gets a reply*)
(* about another list than the one it asked for: the lists[0] it merges    *)
(* into its working copy (api.cpp:132, 168) is never checked for its uid.  *)
(***************************************************************************)
ReplyForCurrentRequest ==
  \A c \in Client :
    LET asked    == {r \in wire : r.client = c}
        answered == {p \in replies : p.client = c}
    IN  /\ Cardinality(asked) + Cardinality(answered) <= 1
        /\ asked \cup answered # {} => SocketBusy(c)
        /\ http[c].pc = "wait" =>
             \A p \in answered : gossiper[c].pc # "wait" /\ p.uid = http[c].uid

(* The count origin o has contributed to a quantity of item i in copy lst. *)
Entry(lst, i, q, sign, o) ==
  IF lst = NoList THEN 0
  ELSE IF lst.items.elements[i] = NoItem THEN 0
  ELSE lst.items.elements[i][q][sign][o]

(***************************************************************************)
(* No copy anywhere knows more of a client's increments and decrements than*)
(* the client itself goes on from: what 'local-first' (README.md:7) means  *)
(* for counts.  Otherwise the client's next edit reuses a count that others*)
(* have already seen, and the max in PNCounter::merge drops it.            *)
(***************************************************************************)
OwnerAhead ==
  \A l \in ListUid : \A lst \in Copies(l) :
    \A c \in Client, i \in ItemUid, q \in {"desired", "current"},
       sign \in {"pos", "neg"} :
         Entry(lst, i, q, sign, c) <= Entry(WorkingCopy(c, l), i, q, sign, c)

(* A stored copy that is kept knows all it knew; it goes only if allowed.  *)
Keeps(old, new, mayDelete) ==
  \/ old = NoList
  \/ new = NoList /\ mayDelete
  \/ new # NoList /\ ListLeq(old, new)

(* Node tables in a step: the list goes only in a request to delete it.    *)
NodeCopiesGrow ==
  \A n \in Node, l \in ListUid :
    Keeps(db[n][l], db'[n][l],
          \E r \in wire : /\ r.node = n /\ r.msg.op = "DELETE_LIST"
                          /\ r.msg.lists[l] # NoList)

(* Client tables in a step: the list goes only when the user deletes it.   *)
ClientCopiesGrow ==
  \A c \in Client, l \in ListUid :
    Keeps(cdb[c][l], cdb'[c][l], http'[c].kind = "delete" /\ http'[c].uid = l)

(***************************************************************************)
(* No stored copy ever forgets an add, a removal or a count, unless the    *)
(* whole list is deleted by a request to do so.  Clients write back a copy *)
(* they read before a network round trip, and nodes write what arrives in  *)
(* whatever order it does.                                                 *)
(***************************************************************************)
CopiesOnlyGrow == [][NodeCopiesGrow /\ ClientCopiesGrow]_vars

-----------------------------------------------------------------------------
(* Liveness.                                                               *)

(* The request that a node works on in this step is one of client c.       *)
Serves(c) == \E r \in wire \ wire' : r.client = c

(* A snapshot that n pushes to m.                                          *)
PushTo(n, m) == PerformShardGossip(n) /\ channel'[n][m] # channel[n][m]

(***************************************************************************)
(* Threads and timers run on.  The network may lose any message, but not   *)
(* every one of a kind that is sent again and again, and the PUSH socket   *)
(* deals to its peers in turn.  The two threads of a client both get the   *)
(* socket, though not in turn.                                             *)
(***************************************************************************)
Fairness ==
  /\ \A n \in Node : \A m \in Node \ {n} :
       SF_vars(PushTo(n, m)) /\ SF_vars(HandleGossipFrame(n, m))
  /\ \A n \in Node, c \in Client : SF_vars(HandleUpdate(n) /\ Serves(c))
  /\ \A c \in Client :
       /\ SF_vars(HttpSend(c)) /\ WF_vars(HttpTimeout(c))
       /\ WF_vars(GossipRead(c)) /\ SF_vars(GossipSend(c))
       /\ WF_vars(GossipTimeout(c))

FairSpec == Spec /\ Fairness

(* Users load their lists again and again, and are not always cut off from *)
(* a node they ask.                                                        *)
Reloading ==
  \A c \in Client :
    /\ \A l \in ListUid : SF_vars(GetShoppingList(c, l))
    /\ \A n \in Node : SF_vars(HandleGetList(n) /\ Serves(c))
    /\ SF_vars(HttpReply(c))

ReloadingSpec == FairSpec /\ Reloading

(* The nodes of the shard of list l.                                       *)
Replicas(l) == {n \in Node : RightShard(n, l)}

(***************************************************************************)
(* README.md:9, 'to achieve eventual consistency': once no user deletes any*)
(* more, what a client has stored gets to every node of the shard, whatever*)
(* is lost, and the nodes end up with the same adds, removals and counts.  *)
(* A deletion is carried out by the one node that got it (node.cpp:206) and*)
(* no gossip tells of it, but it does not leave the nodes apart.           *)
(***************************************************************************)
CloudConverges ==
  <>[](\A c \in Client : http[c].kind # "delete") =>
    \A l \in ListUid :
      <>[](\A n \in Replicas(l) :
             /\ \A c \in GossipClients : Keeps(cdb[c][l], db[n][l], FALSE)
             /\ \A m \in Replicas(l) : Keeps(db[m][l], db[n][l], FALSE))

(* Clients whose users reload a list end up with what the cloud knows.     *)
ClientsConverge ==
  \A l \in ListUid, c \in Client :
    <>[](\A n \in Replicas(l) : Keeps(db[n][l], cdb[c][l], FALSE))

=============================================================================
