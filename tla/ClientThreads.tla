---------------------------- MODULE ClientThreads ----------------------------
(***************************************************************************)
(* The threads of a client program (client/client.cpp) and what they share *)
(* in client/api.cpp: the REQ socket under socketMutex and the table of    *)
(* endpoints under shardMutex.  What the requests do to lists is in module *)
(* Replication; here they only have a shard, a receiver and an end.        *)
(***************************************************************************)
EXTENDS FiniteSets

CONSTANTS
  Node,        \* nodes, for their client endpoints
  Shard,
  NodeShard,   \* NodeShard[n]: the shard that node n reports as its own
  Hardcoded,   \* Hardcoded[s]: endpoints of shard s the program is built with
  NoNode,      \* no endpoint: currentEndpoint is empty
  NoThread     \* a mutex that nobody holds

Thread == {"http", "gossip", "update"}

ASSUME ClientThreadsAssumption ==
  /\ NodeShard \in [Node -> Shard]
  /\ Hardcoded \in [Shard -> (SUBSET Node) \ {{}}]
  /\ NoNode \notin Node /\ NoThread \notin Thread

VARIABLES
  pc,               \* pc[t]: where thread t is
  left,             \* left[t]: shards t has still to send to
  receiver,         \* receiver[t]: the endpoint t has drawn
  shardMutex,       \* who holds shardMutex exclusively
  socketMutex,      \* who holds socketMutex
  shardEndpoints,   \* shardEndpoints[s]: the endpoints of shard s
  currentEndpoint,
  socket,           \* the REQ socket: what it is connected to, and its turn
  live              \* external: the nodes that answer

locks == <<shardMutex, socketMutex>>
conn  == <<currentEndpoint, socket>>
vars  == <<pc, left, receiver, locks, shardEndpoints, conn, live>>

PC == {"idle", "lookup", "claim", "lock", "wait"}

TypeOK ==
  /\ pc \in [Thread -> PC]
  /\ left \in [Thread -> SUBSET Shard]
  /\ receiver \in [Thread -> Node \cup {NoNode}]
  /\ shardMutex \in Thread \cup {NoThread}
  /\ socketMutex \in Thread \cup {NoThread}
  /\ shardEndpoints \in [Shard -> SUBSET Node]
  /\ currentEndpoint \in Node \cup {NoNode}
  /\ socket \in [connected : SUBSET Node, turn : {"send", "recv"}]
  /\ live \subseteq Node

NewSocket == [connected |-> {}, turn |-> "send"]

Init ==
  /\ pc = [t \in Thread |-> "idle"]
  /\ left = [t \in Thread |-> {}]
  /\ receiver = [t \in Thread |-> NoNode]
  /\ shardMutex = NoThread
  /\ socketMutex = NoThread
  /\ shardEndpoints = Hardcoded
  /\ currentEndpoint = NoNode
  /\ socket = NewSocket
  /\ live \in SUBSET Node

-----------------------------------------------------------------------------
(* Threads up to the socket.                                               *)

(* A request, a gossip round over the shards that have lists, or the next  *)
(* time the node-update thread wakes up.                                   *)
Begin(t) ==
  /\ pc[t] = "idle"
  /\ pc' = [pc EXCEPT ![t] = "lookup"]
  /\ \E shards \in SUBSET Shard :
       /\ t = "http" => Cardinality(shards) = 1
       /\ t = "gossip" => shards # {}
       /\ t = "update" => shards = {}
       /\ left' = [left EXCEPT ![t] = shards]
  /\ UNCHANGED <<receiver, locks, shardEndpoints, conn, live>>

(* getShardEndpoint: an endpoint of the shard of the next list, or any, is *)
(* drawn under a shared lock, which is let go before anything else is done.*)
GetShardEndpoint(t) ==
  /\ pc[t] = "lookup"
  /\ shardMutex = NoThread
  /\ \E s \in IF t = "update" THEN Shard ELSE left[t] :
       /\ \E n \in shardEndpoints[s] : receiver' = [receiver EXCEPT ![t] = n]
       /\ left' = [left EXCEPT ![t] = @ \ {s}]
  /\ pc' = [pc EXCEPT ![t] = IF t = "update" THEN "claim" ELSE "lock"]
  /\ UNCHANGED <<locks, shardEndpoints, conn, live>>

(* Clearing the vectors of the table itself instead of copies of them.     *)
MutLockTableClears ==
  /\ pc["update"] = "claim"
  /\ shardMutex = NoThread
  /\ shardMutex' = "update"
  /\ shardEndpoints' = [s \in Shard |-> {}]
  /\ pc' = [pc EXCEPT !["update"] = "lock"]
  /\ UNCHANGED <<left, receiver, socketMutex, conn, live>>

(* updateCloudNodes takes the table for itself and keeps it while it asks. *)
(* The vectors it clears are copies, so that the table stays as it is.     *)
LockTable ==
  /\ pc["update"] = "claim"
  /\ shardMutex = NoThread
  /\ shardMutex' = "update"
  /\ pc' = [pc EXCEPT !["update"] = "lock"]
  /\ UNCHANGED <<left, receiver, socketMutex, shardEndpoints, conn, live>>

-----------------------------------------------------------------------------
(* The socket: sendCloudMessage.                                           *)

(* setNodeEndpoint: leaves the old endpoint, if any, for the new one.      *)
SetNodeEndpoint(n) ==
  /\ currentEndpoint' = n
  /\ socket' = IF n = currentEndpoint THEN [socket EXCEPT !.turn = "recv"]
               ELSE [connected |-> (socket.connected \ {currentEndpoint}) \cup {n},
                     turn      |-> "recv"]

(* Takes the socket and sends: REQ must not have sent already.             *)
SendCloudMessage(t) ==
  /\ pc[t] = "lock"
  /\ socketMutex = NoThread
  /\ socketMutex' = t
  /\ SetNodeEndpoint(receiver[t])
  /\ pc' = [pc EXCEPT ![t] = "wait"]
  /\ UNCHANGED <<left, receiver, shardMutex, shardEndpoints, live>>

(* A new socket that is not connected to where the old one was.            *)
MutResetSocketUnconnected == socket' = NewSocket

(* resetSocket: a new socket, connected to where the old one was.          *)
ResetSocket == socket' = [connected |-> {currentEndpoint}, turn |-> "send"]

(* The locks are let go on every way out.  A gossip round goes on with its *)
(* next shard, even if this one failed.                                    *)
Release(t) ==
  /\ pc' = [pc EXCEPT ![t] = IF left[t] = {} THEN "idle" ELSE "lookup"]
  /\ receiver' = [receiver EXCEPT ![t] = NoNode]
  /\ socketMutex' = NoThread
  /\ shardMutex' = IF shardMutex = t THEN NoThread ELSE shardMutex
  /\ UNCHANGED <<left, live>>

Answering(t) ==
  /\ pc[t] = "wait"
  /\ socket.connected \cap live # {}

(* A node answers, and whatever it says, or if it cannot be read, the REQ  *)
(* socket can send again.                                                  *)
Reply(t) ==
  /\ Answering(t)
  /\ socket' = [socket EXCEPT !.turn = "send"]
  /\ Release(t)
  /\ UNCHANGED <<shardEndpoints, currentEndpoint>>

(* What a node may answer to GET_NODES: it knows itself, and any others.   *)
KnownNodes == {known \in SUBSET Node : known \cap socket.connected # {}}

(* NODES_RESPONSE: the table grows, and an endpoint never leaves it.       *)
NodesResponse(t) ==
  /\ t = "update"
  /\ Answering(t)
  /\ socket' = [socket EXCEPT !.turn = "send"]
  /\ \E known \in KnownNodes : shardEndpoints' =
       [s \in Shard |-> shardEndpoints[s] \cup {n \in known : NodeShard[n] = s}]
  /\ Release(t)
  /\ UNCHANGED currentEndpoint

(* Looking for another endpoint at once, with the socket still locked.     *)
MutRequestTimeoutLooksAgain(t) ==
  /\ pc[t] = "wait"
  /\ ResetSocket
  /\ pc' = [pc EXCEPT ![t] = "lookup"]
  /\ receiver' = [receiver EXCEPT ![t] = NoNode]
  /\ left' = [left EXCEPT ![t] = {NodeShard[receiver[t]]}]
  /\ UNCHANGED <<locks, shardEndpoints, currentEndpoint, live>>

(* A way out that forgets the socket's lock.                               *)
MutRequestTimeoutKeepsSocket(t) ==
  /\ pc[t] = "wait"
  /\ ResetSocket
  /\ pc' = [pc EXCEPT ![t] = IF left[t] = {} THEN "idle" ELSE "lookup"]
  /\ UNCHANGED <<left, receiver, locks, shardEndpoints, currentEndpoint, live>>

(* No answer within rcvtimeo, whether or not a node would still give one.  *)
RequestTimeout(t) ==
  /\ pc[t] = "wait"
  /\ ResetSocket
  /\ Release(t)
  /\ UNCHANGED <<shardEndpoints, currentEndpoint>>

-----------------------------------------------------------------------------
(* A node starts or stops answering.                                       *)
NodeComesOrGoes(n) ==
  /\ live' = IF n \in live THEN live \ {n} ELSE live \cup {n}
  /\ UNCHANGED <<pc, left, receiver, locks, shardEndpoints, conn>>

Step(t) ==
  \/ GetShardEndpoint(t)
  \/ t = "update" /\ LockTable
  \/ SendCloudMessage(t)
  \/ Reply(t)
  \/ NodesResponse(t)
  \/ RequestTimeout(t)

Next ==
  \/ \E t \in Thread : Begin(t) \/ Step(t)
  \/ \E n \in Node : NodeComesOrGoes(n)

(* Every request has a time limit.  The mutexes promise no order, but every*)
(* thread sleeps or waits for the page between two of its rounds, so that  *)
(* none is passed over for ever.                                           *)
Fairness ==
  \A t \in Thread :
    /\ SF_vars(GetShardEndpoint(t))
    /\ SF_vars(SendCloudMessage(t))
    /\ WF_vars(RequestTimeout(t))
    /\ t = "update" => SF_vars(LockTable)

Spec == Init /\ [][Next]_vars

FairSpec == Spec /\ Fairness

-----------------------------------------------------------------------------
(* The lock that t is waiting for is held by u.                            *)
WaitsFor(t, u) ==
  \/ pc[t] \in {"lookup", "claim"} /\ shardMutex = u
  \/ pc[t] = "lock" /\ socketMutex = u

(* No thread waits for itself, two threads do not wait for each other, and *)
(* the three not in a ring, although updateCloudNodes holds shardMutex     *)
(* over a network call that takes socketMutex (api.cpp:274-280).           *)
NoCircularWait ==
  \A S \in (SUBSET Thread) \ {{}} : \E t \in S : \A u \in S : ~WaitsFor(t, u)

(* Whenever getShardEndpoint can look into the table it finds an endpoint  *)
(* in every shard, after updates that got no answer too: with an empty     *)
(* vector api.cpp:46 draws an index from nothing.                          *)
EndpointsNeverEmpty ==
  shardMutex = NoThread => \A s \in Shard : shardEndpoints[s] # {}

(* A thread that waits for an answer waits on a socket connected to the one*)
(* endpoint it has drawn, and the socket was not left in the middle of an  *)
(* exchange by a request before, whatever ended that (api.cpp:28-36,       *)
(* 72-105).                                                                *)
SocketAsksReceiver ==
  /\ \A t \in Thread :
       pc[t] = "wait" => socket = [connected |-> {receiver[t]}, turn |-> "recv"]
  /\ (\A t \in Thread : pc[t] # "wait") => socket.turn = "send"

(* Every request, gossip round and update of the table ends, also when no  *)
(* node answers any more (api.cpp:38-58, 81-106, 247-292).                 *)
RequestsEnd == \A t \in Thread : pc[t] # "idle" ~> pc[t] = "idle"
=============================================================================
