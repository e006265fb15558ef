------------------------- MODULE ClientThreadsProofs -------------------------
(***************************************************************************)
(* Proofs about module ClientThreads: for every set of nodes and shards,   *)
(* the threads never wait in a ring, the table always has an endpoint to   *)
(* draw, and the socket is always connected to the endpoint it asks.       *)
(***************************************************************************)
EXTENDS ClientThreads, TLAPS

-----------------------------------------------------------------------------
(* Who holds which lock is told by where the threads are.  The socket is   *)
(* only ever held by a thread that waits for an answer, and such a thread  *)
(* takes no other lock: this is the order that rules out a ring.           *)
LocksMatch ==
  /\ shardMutex # NoThread => shardMutex = "update"
  /\ shardMutex = "update" <=> pc["update"] \in {"lock", "wait"}
  /\ \A t \in Thread : socketMutex = t <=> pc[t] = "wait"

(* A thread that has passed getShardEndpoint has drawn an endpoint.        *)
Drawn == \A t \in Thread : pc[t] \in {"claim", "lock", "wait"} => receiver[t] \in Node

TableFull == \A s \in Shard : shardEndpoints[s] # {}

(* The socket is connected to currentEndpoint and to nothing else.         *)
SocketInv ==
  /\ socket.connected = IF currentEndpoint = NoNode THEN {} ELSE {currentEndpoint}
  /\ socketMutex = NoThread => socket.turn = "send"
  /\ \A t \in Thread : socketMutex = t =>
       currentEndpoint = receiver[t] /\ socket.turn = "recv"

Inv == TypeOK /\ LocksMatch /\ Drawn /\ TableFull /\ SocketInv

LEMMA InitInv == Init => Inv
<1> SUFFICES ASSUME Init PROVE Inv
  OBVIOUS
<1> USE ClientThreadsAssumption DEF Init
<1>1. TypeOK
  BY DEF TypeOK, PC, NewSocket
<1>2. LocksMatch
  <2>1. "update" \in Thread /\ \A t \in Thread : t # NoThread /\ pc[t] = "idle"
    BY DEF Thread
  <2> QED
    BY <2>1 DEF LocksMatch
<1>3. Drawn /\ TableFull
  BY DEF Drawn, TableFull
<1>4. SocketInv
  BY DEF SocketInv, NewSocket
<1> QED
  BY <1>1, <1>2, <1>3, <1>4 DEF Inv

-----------------------------------------------------------------------------
(* One lemma for each action.                                              *)

LEMMA BeginInv ==
  ASSUME NEW t \in Thread, Inv, Begin(t)
  PROVE  Inv'
<1> USE ClientThreadsAssumption DEF Begin, locks, conn
<1>1. TypeOK'
  BY DEF Inv, TypeOK, PC
<1>2. LocksMatch'
  BY DEF Inv, TypeOK, LocksMatch, Thread
<1>3. Drawn' /\ TableFull' /\ SocketInv'
  BY DEF Inv, TypeOK, Drawn, TableFull, SocketInv
<1> QED
  BY <1>1, <1>2, <1>3 DEF Inv

LEMMA LookupInv ==
  ASSUME NEW t \in Thread, Inv, GetShardEndpoint(t)
  PROVE  Inv'
<1> USE ClientThreadsAssumption DEF GetShardEndpoint, locks, conn
<1>1. PICK s \in Shard :
        /\ \E n \in shardEndpoints[s] : receiver' = [receiver EXCEPT ![t] = n]
        /\ left' = [left EXCEPT ![t] = @ \ {s}]
  BY DEF Inv, TypeOK
<1>2. PICK n \in Node : receiver' = [receiver EXCEPT ![t] = n]
  BY <1>1 DEF Inv, TypeOK
<1>3. TypeOK'
  BY <1>1, <1>2 DEF Inv, TypeOK, PC
<1>4. LocksMatch'
  BY DEF Inv, TypeOK, LocksMatch, Thread
<1>5. Drawn' /\ TableFull'
  BY <1>2 DEF Inv, TypeOK, Drawn, TableFull
<1>6. SocketInv'
  BY <1>2 DEF Inv, TypeOK, LocksMatch, SocketInv
<1> QED
  BY <1>3, <1>4, <1>5, <1>6 DEF Inv

LEMMA LockTableInv ==
  ASSUME Inv, LockTable
  PROVE  Inv'
<1> USE ClientThreadsAssumption DEF LockTable, conn
<1>1. TypeOK'
  BY DEF Inv, TypeOK, PC, Thread
<1>2. LocksMatch'
  BY DEF Inv, TypeOK, LocksMatch, Thread
<1>3. Drawn' /\ TableFull' /\ SocketInv'
  BY DEF Inv, TypeOK, Drawn, TableFull, SocketInv, Thread
<1> QED
  BY <1>1, <1>2, <1>3 DEF Inv

LEMMA SendInv ==
  ASSUME NEW t \in Thread, Inv, SendCloudMessage(t)
  PROVE  Inv'
<1> USE ClientThreadsAssumption DEF SendCloudMessage, SetNodeEndpoint
<1>1. receiver[t] \in Node
  BY DEF Inv, Drawn
<1>2. TypeOK'
  BY <1>1 DEF Inv, TypeOK, PC
<1>3. LocksMatch'
  BY DEF Inv, TypeOK, LocksMatch, Thread
<1>4. Drawn' /\ TableFull'
  BY DEF Inv, TypeOK, Drawn, TableFull
<1>5. socket'.connected = {receiver[t]} /\ socket'.turn = "recv"
  BY <1>1 DEF Inv, TypeOK, SocketInv
<1>6. SocketInv'
  BY <1>1, <1>5 DEF Inv, TypeOK, SocketInv
<1> QED
  BY <1>2, <1>3, <1>4, <1>6 DEF Inv

(* What an answer and a timeout have in common.                            *)
LEMMA ReleaseInv ==
  ASSUME NEW t \in Thread, Inv, pc[t] = "wait", Release(t),
         shardEndpoints' \in [Shard -> SUBSET Node],
         \A s \in Shard : shardEndpoints[s] \subseteq shardEndpoints'[s],
         currentEndpoint' = currentEndpoint,
         socket' = [connected |-> {currentEndpoint}, turn |-> "send"]
  PROVE  Inv'
<1> USE ClientThreadsAssumption DEF Release
<1>1. socketMutex = t /\ currentEndpoint = receiver[t] /\ receiver[t] \in Node
  BY DEF Inv, LocksMatch, SocketInv, Drawn
<1>2. TypeOK'
  BY <1>1 DEF Inv, TypeOK, PC
<1>3. LocksMatch'
  BY <1>1 DEF Inv, TypeOK, LocksMatch, Thread
<1>4. Drawn'
  BY DEF Inv, TypeOK, Drawn
<1>5. TableFull'
  BY DEF Inv, TableFull
<1>6. SocketInv'
  BY <1>1 DEF SocketInv
<1> QED
  BY <1>2, <1>3, <1>4, <1>5, <1>6 DEF Inv

(* While a thread waits, the socket is connected to currentEndpoint.       *)
LEMMA Waiting ==
  ASSUME NEW t \in Thread, Inv, pc[t] = "wait"
  PROVE  /\ socket = [connected |-> {currentEndpoint}, turn |-> "recv"]
         /\ socket \in [connected : SUBSET Node, turn : {"send", "recv"}]
<1>1. socketMutex = t /\ currentEndpoint = receiver[t] /\ receiver[t] \in Node
  BY DEF Inv, LocksMatch, SocketInv, Drawn
<1> QED
  BY <1>1, ClientThreadsAssumption DEF Inv, TypeOK, SocketInv

LEMMA EndInv ==
  ASSUME NEW t \in Thread, Inv, Reply(t) \/ NodesResponse(t) \/ RequestTimeout(t)
  PROVE  Inv'
<1>1. pc[t] = "wait" /\ Release(t) /\ currentEndpoint' = currentEndpoint
  BY DEF Reply, NodesResponse, RequestTimeout, Answering
<1>2. socket = [connected |-> {currentEndpoint}, turn |-> "recv"]
  BY <1>1, Waiting
<1>3. socket' = [connected |-> {currentEndpoint}, turn |-> "send"]
  BY <1>2 DEF Reply, NodesResponse, RequestTimeout, ResetSocket
<1>4. /\ shardEndpoints' \in [Shard -> SUBSET Node]
      /\ \A s \in Shard : shardEndpoints[s] \subseteq shardEndpoints'[s]
  <2>1. CASE NodesResponse(t)
    BY <2>1 DEF NodesResponse, KnownNodes, Inv, TypeOK
  <2>2. CASE Reply(t) \/ RequestTimeout(t)
    BY <2>2 DEF Reply, RequestTimeout, Inv, TypeOK
  <2> QED
    BY <2>1, <2>2
<1> QED
  BY <1>1, <1>3, <1>4, ReleaseInv

LEMMA NodeComesOrGoesInv ==
  ASSUME NEW n \in Node, Inv, NodeComesOrGoes(n)
  PROVE  Inv'
BY DEF NodeComesOrGoes, locks, conn, Inv, TypeOK, LocksMatch, Drawn, TableFull, SocketInv

LEMMA StutterInv ==
  ASSUME Inv, UNCHANGED vars
  PROVE  Inv'
BY DEF vars, locks, conn, Inv, TypeOK, LocksMatch, Drawn, TableFull, SocketInv

LEMMA NextInv == Inv /\ [Next]_vars => Inv'
BY BeginInv, LookupInv, LockTableInv, SendInv, EndInv, NodeComesOrGoesInv, StutterInv
   DEF Next, Step

LEMMA SpecInv == Spec => []Inv
<1>1. Init => Inv
  BY InitInv
<1>2. Inv /\ [Next]_vars => Inv'
  BY NextInv
<1> QED
  BY <1>1, <1>2, PTL DEF Spec

-----------------------------------------------------------------------------
(* A thread that waits for an answer waits for no lock.                    *)
LEMMA HolderIsFree ==
  ASSUME Inv, NEW u \in Thread, socketMutex = u, NEW t \in Thread
  PROVE  ~WaitsFor(u, t)
BY DEF Inv, LocksMatch, WaitsFor

(* updateCloudNodes waits at most for the thread that has the socket.      *)
LEMMA UpdateWaitsForSocket ==
  ASSUME Inv, NEW t \in Thread, WaitsFor("update", t)
  PROVE  socketMutex = t
BY ClientThreadsAssumption DEF Inv, LocksMatch, WaitsFor, Thread

(* The others wait for it or for the thread that has the socket.           *)
LEMMA OthersWaitForUpdateOrSocket ==
  ASSUME Inv, NEW t \in Thread, NEW u \in Thread, WaitsFor(t, u), u # "update"
  PROVE  socketMutex = u
BY ClientThreadsAssumption DEF Inv, LocksMatch, WaitsFor, Thread

LEMMA InvNoCircularWait == Inv => NoCircularWait
<1> SUFFICES ASSUME Inv, NEW S \in (SUBSET Thread) \ {{}}
             PROVE  \E t \in S : \A u \in S : ~WaitsFor(t, u)
  BY DEF NoCircularWait
<1>1. CASE socketMutex \in S
  BY <1>1, HolderIsFree
<1>2. CASE socketMutex \notin S /\ "update" \in S
  BY <1>2, UpdateWaitsForSocket
<1>3. CASE socketMutex \notin S /\ "update" \notin S
  <2>1. PICK t \in S : TRUE
    OBVIOUS
  <2>2. ASSUME NEW u \in S PROVE ~WaitsFor(t, u)
    BY <1>3, <2>2, OthersWaitForUpdateOrSocket
  <2> QED
    BY <2>1, <2>2
<1> QED
  BY <1>1, <1>2, <1>3

(* The three threads of a client never wait for each other in a ring,      *)
(* although the update of the endpoint table keeps shardMutex during a     *)
(* request that needs socketMutex (api.cpp:274-280).                       *)
THEOREM ThreadsNeverDeadlock == Spec => []NoCircularWait
BY SpecInv, InvNoCircularWait, PTL

(* getShardEndpoint always finds an endpoint to draw (api.cpp:42-58),      *)
(* however the updates of the table before it ended.                       *)
THEOREM EndpointsAlwaysDrawn == Spec => []EndpointsNeverEmpty
<1>1. Inv => EndpointsNeverEmpty
  BY DEF Inv, TableFull, EndpointsNeverEmpty
<1> QED
  BY <1>1, SpecInv, PTL

(* Whatever ended the request before it, a request is sent on a socket     *)
(* that can send, to the endpoint it has drawn (api.cpp:28-36, 72-105).    *)
THEOREM SocketAlwaysAsksReceiver == Spec => []SocketAsksReceiver
<1>1. Inv => SocketAsksReceiver
  <2> SUFFICES ASSUME Inv PROVE SocketAsksReceiver
    OBVIOUS
  <2>1. ASSUME NEW t \in Thread, pc[t] = "wait"
        PROVE  socket = [connected |-> {receiver[t]}, turn |-> "recv"]
    BY <2>1, Waiting DEF Inv, LocksMatch, SocketInv
  <2>2. ASSUME \A t \in Thread : pc[t] # "wait"
        PROVE  socket.turn = "send"
    BY <2>2 DEF Inv, TypeOK, LocksMatch, SocketInv
  <2> QED
    BY <2>1, <2>2 DEF SocketAsksReceiver
<1> QED
  BY <1>1, SpecInv, PTL
=============================================================================
