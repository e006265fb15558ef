--------------------------- MODULE DiscoveryProofs ---------------------------
(***************************************************************************)
(* What membership keeps true in every network, whatever its size, its     *)
(* timing and the commands it is given: the connections and the socket of a*)
(* node follow its table; nobody is kept without a sign of life within the *)
(* timeout, and nobody evicted that a node has heard itself within it      *)
(* (Hearsay).  At the end, the composition with what nodes store           *)
(* (ShardSync): lists stay in their shard, and membership is implemented.  *)
(***************************************************************************)
EXTENDS ShardSync, Hearsay, FiniteSetTheorems, TLAPS

Ages == Int \cup {Unknown}

(* The types that the arguments below rest on.                             *)
TypeInv ==
  /\ up \in [Node -> BOOLEAN]
  /\ contacts \in [Node -> Seq(Node)]
  /\ known \in [Node -> [Node -> Ages]]
  /\ connectedDiscovery \in [Node -> SUBSET Node]
  /\ connectedShard \in [Node -> SUBSET Node]
  /\ timer \in [Node -> Int]
  /\ pipe \in [Node -> [Node -> [Node -> Ages]]]

(* A node that is down knows nobody, and no node is its own contact.       *)
Apart ==
  \A n \in Node :
    /\ ~ up[n] => Listed(known[n]) = {}
    /\ n \notin ToSet(contacts[n])

-----------------------------------------------------------------------------
(* Tables.                                                                 *)

(* The smaller of two numbers.                                             *)
LEMMA MinOfTwo ==
  ASSUME NEW a \in Int, NEW b \in Int
  PROVE  /\ Min({a, b}) = IF a <= b THEN a ELSE b
         /\ Min({a, b}) \in Int
<1> DEFINE m == IF a <= b THEN a ELSE b
<1>1. m \in {a, b} /\ \A y \in {a, b} : m <= y
  OBVIOUS
<1>2. \A x \in {a, b} : (\A y \in {a, b} : x <= y) => x = m
  OBVIOUS
<1>3. Min({a, b}) = m
  BY <1>1, <1>2 DEF Min
<1> QED
  BY <1>3

(* Moving the clock keeps who is listed.                                   *)
LEMMA MovedTable ==
  ASSUME NEW table \in [Node -> Ages], NEW d \in Int
  PROVE  /\ Moved(table, d) \in [Node -> Ages]
         /\ Listed(Moved(table, d)) = Listed(table)
         /\ \A p \in Listed(table) :
              Moved(table, d)[p] =
                IF table[p] + d <= MaxAge THEN table[p] + d ELSE MaxAge
<1>1. MaxAge \in Int /\ Unknown \notin Int
  BY DiscoveryAssumption DEF MaxAge
<1>2. ASSUME NEW p \in Node, table[p] # Unknown
      PROVE  /\ Min({table[p] + d, MaxAge}) \in Int
             /\ Min({table[p] + d, MaxAge}) =
                  IF table[p] + d <= MaxAge THEN table[p] + d ELSE MaxAge
  <2>1. table[p] + d \in Int
    BY <1>2 DEF Ages
  <2> QED
    BY <1>1, <2>1, MinOfTwo
<1> QED
  BY <1>1, <1>2 DEF Moved, Listed, Ages

(* Taking over what is fresher adds the nodes of the other table, and every*)
(* timestamp comes from one of the two.                                    *)
LEMMA FreshestTable ==
  ASSUME NEW old \in [Node -> Ages], NEW new \in [Node -> Ages]
  PROVE  /\ Freshest(old, new) \in [Node -> Ages]
         /\ Listed(Freshest(old, new)) = Listed(old) \cup Listed(new)
         /\ \A p \in Listed(old) \cup Listed(new) :
              \/ p \in Listed(old) /\ Freshest(old, new)[p] = old[p]
              \/ p \in Listed(new) /\ Freshest(old, new)[p] = new[p]
<1>1. Unknown \notin Int
  BY DiscoveryAssumption
<1>2. ASSUME NEW p \in Node, old[p] # Unknown, new[p] # Unknown
      PROVE  Min({old[p], new[p]}) \in {old[p], new[p]} \cap Int
  BY <1>2, MinOfTwo DEF Ages
<1> QED
  BY <1>1, <1>2 DEF Freshest, Listed, Ages

(* The freshest timestamp is no older than any.                            *)
LEMMA FreshestYounger ==
  ASSUME NEW old \in [Node -> Ages], NEW new \in [Node -> Ages], NEW p \in Node
  PROVE  /\ old[p] # Unknown => Freshest(old, new)[p] \in Int /\ Freshest(old, new)[p] <= old[p]
         /\ new[p] # Unknown => Freshest(old, new)[p] \in Int /\ Freshest(old, new)[p] <= new[p]
<1>1. CASE old[p] # Unknown /\ new[p] # Unknown
  <2>1. old[p] \in Int /\ new[p] \in Int
    BY <1>1 DEF Ages
  <2>2. Freshest(old, new)[p] = Min({old[p], new[p]})
    BY <1>1 DEF Freshest
  <2> QED
    BY <2>1, <2>2, MinOfTwo
<1>2. CASE old[p] # Unknown /\ new[p] = Unknown
  BY <1>2 DEF Freshest, Ages
<1>3. CASE old[p] = Unknown
  BY <1>3 DEF Freshest, Ages
<1> QED
  BY <1>1, <1>2, <1>3

(* The bootstrap nodes list the others.                                    *)
LEMMA InitialPeersOthers ==
  ASSUME NEW n \in Node
  PROVE  InitialPeers(n) \in Seq(Node) /\ n \notin ToSet(InitialPeers(n))
<1>1. CASE n \in Bootstrap
  <2>1. InitialPeers(n) = [i \in 1 .. LastBootstrap |-> IF i <= n THEN i - 1 ELSE i]
    BY <1>1 DEF InitialPeers
  <2>2. LastBootstrap \in Nat /\ MaxNode \in Nat /\ LastBootstrap <= MaxNode /\ n \in Nat
    BY DiscoveryAssumption DEF Node
  <2>3. \A i \in 1 .. LastBootstrap :
          (IF i <= n THEN i - 1 ELSE i) \in Node /\ (IF i <= n THEN i - 1 ELSE i) # n
    BY <2>2 DEF Node
  <2> QED
    BY <2>1, <2>2, <2>3 DEF ToSet
<1>2. CASE n \notin Bootstrap
  BY <1>2 DEF InitialPeers, ToSet
<1> QED
  BY <1>1, <1>2

(* The table a node boots with lists itself and its contacts.              *)
LEMMA BootTableLists ==
  ASSUME NEW n \in Node, NEW peers \in Seq(Node)
  PROVE  /\ ToSet(peers) \subseteq Node
         /\ BootTable(n, peers) \in [Node -> Ages]
         /\ Listed(BootTable(n, peers)) = {n} \cup ToSet(peers)
  BY DiscoveryAssumption DEF BootTable, Listed, ToSet, Ages

-----------------------------------------------------------------------------
(* Connections follow the table.                                           *)

(* What is connected for n when its table is this one.                     *)
Follows(n, table, discovery, shard) ==
  /\ discovery = Listed(table) \ {n}
  /\ shard = (Listed(table) \ {n}) \cap SameShard(n)

MatchInv == TypeInv /\ Apart /\ ConnectionsMatch

(* ConnectionsMatch, node by node.                                         *)
LEMMA MatchByNode ==
  ConnectionsMatch <=>
    \A n \in Node :
      Follows(n, known[n], connectedDiscovery[n], connectedShard[n])
BY DEF ConnectionsMatch, Follows

(* What booting does to the tables of one node.                            *)
LEMMA BootMatches ==
  ASSUME MatchInv, NEW n \in Node, NEW peers \in Seq(Node),
         n \notin ToSet(peers), Boot(n, peers),
         contacts' \in [Node -> Seq(Node)],
         \A p \in Node : p \notin ToSet(contacts'[p])
  PROVE  MatchInv'
<1>1. /\ ToSet(peers) \subseteq Node
      /\ BootTable(n, peers) \in [Node -> Ages]
      /\ Listed(BootTable(n, peers)) = {n} \cup ToSet(peers)
  BY BootTableLists
<1>2. TypeInv'
  <2>1. timer' \in [Node -> Int]
    BY DiscoveryAssumption DEF Boot, SetTimer, MatchInv, TypeInv
  <2> QED
    BY <1>1, <2>1 DEF Boot, MatchInv, TypeInv
<1>3. Apart'
  BY DEF Boot, MatchInv, TypeInv, Apart
<1>4. ASSUME NEW p \in Node
      PROVE  Follows(p, known[p], connectedDiscovery[p], connectedShard[p])'
  <2>1. CASE p = n
    BY <1>1, <2>1 DEF Boot, MatchInv, TypeInv, Follows, SameShard
  <2>2. CASE p # n
    BY <2>2, MatchByNode DEF Boot, MatchInv, TypeInv, Follows, SameShard
  <2> QED
    BY <2>1, <2>2
<1>5. ConnectionsMatch'
  BY <1>4 DEF ConnectionsMatch, Follows
<1> QED
  BY <1>2, <1>3, <1>5 DEF MatchInv

(* Learning connects exactly who is new.                                   *)
LEMMA FrameMatches ==
  ASSUME MatchInv, NEW m \in Node, NEW n \in Node, HandleDiscoveryFrame(m, n)
  PROVE  MatchInv'
<1> DEFINE table == pipe[m][n]
           news  == News(n, table)
           fresh == Freshest(known[n], table)
<1>1. table \in [Node -> Ages] /\ known[n] \in [Node -> Ages]
  BY DEF MatchInv, TypeInv
<1>2. fresh \in [Node -> Ages] /\ Listed(fresh) = Listed(known[n]) \cup Listed(table)
  BY <1>1, FreshestTable
<1>3. /\ known' = [known EXCEPT ![n] = [fresh EXCEPT ![n] = 0]]
      /\ connectedDiscovery' = [connectedDiscovery EXCEPT ![n] = @ \cup news]
      /\ connectedShard' =
           [connectedShard EXCEPT ![n] = @ \cup (news \cap SameShard(n))]
      /\ pipe' = [pipe EXCEPT ![m][n] = Nobody]
      /\ UNCHANGED <<up, contacts, timer>>
  BY <1>1 DEF HandleDiscoveryFrame, UpdateKnownNodes, MatchInv, TypeInv
<1>4. [fresh EXCEPT ![n] = 0] \in [Node -> Ages]
  BY <1>2 DEF Ages
<1>5. Listed([fresh EXCEPT ![n] = 0]) \ {n} = Listed(fresh) \ {n}
  BY <1>2 DEF Listed
<1>6. TypeInv'
  <2>1. Nobody \in [Node -> Ages] /\ news \subseteq Node
    BY DEF Nobody, Ages, News, Listed
  <2> QED
    BY <1>3, <1>4, <2>1 DEF MatchInv, TypeInv
<1>7. Apart'
  BY <1>3 DEF HandleDiscoveryFrame, MatchInv, TypeInv, Apart
<1>8. ASSUME NEW p \in Node
      PROVE  Follows(p, known[p], connectedDiscovery[p], connectedShard[p])'
  <2>1. CASE p = n
    <3>1. /\ known'[n] = [fresh EXCEPT ![n] = 0]
          /\ connectedDiscovery'[n] = connectedDiscovery[n] \cup news
          /\ connectedShard'[n] = connectedShard[n] \cup (news \cap SameShard(n))
      BY <1>3 DEF MatchInv, TypeInv
    <3>2. Follows(n, known[n], connectedDiscovery[n], connectedShard[n])
      BY MatchByNode DEF MatchInv
    <3>3. news = Listed(table) \ (Listed(known[n]) \cup {n})
      BY DEF News
    <3> HIDE DEF news, fresh, table
    <3> QED
      BY <2>1, <1>2, <1>5, <3>1, <3>2, <3>3 DEF Follows, SameShard
  <2>2. CASE p # n
    BY <1>3, <2>2, MatchByNode DEF MatchInv, TypeInv, Follows, SameShard
  <2> QED
    BY <2>1, <2>2
<1>9. ConnectionsMatch'
  BY <1>8 DEF ConnectionsMatch, Follows
<1> QED
  BY <1>6, <1>7, <1>9 DEF MatchInv

(* Eviction disconnects exactly who is evicted.                            *)
LEMMA RoundMatches ==
  ASSUME MatchInv, NEW n \in Node, DiscoveryRound(n)
  PROVE  MatchInv'
<1> DEFINE dead == Dead(n)
           left == Survivors(n)
<1> PICK d \in Disconnect(dealing[n], dead) : PerformDiscoveryGossip(n, left, d)
  BY DEF DiscoveryRound
<1>1. /\ known' = [known EXCEPT ![n] = left]
      /\ connectedDiscovery' = [connectedDiscovery EXCEPT ![n] = @ \ dead]
      /\ connectedShard' = [connectedShard EXCEPT ![n] = @ \ dead]
      /\ UNCHANGED <<up, contacts>>
  BY DEF DiscoveryRound, EvictDeadNodes
<1>2. left \in [Node -> Ages] /\ Listed(left) = Listed(known[n]) \ dead
  BY DiscoveryAssumption DEF MatchInv, TypeInv, Survivors, Listed, Ages
<1>3. TypeInv'
  <2>1. timer' \in [Node -> Int]
    BY DiscoveryAssumption DEF DiscoveryRound, SetTimer, MatchInv, TypeInv
  <2>2. pipe' \in [Node -> [Node -> [Node -> Ages]]]
    <3>1. CASE d.peers = <<>>
      BY <3>1 DEF PerformDiscoveryGossip, MatchInv, TypeInv
    <3>2. CASE d.peers # <<>>
      <4> DEFINE p == NextPeer(d)
      <4>1. pipe' = [pipe EXCEPT ![n][p] = Enqueue(@, left)]
        BY <3>2 DEF PerformDiscoveryGossip
      <4> HIDE DEF p, left
      <4>2. ASSUME NEW q \in Node
            PROVE  Enqueue(pipe[n][q], left) \in [Node -> Ages]
        <5>1. pipe[n][q] \in [Node -> Ages]
          BY DEF MatchInv, TypeInv
        <5> QED
          BY <1>2, <5>1, FreshestTable DEF Enqueue
      <4> QED
        BY <4>1, <4>2 DEF MatchInv, TypeInv
    <3> QED
      BY <3>1, <3>2
  <2> QED
    BY <1>1, <1>2, <2>1, <2>2 DEF MatchInv, TypeInv
<1>4. Apart'
  BY <1>1 DEF DiscoveryRound, MatchInv, TypeInv, Apart
<1>5. ASSUME NEW p \in Node
      PROVE  Follows(p, known[p], connectedDiscovery[p], connectedShard[p])'
  <2>1. Follows(p, known[p], connectedDiscovery[p], connectedShard[p])
    BY MatchByNode DEF MatchInv
  <2>2. CASE p = n
    <3>1. /\ known'[n] = left
          /\ connectedDiscovery'[n] = connectedDiscovery[n] \ dead
          /\ connectedShard'[n] = connectedShard[n] \ dead
      BY <1>1 DEF MatchInv, TypeInv
    <3> HIDE DEF dead, left
    <3> QED
      BY <2>1, <2>2, <1>2, <3>1 DEF Follows, SameShard
  <2>3. CASE p # n
    BY <1>1, <2>1, <2>3 DEF MatchInv, TypeInv, Follows, SameShard
  <2> QED
    BY <2>2, <2>3
<1>6. ConnectionsMatch'
  BY <1>5 DEF ConnectionsMatch, Follows
<1> QED
  BY <1>3, <1>4, <1>6 DEF MatchInv

(* A node that stops forgets its table and its connections.                *)
LEMMA StopMatches ==
  ASSUME MatchInv, NEW n \in Node, StopNode(n)
  PROVE  MatchInv'
<1>1. Nobody \in [Node -> Ages] /\ Listed(Nobody) = {}
  BY DEF Nobody, Ages, Listed
<1>2. TypeInv'
  <2>1. pipe' \in [Node -> [Node -> [Node -> Ages]]]
    <3>1. PICK lost \in SUBSET Node :
            pipe' = [m \in Node |-> IF m \in lost
                                    THEN [pipe[m] EXCEPT ![n] = Nobody]
                                    ELSE pipe[m]]
      BY DEF StopNode
    <3>2. ASSUME NEW m \in Node
          PROVE  /\ pipe[m] \in [Node -> [Node -> Ages]]
                 /\ [pipe[m] EXCEPT ![n] = Nobody] \in [Node -> [Node -> Ages]]
      BY <1>1 DEF MatchInv, TypeInv
    <3> QED
      BY <3>1, <3>2
  <2>2. /\ up' = [up EXCEPT ![n] = FALSE]
        /\ known' = [known EXCEPT ![n] = Nobody]
        /\ connectedDiscovery' = [connectedDiscovery EXCEPT ![n] = {}]
        /\ connectedShard' = [connectedShard EXCEPT ![n] = {}]
        /\ timer' = [timer EXCEPT ![n] = 0]
        /\ contacts' = contacts
    BY DEF StopNode
  <2> QED
    BY <1>1, <2>1, <2>2 DEF MatchInv, TypeInv
<1>3. Apart'
  BY <1>1 DEF StopNode, MatchInv, TypeInv, Apart
<1>4. ASSUME NEW p \in Node
      PROVE  Follows(p, known[p], connectedDiscovery[p], connectedShard[p])'
  <2>1. Follows(p, known[p], connectedDiscovery[p], connectedShard[p])
    BY MatchByNode DEF MatchInv
  <2> QED
    BY <1>1, <2>1 DEF StopNode, MatchInv, TypeInv, Follows, SameShard
<1>5. ConnectionsMatch'
  BY <1>4 DEF ConnectionsMatch, Follows
<1> QED
  BY <1>2, <1>3, <1>5 DEF MatchInv

(* Ages change with the clock, but not who is listed.                      *)
LEMMA ClockMatches ==
  ASSUME MatchInv, NEW d \in Int, MoveClock(d), timer' \in [Node -> Int],
         UNCHANGED <<up, contacts, connectedDiscovery, connectedShard>>
  PROVE  MatchInv'
<1>1. ASSUME NEW n \in Node
      PROVE  /\ Moved(known[n], d) \in [Node -> Ages]
             /\ Listed(Moved(known[n], d)) = Listed(known[n])
             /\ \A m \in Node : Moved(pipe[n][m], d) \in [Node -> Ages]
  BY MovedTable DEF MatchInv, TypeInv
<1>2. ASSUME NEW n \in Node
      PROVE  /\ known'[n] \in [Node -> Ages]
             /\ Listed(known'[n]) \ {n} = Listed(known[n]) \ {n}
             /\ ~ up[n] => Listed(known'[n]) = {}
  <2>1. CASE up[n]
    <3> DEFINE moved == Moved(known[n], d)
    <3>1. known'[n] = [moved EXCEPT ![n] = 0]
      BY <2>1 DEF MoveClock
    <3>2. moved \in [Node -> Ages] /\ Listed(moved) = Listed(known[n])
      BY <1>1
    <3> HIDE DEF moved
    <3> QED
      BY <2>1, <3>1, <3>2 DEF Listed, Ages
  <2>2. CASE ~ up[n]
    <3>1. known'[n] = Nobody /\ Listed(known[n]) = {}
      BY <2>2 DEF MoveClock, MatchInv, Apart
    <3> QED
      BY <3>1 DEF Nobody, Listed, Ages
  <2> QED
    BY <2>1, <2>2
<1>3. TypeInv'
  <2>1. known' \in [Node -> [Node -> Ages]]
    BY <1>2 DEF MoveClock
  <2>2. pipe' \in [Node -> [Node -> [Node -> Ages]]]
    BY <1>1 DEF MoveClock
  <2> QED
    BY <2>1, <2>2 DEF MatchInv, TypeInv
<1>4. Apart'
  BY <1>2 DEF MatchInv, Apart
<1>5. ASSUME NEW p \in Node
      PROVE  Follows(p, known[p], connectedDiscovery[p], connectedShard[p])'
  <2>1. Follows(p, known[p], connectedDiscovery[p], connectedShard[p])
    BY MatchByNode DEF MatchInv
  <2> QED
    BY <1>2, <2>1 DEF Follows, SameShard
<1>6. ConnectionsMatch'
  BY <1>5 DEF ConnectionsMatch, Follows
<1> QED
  BY <1>3, <1>4, <1>6 DEF MatchInv

LEMMA InitMatches == Init => MatchInv
<1> SUFFICES ASSUME Init
             PROVE  MatchInv
  OBVIOUS
<1>1. ASSUME NEW n \in Node
      PROVE  /\ InitialPeers(n) \in Seq(Node) /\ n \notin ToSet(InitialPeers(n))
             /\ ToSet(InitialPeers(n)) \subseteq Node
             /\ BootTable(n, InitialPeers(n)) \in [Node -> Ages]
             /\ Listed(BootTable(n, InitialPeers(n))) = {n} \cup ToSet(InitialPeers(n))
             /\ n \notin Bootstrap => ToSet(InitialPeers(n)) = {}
  <2>1. n \notin Bootstrap => ToSet(InitialPeers(n)) = {}
    BY DEF InitialPeers, ToSet
  <2> QED
    BY <2>1, InitialPeersOthers, BootTableLists
<1>2. Nobody \in [Node -> Ages] /\ Listed(Nobody) = {}
  BY DEF Nobody, Ages, Listed
<1>3. TypeInv
  <2>1. timer \in [Node -> Int]
    BY DiscoveryAssumption DEF Init
  <2> QED
    BY <1>1, <1>2, <2>1 DEF Init, TypeInv
<1>4. Apart
  BY <1>1, <1>2 DEF Init, Apart
<1>5. ConnectionsMatch
  BY <1>1, <1>2 DEF Init, ConnectionsMatch, SameShard
<1> QED
  BY <1>3, <1>4, <1>5 DEF MatchInv

LEMMA NextMatches == MatchInv /\ [Next]_vars => MatchInv'
<1> SUFFICES ASSUME MatchInv, [Next]_vars
             PROVE  MatchInv'
  OBVIOUS
<1>1. CASE Tick
  <2>1. timer' \in [Node -> Int]
    BY <1>1 DEF Tick, MatchInv, TypeInv
  <2> QED
    BY <1>1, <2>1, ClockMatches DEF Tick
<1>2. CASE SetClockBack
  <2>1. ClockStep \in Int /\ - ClockStep \in Int
    BY DiscoveryAssumption
  <2>2. PICK late \in SUBSET Node :
          timer' = [n \in Node |-> CASE ~ up[n]    -> 0
                                     [] n \in late -> ClockStep - 1
                                     [] OTHER      -> timer[n] + ClockStep]
    BY <1>2 DEF SetClockBack
  <2>3. timer' \in [Node -> Int]
    BY <2>1, <2>2 DEF MatchInv, TypeInv
  <2> QED
    BY <1>2, <2>1, <2>3, ClockMatches DEF SetClockBack
<1>3. ASSUME NEW n \in Node, DiscoveryRound(n)
      PROVE  MatchInv'
  BY <1>3, RoundMatches
<1>4. ASSUME NEW n \in Node, AddNode(n)
      PROVE  MatchInv'
  <2>1. PICK p \in Added :
          /\ contacts' = [contacts EXCEPT ![n] = <<p>>]
          /\ Boot(n, <<p>>)
    BY <1>4 DEF AddNode
  <2>2. p \in Node /\ p # n
    BY <1>4 DEF AddNode, Added
  <2>3. <<p>> \in Seq(Node) /\ ToSet(<<p>>) = {p}
    BY <2>2 DEF ToSet
  <2>4. /\ contacts' \in [Node -> Seq(Node)]
        /\ \A q \in Node : q \notin ToSet(contacts'[q])
    BY <2>1, <2>2, <2>3 DEF MatchInv, TypeInv, Apart
  <2> QED
    BY <2>1, <2>2, <2>3, <2>4, BootMatches
<1>5. ASSUME NEW n \in Node, StopNode(n)
      PROVE  MatchInv'
  BY <1>5, StopMatches
<1>6. ASSUME NEW n \in Node, StartNode(n)
      PROVE  MatchInv'
  BY <1>6, BootMatches DEF StartNode, MatchInv, TypeInv, Apart
<1>7. ASSUME NEW m \in Node, NEW n \in Node, HandleDiscoveryFrame(m, n)
      PROVE  MatchInv'
  BY <1>7, FrameMatches
<1>8. CASE UNCHANGED vars
  BY <1>8 DEF vars, nodeVars, MatchInv, TypeInv, Apart, ConnectionsMatch
<1> QED
  BY <1>1, <1>2, <1>3, <1>4, <1>5, <1>6, <1>7, <1>8 DEF Next

(***************************************************************************)
(* The connections of a node follow its table, in every network and for    *)
(* every order of gossip, evictions, stops and starts (ConnectionsMatch).  *)
(***************************************************************************)
THEOREM ConnectionsAlwaysMatch == Spec => []ConnectionsMatch
<1>1. MatchInv => ConnectionsMatch
  BY DEF MatchInv
<1> QED
  BY <1>1, InitMatches, NextMatches, PTL DEF Spec

-----------------------------------------------------------------------------
(* The socket deals to each peer in the table in turn.                     *)

(* s names each member of S once, and nobody else.                         *)
Turn(s, S) ==
  /\ s \in Seq(Node)
  /\ ToSet(s) = S
  /\ \A i, j \in 1 .. Len(s) : s[i] = s[j] => i = j

Socket == [peers : Seq(Node), next : Nat \ {0}]

(* A socket that deals to the members of S.                                *)
SocketOf(d, S) ==
  /\ d \in Socket
  /\ Turn(d.peers, S)
  /\ d.next = 1 \/ d.next <= Len(d.peers)

SocketInv ==
  \A n \in Node :
    /\ SocketOf(dealing[n], Listed(known[n]) \ {n})
    /\ Turn(contacts[n], ToSet(contacts[n]))

LEMMA NodesFinite == \A S \in SUBSET Node : IsFiniteSet(S) /\ Cardinality(S) \in Nat
<1>1. IsFiniteSet(Node)
  BY DiscoveryAssumption, FS_Interval DEF Node
<1> QED
  BY <1>1, FS_Subset, FS_CardinalityType

(* The larger of one and another number.                                   *)
LEMMA MaxOfTwo ==
  ASSUME NEW b \in Nat
  PROVE  Max({1, b}) = IF b <= 1 THEN 1 ELSE b
<1> DEFINE m == IF b <= 1 THEN 1 ELSE b
<1>1. m \in {1, b} /\ \A y \in {1, b} : m >= y
  OBVIOUS
<1>2. \A x \in {1, b} : (\A y \in {1, b} : x >= y) => x = m
  OBVIOUS
<1>3. Max({1, b}) = m
  BY <1>1, <1>2 DEF Max
<1> QED
  BY <1>3

(* An order of the members of a set names each of them once.               *)
LEMMA OrderIsTurn ==
  ASSUME NEW S \in SUBSET Node, NEW order \in SetToSeqs(S)
  PROVE  Turn(order, S) /\ Len(order) = Cardinality(S)
<1> DEFINE D == 1 .. Cardinality(S)
<1>1. IsFiniteSet(S) /\ Cardinality(S) \in Nat
  BY NodesFinite
<1>2. order \in [D -> S] /\ \A i, j \in D : i # j => order[i] # order[j]
  BY DEF SetToSeqs
<1>3. Cardinality(D) = Cardinality(S)
  BY <1>1, FS_Interval
<1>4. order \in Injection(D, S)
  BY <1>2 DEF Injection, IsInjective
<1>5. order \in Surjection(D, S)
  BY <1>1, <1>3, <1>4, FS_Injection
<1>6. order \in Seq(Node) /\ Len(order) = Cardinality(S)
  BY <1>1, <1>2
<1>7. ToSet(order) = S
  BY <1>2, <1>5 DEF Surjection, ToSet
<1> QED
  BY <1>2, <1>6, <1>7 DEF Turn

LEMMA TurnLength ==
  ASSUME NEW S \in SUBSET Node, NEW s, Turn(s, S)
  PROVE  Len(s) = Cardinality(S)
<1>1. s \in Seq(Node) /\ Len(s) \in Nat /\ DOMAIN s = 1 .. Len(s)
  BY DEF Turn
<1>2. s \in [1 .. Len(s) -> S]
  BY <1>1 DEF Turn, ToSet
<1>3. s \in Bijection(1 .. Len(s), S)
  BY <1>1, <1>2 DEF Turn, ToSet, Bijection, Injection, Surjection, IsInjective
<1> QED
  BY <1>1, <1>3, FS_CountingElements DEF ExistsBijection

(* Those who come new take their turn after the others.                    *)
LEMMA ConnectTurn ==
  ASSUME NEW S, NEW T, NEW s, NEW t, Turn(s, S), Turn(t, T), S \cap T = {}
  PROVE  Turn(s \o t, S \cup T)
<1>1. /\ s \in Seq(Node) /\ t \in Seq(Node)
      /\ Len(s) \in Nat /\ Len(t) \in Nat
      /\ DOMAIN s = 1 .. Len(s) /\ DOMAIN t = 1 .. Len(t)
  BY DEF Turn
<1> DEFINE u == s \o t
<1>2. /\ u \in Seq(Node) /\ Len(u) = Len(s) + Len(t) /\ DOMAIN u = 1 .. Len(u)
      /\ \A i \in 1 .. Len(u) : u[i] = IF i <= Len(s) THEN s[i] ELSE t[i - Len(s)]
  <2>1. u \in Seq(Node) /\ Len(u) = Len(s) + Len(t)
    BY <1>1
  <2>2. DOMAIN u = 1 .. Len(u)
    BY <2>1
  <2>3. \A i \in 1 .. Len(s) + Len(t) :
          u[i] = IF i <= Len(s) THEN s[i] ELSE t[i - Len(s)]
    BY <1>1
  <2> QED
    BY <2>1, <2>2, <2>3
<1> HIDE DEF u
<1>3. \A i \in 1 .. Len(u) : i <= Len(s) => i \in 1 .. Len(s) /\ u[i] = s[i] /\ u[i] \in S
  BY <1>1, <1>2 DEF Turn, ToSet
<1>4. \A i \in 1 .. Len(u) : ~ i <= Len(s) =>
        i - Len(s) \in 1 .. Len(t) /\ u[i] = t[i - Len(s)] /\ u[i] \in T
  BY <1>1, <1>2 DEF Turn, ToSet
<1>5. ASSUME NEW i \in 1 .. Len(u), NEW j \in 1 .. Len(u), u[i] = u[j]
      PROVE  i = j
  <2>1. CASE i <= Len(s) /\ j <= Len(s)
    BY <1>3, <1>5, <2>1 DEF Turn
  <2>2. CASE ~ i <= Len(s) /\ ~ j <= Len(s)
    <3>1. i - Len(s) = j - Len(s)
      BY <1>4, <1>5, <2>2 DEF Turn
    <3> QED
      BY <1>1, <3>1
  <2>3. (i <= Len(s)) <=> (j <= Len(s))
    BY <1>3, <1>4, <1>5
  <2> QED
    BY <2>1, <2>2, <2>3
<1>6. S \cup T \subseteq ToSet(u)
  <2>1. ASSUME NEW i \in 1 .. Len(s)
        PROVE  s[i] \in ToSet(u)
    <3>1. i \in 1 .. Len(u) /\ u[i] = s[i]
      BY <1>1, <1>2
    <3> QED
      BY <1>2, <3>1 DEF ToSet
  <2>2. ASSUME NEW i \in 1 .. Len(t)
        PROVE  t[i] \in ToSet(u)
    <3>1. i + Len(s) \in 1 .. Len(u) /\ u[i + Len(s)] = t[i]
      BY <1>1, <1>2
    <3> QED
      BY <1>2, <3>1 DEF ToSet
  <2> QED
    BY <1>1, <2>1, <2>2 DEF Turn, ToSet
<1>7. ToSet(u) \subseteq S \cup T
  BY <1>2, <1>3, <1>4 DEF ToSet
<1> QED
  BY <1>2, <1>5, <1>6, <1>7 DEF Turn, u

LEMMA ConnectSocket ==
  ASSUME NEW S, NEW T, NEW d, NEW order, SocketOf(d, S), Turn(order, T), S \cap T = {}
  PROVE  SocketOf(Connect(d, order), S \cup T)
<1> DEFINE e == Connect(d, order)
<1>1. e \in Socket /\ e.peers = d.peers \o order /\ e.next = d.next
  <2>1. d \in Socket /\ d.peers \o order \in Seq(Node)
    BY DEF SocketOf, Socket, Turn
  <2> QED
    BY <2>1 DEF Connect, Socket
<1> HIDE DEF e
<1>2. Turn(e.peers, S \cup T)
  BY <1>1, ConnectTurn DEF SocketOf
<1>3. Len(e.peers) = Len(d.peers) + Len(order) /\ Len(d.peers) \in Nat /\ Len(order) \in Nat
  BY <1>1 DEF SocketOf, Turn
<1>4. e.next = 1 \/ e.next <= Len(e.peers)
  BY <1>1, <1>3 DEF SocketOf, Socket
<1> QED
  BY <1>1, <1>2, <1>4 DEF SocketOf, e

LEMMA NoPeersSocket == SocketOf(NoPeers, {})
BY DEF NoPeers, SocketOf, Socket, Turn, ToSet

(* A socket made for the contacts of a node that boots.                    *)
LEMMA BootSocket ==
  ASSUME NEW order, Turn(order, ToSet(order))
  PROVE  SocketOf(Connect(NoPeers, order), ToSet(order))
<1>1. SocketOf(Connect(NoPeers, order), {} \cup ToSet(order))
  BY NoPeersSocket, ConnectSocket
<1> QED
  BY <1>1

LEMMA DisconnectSocket ==
  ASSUME NEW S \in SUBSET Node, NEW gone, NEW d, SocketOf(d, S),
         NEW e \in Disconnect(d, gone)
  PROVE  SocketOf(e, S \ gone)
<1> DEFINE stay == S \ gone
<1>1. ToSet(d.peers) = S
  BY DEF SocketOf, Turn
<1>2. CASE stay = S
  BY <1>1, <1>2 DEF Disconnect
<1>3. CASE stay # S
  <2>1. e \in [peers : SetToSeqs(stay), next : 1 .. Max({1, Cardinality(stay)})]
    BY <1>1, <1>3 DEF Disconnect
  <2>2. Turn(e.peers, stay) /\ Len(e.peers) = Cardinality(stay)
    BY <2>1, OrderIsTurn
  <2>3. Cardinality(stay) \in Nat
    BY NodesFinite
  <2>4. e.next \in Nat \ {0} /\ (e.next = 1 \/ e.next <= Cardinality(stay))
    BY <2>1, <2>3, MaxOfTwo
  <2>5. e \in Socket
    BY <2>1, <2>2, <2>4 DEF Socket, Turn
  <2> QED
    BY <2>2, <2>4, <2>5 DEF SocketOf
<1> QED
  BY <1>2, <1>3

LEMMA DealtSocket ==
  ASSUME NEW S, NEW d, SocketOf(d, S), d.peers # <<>>
  PROVE  SocketOf(Dealt(d), S) /\ d.next \in 1 .. Len(d.peers)
<1>1. Len(d.peers) \in Nat /\ Len(d.peers) > 0 /\ d.next \in Nat \ {0}
  BY DEF SocketOf, Socket, Turn
<1> QED
  BY <1>1 DEF SocketOf, Socket, Turn, Dealt

(* The contacts of a bootstrap node are different nodes.                   *)
LEMMA InitialPeersTurn ==
  ASSUME NEW n \in Node
  PROVE  Turn(InitialPeers(n), ToSet(InitialPeers(n)))
<1>1. InitialPeers(n) \in Seq(Node)
  BY InitialPeersOthers
<1>2. CASE n \in Bootstrap
  <2>1. InitialPeers(n) = [i \in 1 .. LastBootstrap |-> IF i <= n THEN i - 1 ELSE i]
    BY <1>2 DEF InitialPeers
  <2>2. LastBootstrap \in Nat /\ n \in Nat
    BY DiscoveryAssumption DEF Node
  <2>3. Len(InitialPeers(n)) = LastBootstrap
    BY <1>1, <2>1, <2>2
  <2> QED
    BY <1>1, <2>1, <2>2, <2>3 DEF Turn
<1>3. CASE n \notin Bootstrap
  BY <1>3 DEF InitialPeers, Turn
<1> QED
  BY <1>2, <1>3

LEMMA InitSockets == Init => SocketInv
<1> SUFFICES ASSUME Init, NEW n \in Node
             PROVE  /\ SocketOf(dealing[n], Listed(known[n]) \ {n})
                    /\ Turn(contacts[n], ToSet(contacts[n]))
  BY DEF SocketInv
<1>1. Turn(InitialPeers(n), ToSet(InitialPeers(n)))
  BY InitialPeersTurn
<1>2. dealing[n] = Connect(NoPeers, InitialPeers(n)) /\ contacts[n] = InitialPeers(n)
  BY DEF Init
<1>3. ToSet(InitialPeers(n)) = Listed(known[n]) \ {n}
  <2>1. MatchInv /\ connectedDiscovery[n] = ToSet(InitialPeers(n))
    BY InitMatches DEF Init
  <2> QED
    BY <2>1 DEF MatchInv, ConnectionsMatch
<1> QED
  BY <1>1, <1>2, <1>3, BootSocket

LEMMA BootSockets ==
  ASSUME MatchInv, SocketInv, NEW n \in Node, NEW peers, Turn(peers, ToSet(peers)),
         n \notin ToSet(peers), Boot(n, peers), dealing \in [Node -> Socket]
  PROVE  \A q \in Node : SocketOf(dealing[q], Listed(known[q]) \ {q})'
<1>1. Listed(BootTable(n, peers)) \ {n} = ToSet(peers)
  BY BootTableLists DEF Turn
<1>2. SocketOf(Connect(NoPeers, peers), ToSet(peers))
  BY BootSocket
<1>3. /\ known' = [known EXCEPT ![n] = BootTable(n, peers)]
      /\ dealing' = [dealing EXCEPT ![n] = Connect(NoPeers, peers)]
  BY DEF Boot
<1> TAKE q \in Node
<1>4. CASE q = n
  BY <1>1, <1>2, <1>3, <1>4 DEF MatchInv, TypeInv
<1>5. CASE q # n
  BY <1>3, <1>5 DEF MatchInv, TypeInv, SocketInv
<1> QED
  BY <1>4, <1>5

LEMMA FrameSockets ==
  ASSUME MatchInv, SocketInv, NEW m \in Node, NEW n \in Node,
         HandleDiscoveryFrame(m, n), dealing \in [Node -> Socket]
  PROVE  SocketInv'
<1> DEFINE table == pipe[m][n]
           news  == News(n, table)
           fresh == Freshest(known[n], table)
           peers == Listed(known[n]) \ {n}
<1>1. PICK order \in SetToSeqs(news \ connectedDiscovery[n]) :
        dealing' = [dealing EXCEPT ![n] = Connect(@, order)]
  BY DEF HandleDiscoveryFrame, UpdateKnownNodes
<1>2. known' = [known EXCEPT ![n] = [fresh EXCEPT ![n] = 0]] /\ contacts' = contacts
  BY DEF HandleDiscoveryFrame, UpdateKnownNodes
<1>3. table \in [Node -> Ages] /\ known[n] \in [Node -> Ages]
  BY DEF MatchInv, TypeInv
<1>4. fresh \in [Node -> Ages] /\ Listed(fresh) = Listed(known[n]) \cup Listed(table)
  BY <1>3, FreshestTable
<1>5. connectedDiscovery[n] = peers
  BY DEF MatchInv, ConnectionsMatch
<1>6. news = Listed(table) \ (Listed(known[n]) \cup {n}) /\ news \subseteq Node
  BY DEF News, Listed
<1>7. Turn(order, news)
  <2>1. news \ connectedDiscovery[n] = news
    BY <1>5, <1>6
  <2> QED
    BY <1>6, <2>1, OrderIsTurn
<1>8. Listed([fresh EXCEPT ![n] = 0]) \ {n} = peers \cup news
  BY <1>4, <1>6 DEF Listed
<1>9. SocketOf(Connect(dealing[n], order), peers \cup news)
  BY <1>6, <1>7, ConnectSocket DEF SocketInv
<1> SUFFICES ASSUME NEW q \in Node
             PROVE  SocketOf(dealing[q], Listed(known[q]) \ {q})'
  BY <1>2 DEF SocketInv
<1>10. CASE q = n
  <2>1. /\ dealing'[n] = Connect(dealing[n], order)
        /\ known'[n] = [fresh EXCEPT ![n] = 0]
    BY <1>1, <1>2 DEF MatchInv, TypeInv
  <2> QED
    BY <1>8, <1>9, <1>10, <2>1
<1>11. CASE q # n
  BY <1>1, <1>2, <1>11 DEF MatchInv, TypeInv, SocketInv
<1> QED
  BY <1>10, <1>11

LEMMA RoundSockets ==
  ASSUME MatchInv, SocketInv, NEW n \in Node, DiscoveryRound(n),
         dealing \in [Node -> Socket]
  PROVE  SocketInv'
<1> DEFINE left == Survivors(n)
           peers == Listed(known[n]) \ {n}
<1> PICK d \in Disconnect(dealing[n], Dead(n)) : PerformDiscoveryGossip(n, left, d)
  BY DEF DiscoveryRound
<1>1. known' = [known EXCEPT ![n] = left] /\ contacts' = contacts
  BY DEF DiscoveryRound, EvictDeadNodes
<1>2. Listed(left) \ {n} = peers \ Dead(n) /\ peers \in SUBSET Node
  BY DEF Survivors, Listed
<1>3. SocketOf(d, peers \ Dead(n))
  BY <1>2, DisconnectSocket DEF SocketInv
<1> HIDE DEF left, peers
<1>4. PICK e : dealing' = [dealing EXCEPT ![n] = e] /\ SocketOf(e, peers \ Dead(n))
  BY <1>3, DealtSocket DEF PerformDiscoveryGossip
<1> SUFFICES ASSUME NEW q \in Node
             PROVE  SocketOf(dealing[q], Listed(known[q]) \ {q})'
  BY <1>1 DEF SocketInv
<1>5. CASE q = n
  BY <1>1, <1>2, <1>4, <1>5 DEF MatchInv, TypeInv
<1>6. CASE q # n
  BY <1>1, <1>4, <1>6 DEF MatchInv, TypeInv, SocketInv
<1> QED
  BY <1>5, <1>6

LEMMA StopSockets ==
  ASSUME MatchInv, SocketInv, NEW n \in Node, StopNode(n), dealing \in [Node -> Socket]
  PROVE  SocketInv'
<1>1. /\ known' = [known EXCEPT ![n] = Nobody]
      /\ dealing' = [dealing EXCEPT ![n] = NoPeers]
      /\ contacts' = contacts
  BY DEF StopNode
<1>2. Listed(Nobody) \ {n} = {}
  BY DEF Nobody, Listed
<1> SUFFICES ASSUME NEW q \in Node
             PROVE  SocketOf(dealing[q], Listed(known[q]) \ {q})'
  BY <1>1 DEF SocketInv
<1>3. CASE q = n
  BY <1>1, <1>2, <1>3, NoPeersSocket DEF MatchInv, TypeInv
<1>4. CASE q # n
  BY <1>1, <1>4 DEF MatchInv, TypeInv, SocketInv
<1> QED
  BY <1>3, <1>4

(* A clock that moves leaves who is listed.                                *)
LEMMA ClockSockets ==
  ASSUME MatchInv, SocketInv, NEW d \in Int, MoveClock(d),
         UNCHANGED <<up, contacts, dealing>>
  PROVE  SocketInv'
<1> SUFFICES ASSUME NEW n \in Node
             PROVE  Listed(known'[n]) \ {n} = Listed(known[n]) \ {n}
  BY DEF SocketInv
<1>1. CASE up[n]
  <2> DEFINE moved == Moved(known[n], d)
  <2>1. known'[n] = [moved EXCEPT ![n] = 0]
    BY <1>1 DEF MoveClock
  <2>2. moved \in [Node -> Ages] /\ Listed(moved) = Listed(known[n])
    BY MovedTable DEF MatchInv, TypeInv
  <2> HIDE DEF moved
  <2> QED
    BY <2>1, <2>2 DEF Listed
<1>2. CASE ~ up[n]
  <2>1. known'[n] = Nobody /\ Listed(known[n]) = {}
    BY <1>2 DEF MoveClock, MatchInv, Apart
  <2> QED
    BY <2>1 DEF Nobody, Listed
<1> QED
  BY <1>1, <1>2

SocketsInv == MatchInv /\ SocketInv /\ dealing \in [Node -> Socket]

LEMMA InitSocketsInv == Init => SocketsInv
<1> SUFFICES ASSUME Init
             PROVE  SocketsInv
  OBVIOUS
<1>1. MatchInv /\ SocketInv
  BY InitMatches, InitSockets
<1>2. dealing \in [Node -> Socket]
  BY <1>1 DEF Init, SocketInv, SocketOf
<1> QED
  BY <1>1, <1>2 DEF SocketsInv

LEMMA NextSockets == SocketsInv /\ [Next]_vars => SocketsInv'
<1> SUFFICES ASSUME SocketsInv, [Next]_vars
             PROVE  SocketsInv'
  OBVIOUS
<1> USE DEF SocketsInv
<1>1. MatchInv'
  BY NextMatches
<1>2. SocketInv'
  <2>1. CASE Tick
    BY <2>1, ClockSockets DEF Tick
  <2>2. CASE SetClockBack
    <3>1. - ClockStep \in Int
      BY DiscoveryAssumption
    <3> QED
      BY <2>2, <3>1, ClockSockets DEF SetClockBack
  <2>3. ASSUME NEW n \in Node, DiscoveryRound(n)
        PROVE  SocketInv'
    BY <2>3, RoundSockets
  <2>4. ASSUME NEW n \in Node, AddNode(n)
        PROVE  SocketInv'
    <3>1. PICK p \in Added :
            /\ contacts' = [contacts EXCEPT ![n] = <<p>>]
            /\ Boot(n, <<p>>)
      BY <2>4 DEF AddNode
    <3>2. p \in Node /\ p # n
      BY <2>4 DEF AddNode, Added
    <3>3. Turn(<<p>>, {p}) /\ ToSet(<<p>>) = {p}
      BY <3>2 DEF Turn, ToSet
    <3>4. \A q \in Node : SocketOf(dealing[q], Listed(known[q]) \ {q})'
      BY <3>1, <3>2, <3>3, BootSockets
    <3>5. \A q \in Node : Turn(contacts[q], ToSet(contacts[q]))'
      BY <3>1, <3>3 DEF SocketInv, MatchInv, TypeInv
    <3> QED
      BY <3>4, <3>5 DEF SocketInv
  <2>5. ASSUME NEW n \in Node, StopNode(n)
        PROVE  SocketInv'
    BY <2>5, StopSockets
  <2>6. ASSUME NEW n \in Node, StartNode(n)
        PROVE  SocketInv'
    <3>1. Boot(n, contacts[n]) /\ contacts' = contacts
      BY <2>6 DEF StartNode
    <3>2. Turn(contacts[n], ToSet(contacts[n])) /\ n \notin ToSet(contacts[n])
      BY DEF SocketInv, MatchInv, Apart
    <3>3. \A q \in Node : SocketOf(dealing[q], Listed(known[q]) \ {q})'
      BY <3>1, <3>2, BootSockets
    <3> QED
      BY <3>1, <3>3 DEF SocketInv
  <2>7. ASSUME NEW m \in Node, NEW n \in Node, HandleDiscoveryFrame(m, n)
        PROVE  SocketInv'
    BY <2>7, FrameSockets
  <2>8. CASE UNCHANGED vars
    BY <2>8 DEF vars, nodeVars, SocketInv
  <2> QED
    BY <2>1, <2>2, <2>3, <2>4, <2>5, <2>6, <2>7, <2>8 DEF Next
<1>3. dealing' \in [Node -> Socket]
  <2>1. DOMAIN dealing' = Node /\ dealing' = [n \in DOMAIN dealing' |-> dealing'[n]]
    <3>1. CASE UNCHANGED dealing
      BY <3>1
    <3>2. CASE \E n, e : dealing' = [dealing EXCEPT ![n] = e]
      BY <3>2
    <3>3. UNCHANGED dealing \/ \E n, e : dealing' = [dealing EXCEPT ![n] = e]
      BY DEF Next, vars, nodeVars, Tick, SetClockBack, DiscoveryRound,
             PerformDiscoveryGossip, AddNode, StopNode, StartNode, Boot,
             HandleDiscoveryFrame, UpdateKnownNodes
    <3> QED
      BY <3>1, <3>2, <3>3
  <2> QED
    BY <1>2, <2>1 DEF SocketInv, SocketOf
<1> QED
  BY <1>1, <1>2, <1>3

(***************************************************************************)
(* Each peer in the table of a node has one place in the turn in which its *)
(* socket deals out the table (SocketMatches), in every network.           *)
(***************************************************************************)
THEOREM SocketsAlwaysMatch == Spec => []SocketMatches
<1>1. SocketsInv => SocketMatches
  <2> SUFFICES ASSUME SocketsInv, NEW n \in Node
               PROVE  LET peers == Listed(known[n]) \ {n}
                      IN  /\ ToSet(dealing[n].peers) = peers
                          /\ Len(dealing[n].peers) = Cardinality(peers)
    BY DEF SocketMatches
  <2> DEFINE peers == Listed(known[n]) \ {n}
  <2>1. Turn(dealing[n].peers, peers) /\ peers \in SUBSET Node
    BY DEF SocketsInv, SocketInv, SocketOf, Listed
  <2> QED
    BY <2>1, TurnLength DEF Turn
<1> QED
  BY <1>1, InitSocketsInv, NextSockets, PTL DEF Spec

-----------------------------------------------------------------------------
(* The range of ages.                                                      *)

Commands == [stops : 0 .. MaxStops, starts : 0 .. MaxStarts,
             clockSteps : 0 .. MaxClockSteps]

(* The youngest age there can be: as far ahead as the clock was set back.  *)
Ahead == - (commands.clockSteps * ClockStep)

Aged(table, low) ==
  \A p \in Node : table[p] # Unknown => low <= table[p] /\ table[p] <= MaxAge

AllAged(low) ==
  /\ \A n \in Node : Aged(known[n], low)
  /\ \A m, n \in Node : Aged(pipe[m][n], low)

AgeInv ==
  /\ commands \in Commands
  /\ timer \in [Node -> Nat]
  /\ AllAged(Ahead)

LEMMA ClockNumbers ==
  /\ MaxAge \in Nat
  /\ ClockStep \in Nat \ {0} /\ MaxClockSteps \in Nat
  /\ \A k \in 0 .. MaxClockSteps :
       /\ k * ClockStep \in Nat
       /\ (k + 1) * ClockStep = k * ClockStep + ClockStep
       /\ k * ClockStep <= MaxClockSteps * ClockStep
<1>1. ClockStep \in Nat \ {0} /\ MaxClockSteps \in Nat /\ Timeout \in Nat
  BY DiscoveryAssumption
<1>2. ASSUME NEW k \in 0 .. MaxClockSteps
      PROVE  /\ k * ClockStep \in Nat
             /\ (k + 1) * ClockStep = k * ClockStep + ClockStep
  BY <1>1
<1>3. ASSUME NEW k \in 0 .. MaxClockSteps
      PROVE  k * ClockStep <= MaxClockSteps * ClockStep
  BY <1>1
<1>4. MaxAge \in Nat
  <2>1. MaxClockSteps * ClockStep \in Nat
    BY <1>1
  <2> QED
    BY <1>1, <2>1 DEF MaxAge
<1> QED
  BY <1>1, <1>2, <1>3, <1>4

LEMMA FreshestAged ==
  ASSUME NEW old \in [Node -> Ages], NEW new \in [Node -> Ages], NEW low,
         Aged(old, low), Aged(new, low)
  PROVE  Aged(Freshest(old, new), low)
<1> SUFFICES ASSUME NEW p \in Node, Freshest(old, new)[p] # Unknown
             PROVE  low <= Freshest(old, new)[p] /\ Freshest(old, new)[p] <= MaxAge
  BY DEF Aged
<1>1. p \in Listed(old) \cup Listed(new)
  BY FreshestTable DEF Listed
<1>2. \/ p \in Listed(old) /\ Freshest(old, new)[p] = old[p]
      \/ p \in Listed(new) /\ Freshest(old, new)[p] = new[p]
  BY <1>1, FreshestTable
<1> QED
  BY <1>2 DEF Aged, Listed

LEMMA NewAged ==
  ASSUME NEW low \in Int, low <= 0
  PROVE  /\ Aged(Nobody, low)
         /\ \A n : \A peers : Aged(BootTable(n, peers), low)
BY ClockNumbers DEF Aged, Nobody, BootTable

LEMMA MovedAged ==
  ASSUME NEW table \in [Node -> Ages], NEW d \in Int, NEW low \in Int, NEW low2 \in Int,
         Aged(table, low), low2 <= low + d, low2 <= 0
  PROVE  Aged(Moved(table, d), low2)
<1> SUFFICES ASSUME NEW p \in Node, Moved(table, d)[p] # Unknown
             PROVE  low2 <= Moved(table, d)[p] /\ Moved(table, d)[p] <= MaxAge
  BY DEF Aged
<1>1. p \in Listed(table)
  BY MovedTable DEF Listed
<1>2. table[p] \in Int /\ low <= table[p]
  BY <1>1 DEF Aged, Listed, Ages
<1>3. Moved(table, d)[p] = IF table[p] + d <= MaxAge THEN table[p] + d ELSE MaxAge
  BY <1>1, MovedTable
<1> QED
  BY <1>2, <1>3, ClockNumbers

LEMMA ClockAged ==
  ASSUME MatchInv, NEW d \in Int, MoveClock(d), NEW low \in Int, NEW low2 \in Int,
         AllAged(low), low2 <= low + d, low2 <= 0
  PROVE  AllAged(low2)'
<1>1. ASSUME NEW n \in Node
      PROVE  Aged(known'[n], low2)
  <2>1. CASE up[n]
    <3> DEFINE moved == Moved(known[n], d)
    <3>1. known'[n] = [moved EXCEPT ![n] = 0]
      BY <2>1 DEF MoveClock
    <3>2. known[n] \in [Node -> Ages] /\ Aged(known[n], low)
      BY DEF MatchInv, TypeInv, AllAged
    <3>3. moved \in [Node -> Ages] /\ Aged(moved, low2)
      BY <3>2, MovedTable, MovedAged
    <3> HIDE DEF moved
    <3> QED
      BY <3>1, <3>3, ClockNumbers DEF Aged
  <2>2. CASE ~ up[n]
    BY <2>2, NewAged DEF MoveClock
  <2> QED
    BY <2>1, <2>2
<1>2. ASSUME NEW m \in Node, NEW n \in Node
      PROVE  Aged(pipe'[m][n], low2)
  <2>1. pipe'[m][n] = Moved(pipe[m][n], d)
    BY DEF MoveClock
  <2>2. pipe[m][n] \in [Node -> Ages] /\ Aged(pipe[m][n], low)
    BY DEF MatchInv, TypeInv, AllAged
  <2> QED
    BY <2>1, <2>2, MovedAged
<1> QED
  BY <1>1, <1>2 DEF AllAged

LEMMA RoundAged ==
  ASSUME MatchInv, NEW n \in Node, DiscoveryRound(n), NEW low, AllAged(low)
  PROVE  AllAged(low)'
<1> DEFINE left == Survivors(n)
<1> PICK d \in Disconnect(dealing[n], Dead(n)) : PerformDiscoveryGossip(n, left, d)
  BY DEF DiscoveryRound
<1>1. known' = [known EXCEPT ![n] = left]
  BY DEF DiscoveryRound, EvictDeadNodes
<1>2. left \in [Node -> Ages] /\ Aged(left, low)
  BY DiscoveryAssumption DEF MatchInv, TypeInv, Survivors, AllAged, Aged, Ages
<1> HIDE DEF left
<1>3. \A q \in Node : Aged(known'[q], low)
  BY <1>1, <1>2 DEF AllAged, MatchInv, TypeInv
<1>4. ASSUME NEW m \in Node, NEW q \in Node
      PROVE  Aged(pipe'[m][q], low)
  <2>1. pipe[m][q] \in [Node -> Ages] /\ Aged(pipe[m][q], low)
    BY DEF AllAged, MatchInv, TypeInv
  <2>2. pipe'[m][q] = pipe[m][q] \/ pipe'[m][q] = Freshest(pipe[m][q], left)
    <3>1. CASE d.peers = <<>>
      BY <3>1 DEF PerformDiscoveryGossip
    <3>2. CASE d.peers # <<>>
      <4> DEFINE p == NextPeer(d)
      <4>1. pipe' = [pipe EXCEPT ![n][p] = Enqueue(@, left)]
        BY <3>2 DEF PerformDiscoveryGossip
      <4> HIDE DEF p
      <4> QED
        BY <4>1 DEF Enqueue, MatchInv, TypeInv
    <3> QED
      BY <3>1, <3>2
  <2> QED
    BY <1>2, <2>1, <2>2, FreshestAged
<1> QED
  BY <1>3, <1>4 DEF AllAged

LEMMA FrameAged ==
  ASSUME MatchInv, NEW m \in Node, NEW n \in Node, HandleDiscoveryFrame(m, n),
         NEW low \in Int, low <= 0, AllAged(low)
  PROVE  AllAged(low)'
<1> DEFINE table == pipe[m][n]
           fresh == Freshest(known[n], table)
<1>1. /\ known' = [known EXCEPT ![n] = [fresh EXCEPT ![n] = 0]]
      /\ pipe' = [pipe EXCEPT ![m][n] = Nobody]
  BY DEF HandleDiscoveryFrame, UpdateKnownNodes, MatchInv, TypeInv
<1>2. /\ table \in [Node -> Ages] /\ Aged(table, low)
      /\ known[n] \in [Node -> Ages] /\ Aged(known[n], low)
  BY DEF AllAged, MatchInv, TypeInv
<1>3. fresh \in [Node -> Ages] /\ Aged(fresh, low)
  BY <1>2, FreshestTable, FreshestAged
<1> HIDE DEF fresh
<1>4. Aged([fresh EXCEPT ![n] = 0], low)
  BY <1>3, ClockNumbers DEF Aged
<1>5. \A q \in Node : Aged(known'[q], low)
  BY <1>1, <1>4 DEF AllAged, MatchInv, TypeInv
<1>6. \A p, q \in Node : Aged(pipe'[p][q], low)
  BY <1>1, NewAged DEF AllAged, MatchInv, TypeInv
<1> QED
  BY <1>5, <1>6 DEF AllAged

LEMMA BootAged ==
  ASSUME MatchInv, NEW n \in Node, NEW peers, Boot(n, peers),
         NEW low \in Int, low <= 0, AllAged(low)
  PROVE  AllAged(low)'
BY NewAged DEF Boot, AllAged, MatchInv, TypeInv

LEMMA StopAged ==
  ASSUME MatchInv, NEW n \in Node, StopNode(n),
         NEW low \in Int, low <= 0, AllAged(low)
  PROVE  AllAged(low)'
<1>1. known' = [known EXCEPT ![n] = Nobody]
  BY DEF StopNode
<1>2. \A m, q \in Node : pipe'[m][q] = pipe[m][q] \/ pipe'[m][q] = Nobody
  <2>1. PICK lost \in SUBSET Node :
          pipe' = [m \in Node |-> IF m \in lost
                                  THEN [pipe[m] EXCEPT ![n] = Nobody]
                                  ELSE pipe[m]]
    BY DEF StopNode
  <2> QED
    BY <2>1 DEF MatchInv, TypeInv
<1> QED
  BY <1>1, <1>2, NewAged DEF AllAged, MatchInv, TypeInv

LEMMA InitAged == Init => AgeInv
<1> SUFFICES ASSUME Init
             PROVE  AgeInv
  OBVIOUS
<1>1. commands \in Commands /\ Ahead = 0
  BY DiscoveryAssumption DEF Init, Commands, Ahead
<1>2. timer \in [Node -> Nat]
  BY DiscoveryAssumption DEF Init
<1>3. AllAged(0)
  BY NewAged DEF Init, AllAged
<1> QED
  BY <1>1, <1>2, <1>3 DEF AgeInv

LEMMA NextAged == MatchInv /\ AgeInv /\ [Next]_vars => AgeInv'
<1> SUFFICES ASSUME MatchInv, AgeInv, [Next]_vars
             PROVE  AgeInv'
  OBVIOUS
<1>1. commands \in Commands /\ timer \in [Node -> Nat] /\ AllAged(Ahead)
  BY DEF AgeInv
<1>2. Ahead \in Int /\ Ahead <= 0
  BY <1>1, ClockNumbers DEF Ahead, Commands
<1>3. \A j \in Jitter : Interval + j \in Nat
  BY DiscoveryAssumption
<1>4. CASE Tick
  <2>1. commands' = commands /\ Ahead' = Ahead
    BY <1>4 DEF Tick, Ahead
  <2>2. timer' \in [Node -> Nat]
    BY <1>1, <1>4 DEF Tick
  <2>3. AllAged(Ahead)'
    BY <1>1, <1>2, <1>4, <2>1, ClockAged DEF Tick
  <2> QED
    BY <1>1, <2>1, <2>2, <2>3 DEF AgeInv
<1>5. CASE SetClockBack
  <2>1. /\ commands' = [commands EXCEPT !.clockSteps = @ + 1]
        /\ commands.clockSteps < MaxClockSteps
    BY <1>5 DEF SetClockBack, Commanded
  <2>2. commands' \in Commands /\ commands'.clockSteps = commands.clockSteps + 1
    BY <1>1, <2>1, ClockNumbers DEF Commands
  <2>3. Ahead' \in Int /\ Ahead' = Ahead + (- ClockStep) /\ Ahead' <= 0
    BY <1>1, <2>2, ClockNumbers DEF Ahead, Commands
  <2>4. timer' \in [Node -> Nat]
    <3>1. PICK late \in SUBSET Node :
            timer' = [n \in Node |-> CASE ~ up[n]    -> 0
                                       [] n \in late -> ClockStep - 1
                                       [] OTHER      -> timer[n] + ClockStep]
      BY <1>5 DEF SetClockBack
    <3>2. ClockStep - 1 \in Nat
      BY ClockNumbers
    <3> QED
      BY <1>1, <3>1, <3>2, ClockNumbers
  <2>5. AllAged(Ahead)'
    <3>1. - ClockStep \in Int /\ MoveClock(- ClockStep)
      BY <1>5, ClockNumbers DEF SetClockBack
    <3> QED
      BY <1>1, <1>2, <2>3, <3>1, ClockAged
  <2> QED
    BY <2>2, <2>4, <2>5 DEF AgeInv
<1>6. ASSUME NEW n \in Node, DiscoveryRound(n)
      PROVE  AgeInv'
  <2>1. commands' = commands /\ Ahead' = Ahead
    BY <1>6 DEF DiscoveryRound, Ahead
  <2>2. timer' \in [Node -> Nat]
    BY <1>1, <1>3, <1>6 DEF DiscoveryRound, SetTimer
  <2> QED
    BY <1>1, <1>6, <2>1, <2>2, RoundAged DEF AgeInv
<1>7. ASSUME NEW n \in Node, AddNode(n)
      PROVE  AgeInv'
  <2>1. PICK p : Boot(n, <<p>>)
    BY <1>7 DEF AddNode
  <2>2. commands' = commands /\ Ahead' = Ahead
    BY <1>7 DEF AddNode, Ahead
  <2>3. timer' \in [Node -> Nat]
    BY <1>1, <1>3, <2>1 DEF Boot, SetTimer
  <2> QED
    BY <1>1, <1>2, <2>1, <2>2, <2>3, BootAged DEF AgeInv
<1>8. ASSUME NEW n \in Node, StopNode(n)
      PROVE  AgeInv'
  <2>1. commands' = [commands EXCEPT !.stops = @ + 1] /\ commands.stops < MaxStops
    BY <1>8 DEF StopNode, Commanded
  <2>2. commands' \in Commands /\ Ahead' = Ahead
    BY <1>1, <2>1, DiscoveryAssumption DEF Commands, Ahead
  <2>3. timer' \in [Node -> Nat]
    BY <1>1, <1>8 DEF StopNode
  <2> QED
    BY <1>1, <1>2, <1>8, <2>2, <2>3, StopAged DEF AgeInv
<1>9. ASSUME NEW n \in Node, StartNode(n)
      PROVE  AgeInv'
  <2>1. /\ commands' = [commands EXCEPT !.starts = @ + 1] /\ commands.starts < MaxStarts
        /\ Boot(n, contacts[n])
    BY <1>9 DEF StartNode, Commanded
  <2>2. commands' \in Commands /\ Ahead' = Ahead
    BY <1>1, <2>1, DiscoveryAssumption DEF Commands, Ahead
  <2>3. timer' \in [Node -> Nat]
    BY <1>1, <1>3, <2>1 DEF Boot, SetTimer
  <2> QED
    BY <1>1, <1>2, <2>1, <2>2, <2>3, BootAged DEF AgeInv
<1>10. ASSUME NEW m \in Node, NEW n \in Node, HandleDiscoveryFrame(m, n)
       PROVE  AgeInv'
  <2>1. commands' = commands /\ Ahead' = Ahead /\ timer' = timer
    BY <1>10 DEF HandleDiscoveryFrame, Ahead
  <2> QED
    BY <1>1, <1>2, <1>10, <2>1, FrameAged DEF AgeInv
<1>11. CASE UNCHANGED vars
  BY <1>11 DEF vars, nodeVars, AgeInv, AllAged, Ahead
<1> QED
  BY <1>4, <1>5, <1>6, <1>7, <1>8, <1>9, <1>10, <1>11 DEF Next

(***************************************************************************)
(* TypeOK: in particular no timer goes below zero, the socket always has a *)
(* valid next peer, and an age never leaves the range that is kept.        *)
(***************************************************************************)
THEOREM MembershipTypeCorrect == Spec => []TypeOK
<1>1. SocketsInv /\ AgeInv => TypeOK
  <2> SUFFICES ASSUME SocketsInv, AgeInv
               PROVE  TypeOK
    OBVIOUS
  <2>1. ASSUME NEW table \in [Node -> Ages], Aged(table, Ahead)
        PROVE  table \in Table
    <3>1. /\ MaxClockSteps * ClockStep \in Nat /\ MaxAge \in Nat
          /\ Ahead \in Int /\ - (MaxClockSteps * ClockStep) <= Ahead
      BY ClockNumbers DEF AgeInv, Commands, Ahead
    <3>2. - MaxClockSteps * ClockStep = - (MaxClockSteps * ClockStep)
      BY ClockNumbers
    <3>3. ASSUME NEW p \in Node, table[p] # Unknown
          PROVE  table[p] \in Age
      <4>1. table[p] \in Int /\ Ahead <= table[p] /\ table[p] <= MaxAge
        BY <2>1, <3>3 DEF Aged, Ages
      <4> QED
        BY <3>1, <3>2, <4>1 DEF Age
    <3> QED
      BY <3>3 DEF Table
  <2>2. known \in [Node -> Table] /\ pipe \in [Node -> [Node -> Table]]
    <3>1. ASSUME NEW n \in Node
          PROVE  known[n] \in Table /\ \A m \in Node : pipe[n][m] \in Table
      BY <2>1 DEF SocketsInv, MatchInv, TypeInv, AgeInv, AllAged
    <3> QED
      BY <3>1 DEF SocketsInv, MatchInv, TypeInv
  <2>3. ASSUME NEW n \in Node
        PROVE  dealing[n].next \in 1 .. Max({1, Len(dealing[n].peers)})
    <3>1. /\ dealing[n].next \in Nat \ {0} /\ Len(dealing[n].peers) \in Nat
          /\ dealing[n].next = 1 \/ dealing[n].next <= Len(dealing[n].peers)
      BY DEF SocketsInv, SocketInv, SocketOf, Socket, Turn
    <3> QED
      BY <3>1, MaxOfTwo
  <2>4. dealing \in [Node -> [peers : Seq(Node), next : Nat \ {0}]]
    BY DEF SocketsInv, Socket
  <2>5. /\ up \in [Node -> BOOLEAN] /\ contacts \in [Node -> Seq(Node)]
        /\ connectedDiscovery \in [Node -> SUBSET Node]
        /\ connectedShard \in [Node -> SUBSET Node]
    BY DEF SocketsInv, MatchInv, TypeInv
  <2>6. /\ timer \in [Node -> Nat]
        /\ commands \in [stops : 0 .. MaxStops, starts : 0 .. MaxStarts,
                         clockSteps : 0 .. MaxClockSteps]
    BY DEF AgeInv, Commands
  <2> QED
    BY <2>2, <2>3, <2>4, <2>5, <2>6 DEF TypeOK
<1>2. SocketsInv /\ AgeInv /\ [Next]_vars => (SocketsInv /\ AgeInv)'
  BY NextSockets, NextAged DEF SocketsInv
<1> QED
  BY <1>1, <1>2, InitSocketsInv, InitAged, PTL DEF Spec

-----------------------------------------------------------------------------
(* What the timestamps of a node are worth (Hearsay).                      *)

(* The steps of the record are those of membership.                        *)
LEMMA HearsaySteps == HearsayNext => Next
BY DEF HearsayNext, Next

(* What a node reads of a peer's age is what it is, or less.               *)
LEMMA RecentAge ==
  ASSUME NEW age \in Int
  PROVE  /\ 0 <= age /\ age <= Timeout => Recent(age)
         /\ Recent(age) /\ age <= MaxAge => age <= Timeout
<1>1. Timeout \in Nat /\ MaxClockSteps \in Nat /\ ClockStep \in Nat /\ Modulus \in Nat
  BY DiscoveryAssumption
<1>2. MaxClockSteps * ClockStep \in Nat
  BY <1>1
<1>3. 2 * MaxClockSteps * ClockStep = MaxClockSteps * ClockStep + MaxClockSteps * ClockStep
  BY <1>1
<1>4. MaxAge < Modulus /\ Timeout < MaxAge
  BY <1>1, <1>2, <1>3, DiscoveryAssumption DEF MaxAge
<1>5. MaxAge \in Int
  BY <1>1, <1>2 DEF MaxAge
<1>6. 0 <= age /\ age < Modulus => age % Modulus = age
  BY <1>1
<1>7. CASE 0 <= age /\ age < Modulus
  BY <1>1, <1>6, <1>7 DEF Recent
<1>8. CASE age < 0
  BY <1>1, <1>8
<1>9. CASE age >= Modulus
  BY <1>1, <1>4, <1>5, <1>9
<1> QED
  BY <1>1, <1>7, <1>8, <1>9

LEMMA SoonerOfTwo ==
  ASSUME NEW a \in Int, NEW b \in Int
  PROVE  Sooner(a, b) \in Int /\ Sooner(a, b) <= a /\ Sooner(a, b) <= b
BY MinOfTwo DEF Sooner

(* Signs of life: no stamp of a peer anywhere is later than its last one.  *)

NoLater(table, signs) == \A p \in Node : table[p] # Unknown => signs[p] <= table[p]

AliveInv ==
  /\ alive \in [Node -> Int]
  /\ \A p \in Node : up[p] => alive[p] <= 0
  /\ \A n \in Node : NoLater(known[n], alive)
  /\ \A m, n \in Node : NoLater(pipe[m][n], alive)

LEMMA FreshestNoLater ==
  ASSUME NEW old \in [Node -> Ages], NEW new \in [Node -> Ages], NEW signs,
         NoLater(old, signs), NoLater(new, signs)
  PROVE  NoLater(Freshest(old, new), signs)
<1> SUFFICES ASSUME NEW p \in Node, Freshest(old, new)[p] # Unknown
             PROVE  signs[p] <= Freshest(old, new)[p]
  BY DEF NoLater
<1>1. p \in Listed(old) \cup Listed(new)
  BY FreshestTable DEF Listed
<1>2. \/ p \in Listed(old) /\ Freshest(old, new)[p] = old[p]
      \/ p \in Listed(new) /\ Freshest(old, new)[p] = new[p]
  BY <1>1, FreshestTable
<1> QED
  BY <1>2 DEF NoLater, Listed

(* The clock moves stamps and signs together.                              *)
LEMMA ClockAlive ==
  ASSUME MatchInv, AliveInv, NEW d \in Int, MoveClock(d), Elapse(d), UNCHANGED up
  PROVE  AliveInv'
<1>1. MaxAge \in Int /\ 0 <= MaxAge
  BY ClockNumbers
<1>2. ASSUME NEW p \in Node
      PROVE  /\ alive'[p] \in Int /\ alive'[p] <= alive[p] + d /\ alive'[p] <= MaxAge
             /\ up[p] => alive'[p] <= 0
  <2> DEFINE most == IF up[p] THEN 0 ELSE MaxAge
  <2>1. alive'[p] = Sooner(alive[p] + d, most)
    BY DEF Elapse
  <2>2. most \in Int /\ alive[p] + d \in Int /\ alive[p] \in Int
    BY <1>1 DEF AliveInv
  <2>3. alive'[p] \in Int /\ alive'[p] <= alive[p] + d /\ alive'[p] <= most
    BY <2>1, <2>2, SoonerOfTwo
  <2> QED
    BY <1>1, <2>3
<1>3. alive' \in [Node -> Int]
  BY <1>2 DEF Elapse
<1>4. ASSUME NEW table \in [Node -> Ages], NoLater(table, alive)
      PROVE  NoLater(Moved(table, d), alive')
  <2> SUFFICES ASSUME NEW p \in Node, Moved(table, d)[p] # Unknown
               PROVE  alive'[p] <= Moved(table, d)[p]
    BY DEF NoLater
  <2>1. p \in Listed(table)
    BY MovedTable DEF Listed
  <2>2. /\ table[p] \in Int /\ alive[p] <= table[p] /\ alive[p] \in Int
        /\ Moved(table, d)[p] = IF table[p] + d <= MaxAge THEN table[p] + d ELSE MaxAge
    BY <1>4, <2>1, MovedTable DEF NoLater, Listed, Ages, AliveInv
  <2> QED
    BY <1>1, <1>2, <2>2
<1>5. ASSUME NEW n \in Node
      PROVE  NoLater(known'[n], alive')
  <2>1. CASE up[n]
    <3> DEFINE moved == Moved(known[n], d)
    <3>1. known'[n] = [moved EXCEPT ![n] = 0]
      BY <2>1 DEF MoveClock
    <3>2. known[n] \in [Node -> Ages] /\ NoLater(known[n], alive)
      BY DEF MatchInv, TypeInv, AliveInv
    <3>3. moved \in [Node -> Ages] /\ NoLater(moved, alive')
      BY <1>4, <3>2, MovedTable
    <3> HIDE DEF moved
    <3> QED
      BY <1>2, <2>1, <3>1, <3>3 DEF NoLater
  <2>2. CASE ~ up[n]
    BY <2>2 DEF MoveClock, NoLater, Nobody
  <2> QED
    BY <2>1, <2>2
<1>6. ASSUME NEW m \in Node, NEW n \in Node
      PROVE  NoLater(pipe'[m][n], alive')
  <2>1. pipe'[m][n] = Moved(pipe[m][n], d)
    BY DEF MoveClock
  <2> QED
    BY <1>4, <2>1 DEF MatchInv, TypeInv, AliveInv
<1> QED
  BY <1>2, <1>3, <1>5, <1>6 DEF AliveInv

(* Eviction and gossip copy stamps.                                        *)
LEMMA RoundAlive ==
  ASSUME MatchInv, AliveInv, NEW n \in Node, DiscoveryRound(n), UNCHANGED alive
  PROVE  AliveInv'
<1> DEFINE left == Survivors(n)
<1> PICK d \in Disconnect(dealing[n], Dead(n)) : PerformDiscoveryGossip(n, left, d)
  BY DEF DiscoveryRound
<1>1. known' = [known EXCEPT ![n] = left] /\ up' = up
  BY DEF DiscoveryRound, EvictDeadNodes
<1>2. left \in [Node -> Ages] /\ NoLater(left, alive)
  BY DiscoveryAssumption DEF MatchInv, TypeInv, Survivors, AliveInv, NoLater, Ages
<1> HIDE DEF left
<1>3. \A q \in Node : NoLater(known'[q], alive)
  BY <1>1, <1>2 DEF AliveInv, MatchInv, TypeInv
<1>4. ASSUME NEW m \in Node, NEW q \in Node
      PROVE  NoLater(pipe'[m][q], alive)
  <2>1. pipe[m][q] \in [Node -> Ages] /\ NoLater(pipe[m][q], alive)
    BY DEF AliveInv, MatchInv, TypeInv
  <2>2. pipe'[m][q] = pipe[m][q] \/ pipe'[m][q] = Freshest(pipe[m][q], left)
    <3>1. CASE d.peers = <<>>
      BY <3>1 DEF PerformDiscoveryGossip
    <3>2. CASE d.peers # <<>>
      <4> DEFINE p == NextPeer(d)
      <4>1. pipe' = [pipe EXCEPT ![n][p] = Enqueue(@, left)]
        BY <3>2 DEF PerformDiscoveryGossip
      <4> HIDE DEF p
      <4> QED
        BY <4>1 DEF Enqueue, MatchInv, TypeInv
    <3> QED
      BY <3>1, <3>2
  <2> QED
    BY <1>2, <2>1, <2>2, FreshestNoLater
<1> QED
  BY <1>1, <1>3, <1>4 DEF AliveInv

(* A node that receives stamps itself, which runs.                         *)
LEMMA FrameAlive ==
  ASSUME MatchInv, AliveInv, NEW m \in Node, NEW n \in Node,
         HandleDiscoveryFrame(m, n), UNCHANGED alive
  PROVE  AliveInv'
<1> DEFINE table == pipe[m][n]
           fresh == Freshest(known[n], table)
<1>1. /\ known' = [known EXCEPT ![n] = [fresh EXCEPT ![n] = 0]]
      /\ pipe' = [pipe EXCEPT ![m][n] = Nobody]
      /\ up[n] /\ up' = up
  BY DEF HandleDiscoveryFrame, UpdateKnownNodes, MatchInv, TypeInv
<1>2. /\ table \in [Node -> Ages] /\ NoLater(table, alive)
      /\ known[n] \in [Node -> Ages] /\ NoLater(known[n], alive)
  BY DEF AliveInv, MatchInv, TypeInv
<1>3. fresh \in [Node -> Ages] /\ NoLater(fresh, alive)
  BY <1>2, FreshestTable, FreshestNoLater
<1> HIDE DEF fresh
<1>4. NoLater([fresh EXCEPT ![n] = 0], alive)
  BY <1>1, <1>3 DEF NoLater, AliveInv
<1>5. \A q \in Node : NoLater(known'[q], alive)
  BY <1>1, <1>4 DEF AliveInv, MatchInv, TypeInv
<1>6. \A p, q \in Node : NoLater(pipe'[p][q], alive)
  BY <1>1 DEF AliveInv, NoLater, Nobody, MatchInv, TypeInv
<1> QED
  BY <1>1, <1>5, <1>6 DEF AliveInv

(* Whom a node vouches for when it boots counts as seen.                   *)
LEMMA BootAlive ==
  ASSUME MatchInv, AliveInv, NEW n \in Node, NEW peers, Boot(n, peers),
         Signs({n} \cup ToSet(peers))
  PROVE  AliveInv'
<1>1. ASSUME NEW p \in Node
      PROVE  /\ alive'[p] \in Int /\ alive'[p] <= alive[p]
             /\ p \in {n} \cup ToSet(peers) => alive'[p] <= 0
  <2>1. CASE p \in {n} \cup ToSet(peers)
    <3>1. alive'[p] = Sooner(alive[p], 0) /\ alive[p] \in Int
      BY <2>1 DEF Signs, AliveInv
    <3>2. /\ Sooner(alive[p], 0) \in Int
          /\ Sooner(alive[p], 0) <= alive[p] /\ Sooner(alive[p], 0) <= 0
      <4>1. alive[p] \in Int /\ 0 \in Int
        BY <3>1
      <4> QED
        BY <4>1, SoonerOfTwo
    <3> QED
      BY <3>1, <3>2
  <2>2. CASE p \notin {n} \cup ToSet(peers)
    <3>1. alive'[p] = alive[p] /\ alive[p] \in Int
      BY <2>2 DEF Signs, AliveInv
    <3> QED
      BY <2>2, <3>1
  <2> QED
    BY <2>1, <2>2
<1>2. alive' \in [Node -> Int]
  BY <1>1 DEF Signs
<1>3. ASSUME NEW table, NoLater(table, alive), table \in [Node -> Ages]
      PROVE  NoLater(table, alive')
  <2> SUFFICES ASSUME NEW p \in Node, table[p] # Unknown
               PROVE  alive'[p] <= table[p]
    BY DEF NoLater
  <2>1. alive[p] <= table[p] /\ table[p] \in Int /\ alive[p] \in Int
    BY <1>3 DEF NoLater, Ages, AliveInv
  <2> QED
    BY <1>1, <2>1
<1>4. NoLater(BootTable(n, peers), alive')
  BY <1>1 DEF NoLater, BootTable
<1>5. \A q \in Node : NoLater(known'[q], alive')
  BY <1>3, <1>4 DEF Boot, AliveInv, MatchInv, TypeInv
<1>6. \A m, q \in Node : NoLater(pipe'[m][q], alive')
  BY <1>3 DEF Boot, AliveInv, MatchInv, TypeInv
<1>7. \A p \in Node : up'[p] => alive'[p] <= 0
  <2> SUFFICES ASSUME NEW p \in Node, up'[p]
               PROVE  alive'[p] <= 0
    OBVIOUS
  <2>1. p = n \/ up[p]
    BY DEF Boot, MatchInv, TypeInv
  <2>2. up[p] => alive[p] <= 0 /\ alive[p] \in Int
    BY DEF AliveInv
  <2> QED
    BY <1>1, <2>1, <2>2
<1> QED
  BY <1>2, <1>5, <1>6, <1>7 DEF AliveInv

LEMMA StopAlive ==
  ASSUME MatchInv, AliveInv, NEW n \in Node, StopNode(n), UNCHANGED alive
  PROVE  AliveInv'
<1>1. known' = [known EXCEPT ![n] = Nobody] /\ up' = [up EXCEPT ![n] = FALSE]
  BY DEF StopNode
<1>2. \A m, q \in Node : pipe'[m][q] = pipe[m][q] \/ pipe'[m][q] = Nobody
  <2>1. PICK lost \in SUBSET Node :
          pipe' = [m \in Node |-> IF m \in lost
                                  THEN [pipe[m] EXCEPT ![n] = Nobody]
                                  ELSE pipe[m]]
    BY DEF StopNode
  <2> QED
    BY <2>1 DEF MatchInv, TypeInv
<1>3. NoLater(Nobody, alive)
  BY DEF NoLater, Nobody
<1> QED
  BY <1>1, <1>2, <1>3 DEF AliveInv, MatchInv, TypeInv

LEMMA InitAlive == HearsayInit => AliveInv
<1> SUFFICES ASSUME HearsayInit
             PROVE  AliveInv
  OBVIOUS
<1>1. alive \in [Node -> Int]
  BY ClockNumbers DEF HearsayInit
<1>2. \A p \in Node : up[p] => alive[p] <= 0
  <2> SUFFICES ASSUME NEW p \in Node, up[p]
               PROVE  alive[p] = 0
    OBVIOUS
  <2>1. p \in Bootstrap
    BY DEF HearsayInit, Init
  <2> QED
    BY <2>1 DEF HearsayInit
<1>3. ASSUME NEW n \in Bootstrap, NEW p \in Node, BootTable(n, InitialPeers(n))[p] # Unknown
      PROVE  p \in Bootstrap /\ BootTable(n, InitialPeers(n))[p] = 0
  <2>1. p \in {n} \cup ToSet(InitialPeers(n)) /\ BootTable(n, InitialPeers(n))[p] = 0
    BY <1>3 DEF BootTable
  <2>2. ToSet(InitialPeers(n)) \subseteq Bootstrap
    <3>1. InitialPeers(n) = [i \in 1 .. LastBootstrap |-> IF i <= n THEN i - 1 ELSE i]
      BY DEF InitialPeers
    <3>2. LastBootstrap \in Nat /\ n \in Nat /\ n <= LastBootstrap
      BY DiscoveryAssumption DEF Bootstrap, Node
    <3>3. \A i \in 1 .. LastBootstrap : (IF i <= n THEN i - 1 ELSE i) \in Bootstrap
      BY <3>2 DEF Bootstrap
    <3> QED
      BY <3>1, <3>3 DEF ToSet
  <2> QED
    BY <2>1, <2>2
<1>4. \A n \in Node : NoLater(known[n], alive)
  <2> SUFFICES ASSUME NEW n \in Node, NEW p \in Node, known[n][p] # Unknown
               PROVE  alive[p] <= known[n][p]
    BY DEF NoLater
  <2>1. n \in Bootstrap /\ known[n] = BootTable(n, InitialPeers(n))
    BY DEF HearsayInit, Init, Nobody
  <2>2. p \in Bootstrap /\ known[n][p] = 0
    BY <1>3, <2>1
  <2> QED
    BY <2>2 DEF HearsayInit
<1>5. \A m, n \in Node : NoLater(pipe[m][n], alive)
  BY DEF HearsayInit, Init, NoLater, Nobody
<1> QED
  BY <1>1, <1>2, <1>4, <1>5 DEF AliveInv

LEMMA NextAlive == MatchInv /\ AliveInv /\ [HearsayNext]_hearsayVars => AliveInv'
<1> SUFFICES ASSUME MatchInv, AliveInv, [HearsayNext]_hearsayVars
             PROVE  AliveInv'
  OBVIOUS
<1>1. CASE Tick /\ Elapse(1)
  BY <1>1, ClockAlive DEF Tick
<1>2. CASE SetClockBack /\ Elapse(- ClockStep)
  <2>1. - ClockStep \in Int
    BY ClockNumbers
  <2> QED
    BY <1>2, <2>1, ClockAlive DEF SetClockBack
<1>3. ASSUME NEW n \in Node, DiscoveryRound(n), UNCHANGED alive
      PROVE  AliveInv'
  BY <1>3, RoundAlive
<1>4. ASSUME NEW n \in Node, AddNode(n), Signs({n} \cup ToSet(contacts'[n]))
      PROVE  AliveInv'
  <2>1. PICK p : contacts' = [contacts EXCEPT ![n] = <<p>>] /\ Boot(n, <<p>>)
    BY <1>4 DEF AddNode
  <2>2. contacts'[n] = <<p>>
    BY <2>1 DEF MatchInv, TypeInv
  <2> QED
    BY <1>4, <2>1, <2>2, BootAlive
<1>5. ASSUME NEW n \in Node, StartNode(n), Signs({n} \cup ToSet(contacts[n]))
      PROVE  AliveInv'
  BY <1>5, BootAlive DEF StartNode
<1>6. ASSUME NEW n \in Node, StopNode(n), UNCHANGED alive
      PROVE  AliveInv'
  BY <1>6, StopAlive
<1>7. ASSUME NEW m \in Node, NEW n \in Node, HandleDiscoveryFrame(m, n), UNCHANGED alive
      PROVE  AliveInv'
  BY <1>7, FrameAlive
<1>8. CASE UNCHANGED hearsayVars
  BY <1>8 DEF hearsayVars, vars, nodeVars, AliveInv
<1> QED
  BY <1>1, <1>2, <1>3, <1>4, <1>5, <1>6, <1>7, <1>8 DEF HearsayNext

(***************************************************************************)
(* A node keeps nobody whose last sign of life is older than the timeout   *)
(* (DeadPeersAge), however its stamp came: in every network, whatever is   *)
(* added, stopped and started, and also if the clock is set back.          *)
(***************************************************************************)
THEOREM DeadPeersAlwaysAge == HearsaySpec => []DeadPeersAge
<1> DEFINE Inv == MatchInv /\ AgeInv /\ AliveInv
<1>1. HearsayInit => Inv
  BY InitMatches, InitAged, InitAlive DEF HearsayInit
<1>2. Inv /\ [HearsayNext]_hearsayVars => Inv'
  <2>1. [HearsayNext]_hearsayVars => [Next]_vars
    BY HearsaySteps DEF hearsayVars
  <2> QED
    BY <2>1, NextMatches, NextAged, NextAlive
<1>3. Inv => DeadPeersAge
  <2> SUFFICES ASSUME Inv, NEW n \in Node, NEW p \in Listed(Survivors(n)) \ {n}
               PROVE  alive[p] <= Timeout
    BY DEF DeadPeersAge
  <2>1. /\ p \in Node /\ p # n
        /\ known[n][p] # Unknown /\ Recent(known[n][p])
    BY DEF Survivors, Listed, Dead
  <2>2. known[n][p] \in Int /\ known[n][p] <= MaxAge
    BY <2>1 DEF MatchInv, TypeInv, AgeInv, AllAged, Aged, Ages
  <2>3. known[n][p] <= Timeout
    BY <2>1, <2>2, RecentAge
  <2>4. alive[p] \in Int /\ alive[p] <= known[n][p]
    BY <2>1 DEF AliveInv, NoLater
  <2> QED
    BY <2>2, <2>3, <2>4, DiscoveryAssumption
<1> QED
  BY <1>1, <1>2, <1>3, PTL DEF HearsaySpec

(* Word of the peers themselves: what a node knows is never older.         *)

Trusts(n, table, words) ==
  \A p \in Node \ {n} : words[p] # Unknown => table[p] # Unknown /\ table[p] <= words[p]

HeardInv ==
  /\ heard \in [Node -> [Node -> Ages]]
  /\ \A n \in Node : Trusts(n, known[n], heard[n])

LEMMA ClockHeard ==
  ASSUME MatchInv, HeardInv, NEW d \in Int, MoveClock(d), Elapse(d)
  PROVE  HeardInv'
<1>1. ASSUME NEW n \in Node
      PROVE  /\ heard'[n] = Moved(heard[n], d) /\ heard[n] \in [Node -> Ages]
             /\ known[n] \in [Node -> Ages] /\ Trusts(n, known[n], heard[n])
             /\ Moved(heard[n], d) \in [Node -> Ages]
  BY MovedTable DEF Elapse, HeardInv, MatchInv, TypeInv
<1>2. heard' \in [Node -> [Node -> Ages]]
  BY <1>1 DEF Elapse
<1>3. ASSUME NEW n \in Node, NEW p \in Node \ {n}, heard'[n][p] # Unknown
      PROVE  known'[n][p] # Unknown /\ known'[n][p] <= heard'[n][p]
  <2>1. p \in Listed(heard[n])
    BY <1>1, <1>3, MovedTable DEF Listed
  <2>2. /\ heard[n][p] \in Int /\ known[n][p] \in Int
        /\ known[n][p] <= heard[n][p] /\ p \in Listed(known[n])
    BY <1>1, <2>1 DEF Trusts, Listed, Ages
  <2>3. up[n]
    BY <2>2 DEF MatchInv, Apart
  <2> DEFINE moved == Moved(known[n], d)
  <2>4. known'[n] = [moved EXCEPT ![n] = 0]
    BY <2>3 DEF MoveClock
  <2>5. moved \in [Node -> Ages] /\ p \in Listed(moved)
    BY <1>1, <2>2, MovedTable
  <2>6. /\ moved[p] = IF known[n][p] + d <= MaxAge THEN known[n][p] + d ELSE MaxAge
        /\ heard'[n][p] = IF heard[n][p] + d <= MaxAge THEN heard[n][p] + d ELSE MaxAge
    BY <1>1, <2>1, <2>2, MovedTable
  <2> HIDE DEF moved
  <2>7. known'[n][p] = moved[p] /\ moved[p] # Unknown
    BY <2>4, <2>5 DEF Listed
  <2> QED
    BY <2>2, <2>6, <2>7, ClockNumbers
<1> QED
  BY <1>2, <1>3 DEF HeardInv, Trusts

LEMMA RoundHeard ==
  ASSUME MatchInv, HeardInv, NEW n \in Node, DiscoveryRound(n),
         heard' = [heard EXCEPT ![n] = Unheard(n)]
  PROVE  HeardInv'
<1>1. known' = [known EXCEPT ![n] = Survivors(n)]
  BY DEF DiscoveryRound, EvictDeadNodes
<1>2. Unheard(n) \in [Node -> Ages]
  BY DEF HeardInv, Unheard, Ages
<1>3. Trusts(n, Survivors(n), Unheard(n))
  BY DEF HeardInv, Trusts, Unheard, Survivors
<1> QED
  BY <1>1, <1>2, <1>3 DEF HeardInv, MatchInv, TypeInv

LEMMA FrameHeard ==
  ASSUME MatchInv, HeardInv, NEW m \in Node, NEW n \in Node,
         HandleDiscoveryFrame(m, n),
         heard' = [heard EXCEPT ![n] = Freshest(@, OwnWord(m, n))]
  PROVE  HeardInv'
<1> DEFINE table == pipe[m][n]
           fresh == Freshest(known[n], table)
           word  == OwnWord(m, n)
           words == Freshest(heard[n], word)
<1>1. known' = [known EXCEPT ![n] = [fresh EXCEPT ![n] = 0]]
  BY DEF HandleDiscoveryFrame, UpdateKnownNodes, MatchInv, TypeInv
<1>2. /\ table \in [Node -> Ages] /\ known[n] \in [Node -> Ages]
      /\ heard[n] \in [Node -> Ages] /\ Trusts(n, known[n], heard[n])
  BY DEF HeardInv, MatchInv, TypeInv
<1>3. /\ word \in [Node -> Ages]
      /\ \A p \in Node : word[p] # Unknown => p = m /\ word[p] = table[p]
  BY <1>2 DEF OwnWord, Nobody, Ages
<1> HIDE DEF word
<1>4. words \in [Node -> Ages] /\ heard' = [heard EXCEPT ![n] = words]
  BY <1>2, <1>3, FreshestTable DEF HeardInv, word
<1>5. fresh \in [Node -> Ages]
  BY <1>2, FreshestTable
<1>6. ASSUME NEW p \in Node \ {n}, words[p] # Unknown
      PROVE  fresh[p] # Unknown /\ fresh[p] <= words[p]
  <2>1. Unknown \notin Int
    BY DiscoveryAssumption
  <2>2. p \in Listed(heard[n]) \cup Listed(word)
    BY <1>2, <1>3, <1>6, FreshestTable DEF Listed
  <2>3. \/ p \in Listed(heard[n]) /\ words[p] = heard[n][p]
        \/ p \in Listed(word) /\ words[p] = word[p]
    BY <1>2, <1>3, <2>2, FreshestTable
  <2>4. CASE p \in Listed(heard[n]) /\ words[p] = heard[n][p]
    <3>1. known[n][p] # Unknown /\ known[n][p] <= heard[n][p]
      BY <1>2, <2>4 DEF Trusts, Listed
    <3>2. /\ known[n][p] \in Int /\ heard[n][p] \in Int
          /\ fresh[p] \in Int /\ fresh[p] <= known[n][p]
      BY <1>2, <2>4, <3>1, FreshestYounger DEF Ages, Listed
    <3> HIDE DEF fresh, words
    <3> QED
      BY <2>1, <2>4, <3>1, <3>2
  <2>5. CASE p \in Listed(word) /\ words[p] = word[p]
    <3>1. table[p] # Unknown /\ words[p] = table[p]
      BY <1>3, <2>5 DEF Listed
    <3>2. fresh[p] \in Int /\ fresh[p] <= table[p]
      BY <1>2, <3>1, FreshestYounger
    <3> HIDE DEF fresh, words
    <3> QED
      BY <2>1, <3>1, <3>2
  <2> QED
    BY <2>3, <2>4, <2>5
<1> HIDE DEF fresh, words
<1>7. Trusts(n, [fresh EXCEPT ![n] = 0], words)
  BY <1>5, <1>6 DEF Trusts
<1> QED
  BY <1>1, <1>4, <1>7 DEF HeardInv, MatchInv, TypeInv

(* A table that begins anew.                                               *)
LEMMA AnewHeard ==
  ASSUME MatchInv, HeardInv, NEW n \in Node, HearNobody(n),
         NEW table, known' = [known EXCEPT ![n] = table]
  PROVE  HeardInv'
<1>1. Nobody \in [Node -> Ages] /\ Trusts(n, table, Nobody)
  BY DEF Nobody, Ages, Trusts
<1> QED
  BY <1>1 DEF HearNobody, HeardInv, MatchInv, TypeInv

LEMMA NextHeard == MatchInv /\ HeardInv /\ [HearsayNext]_hearsayVars => HeardInv'
<1> SUFFICES ASSUME MatchInv, HeardInv, [HearsayNext]_hearsayVars
             PROVE  HeardInv'
  OBVIOUS
<1>1. CASE Tick /\ Elapse(1)
  BY <1>1, ClockHeard DEF Tick
<1>2. CASE SetClockBack /\ Elapse(- ClockStep)
  <2>1. - ClockStep \in Int
    BY ClockNumbers
  <2> QED
    BY <1>2, <2>1, ClockHeard DEF SetClockBack
<1>3. ASSUME NEW n \in Node, DiscoveryRound(n), heard' = [heard EXCEPT ![n] = Unheard(n)]
      PROVE  HeardInv'
  BY <1>3, RoundHeard
<1>4. ASSUME NEW n \in Node, AddNode(n), HearNobody(n)
      PROVE  HeardInv'
  <2>1. PICK p : Boot(n, <<p>>)
    BY <1>4 DEF AddNode
  <2> QED
    BY <1>4, <2>1, AnewHeard DEF Boot
<1>5. ASSUME NEW n \in Node, StartNode(n), HearNobody(n)
      PROVE  HeardInv'
  BY <1>5, AnewHeard DEF StartNode, Boot
<1>6. ASSUME NEW n \in Node, StopNode(n), HearNobody(n)
      PROVE  HeardInv'
  BY <1>6, AnewHeard DEF StopNode
<1>7. ASSUME NEW m \in Node, NEW n \in Node, HandleDiscoveryFrame(m, n),
             heard' = [heard EXCEPT ![n] = Freshest(@, OwnWord(m, n))]
      PROVE  HeardInv'
  BY <1>7, FrameHeard
<1>8. CASE UNCHANGED hearsayVars
  BY <1>8 DEF hearsayVars, vars, nodeVars, HeardInv
<1> QED
  BY <1>1, <1>2, <1>3, <1>4, <1>5, <1>6, <1>7, <1>8 DEF HearsayNext

(***************************************************************************)
(* A node evicts a peer it has heard itself only if the peer's own last    *)
(* word is older than the timeout, or its stamp is ahead of a clock that   *)
(* was set back (OwnWordCounts): in every network and for every timing.    *)
(* That such a word comes in time is not promised (LivePeersStay).         *)
(***************************************************************************)
THEOREM OwnWordAlwaysCounts == HearsaySpec => []OwnWordCounts
<1> DEFINE Inv == MatchInv /\ HeardInv
<1>1. HearsayInit => Inv
  <2>1. HearsayInit => HeardInv
    BY DEF HearsayInit, HeardInv, Trusts, Nobody, Ages
  <2> QED
    BY <2>1, InitMatches DEF HearsayInit
<1>2. Inv /\ [HearsayNext]_hearsayVars => Inv'
  <2>1. [HearsayNext]_hearsayVars => [Next]_vars
    BY HearsaySteps DEF hearsayVars
  <2> QED
    BY <2>1, NextMatches, NextHeard
<1>3. Inv => OwnWordCounts
  <2> SUFFICES ASSUME Inv, NEW n \in Node, NEW p \in Dead(n), heard[n][p] # Unknown
               PROVE  heard[n][p] > Timeout \/ known[n][p] < 0
    BY DEF OwnWordCounts
  <2>1. p \in Node \ {n} /\ known[n][p] # Unknown /\ ~ Recent(known[n][p])
    BY DEF Dead, Listed
  <2>2. /\ known[n][p] \in Int /\ heard[n][p] \in Int
        /\ known[n][p] <= heard[n][p]
    BY <2>1 DEF MatchInv, TypeInv, HeardInv, Trusts, Ages
  <2> QED
    BY <2>1, <2>2, RecentAge, DiscoveryAssumption
<1> QED
  BY <1>1, <1>2, <1>3, PTL DEF HearsaySpec

(* The record changes nothing: its behaviours are those of membership.     *)
THEOREM HearsayImplementsDiscovery == HearsaySpec => Spec
<1>1. [HearsayNext]_hearsayVars => [Next]_vars
  BY HearsaySteps DEF hearsayVars
<1> QED
  BY <1>1, PTL DEF HearsaySpec, HearsayInit, Spec

-----------------------------------------------------------------------------
(* Membership keeps the shards apart: what holds of the connections carries*)
(* over to the composition with what nodes store, and with it that a list  *)
(* never leaves its shard.                                                 *)

StoredType == stored \in [Node -> SUBSET Fact]

SyncInv == MatchInv /\ StoredType /\ StoresOwnShard

LEMMA InitSync == SyncInit => SyncInv
BY InitMatches DEF SyncInit, SyncInv, StoredType, StoresOwnShard

(* The steps of Discovery leave the stores alone.                          *)
LEMMA MemberSync ==
  ASSUME SyncInv, [Next]_vars, UNCHANGED stored
  PROVE  SyncInv'
BY NextMatches DEF SyncInv, StoredType, StoresOwnShard

LEMMA WriteSync ==
  ASSUME SyncInv, NEW n \in Node, NEW f \in Fact, WriteFact(n, f)
  PROVE  SyncInv'
<1>1. MatchInv'
  BY NextMatches DEF WriteFact, SyncInv
<1>2. StoredType' /\ StoresOwnShard'
  BY DEF WriteFact, SyncInv, StoredType, StoresOwnShard
<1> QED
  BY <1>1, <1>2 DEF SyncInv

(* Gossip follows connectedShard, which stays within the shard.            *)
LEMMA GossipSync ==
  ASSUME SyncInv, NEW n \in Node, NEW m \in Node, ShardGossip(n, m)
  PROVE  SyncInv'
<1>1. MatchInv'
  BY NextMatches DEF ShardGossip, SyncInv
<1>2. NodeShard[m] = NodeShard[n]
  BY DEF ShardGossip, SyncInv, MatchInv, ConnectionsMatch, SameShard
<1>3. StoredType' /\ StoresOwnShard'
  BY <1>2 DEF ShardGossip, SyncInv, StoredType, StoresOwnShard
<1> QED
  BY <1>1, <1>3 DEF SyncInv

(* Every step of the composition is one of membership or one that stores.  *)
LEMMA SyncSteps ==
  SyncNext => \/ Next /\ UNCHANGED stored
              \/ \E n \in Node : \E f \in Fact : WriteFact(n, f)
              \/ \E n, m \in Node : ShardGossip(n, m)
BY DEF SyncNext, Next

LEMMA NextSync == SyncInv /\ [SyncNext]_syncVars => SyncInv'
<1> SUFFICES ASSUME SyncInv, [SyncNext]_syncVars
             PROVE  SyncInv'
  OBVIOUS
<1>1. CASE Next /\ UNCHANGED stored
  BY <1>1, MemberSync
<1>2. CASE \E n \in Node : \E f \in Fact : WriteFact(n, f)
  BY <1>2, WriteSync
<1>3. CASE \E n, m \in Node : ShardGossip(n, m)
  BY <1>3, GossipSync
<1>4. CASE UNCHANGED syncVars
  BY <1>4, MemberSync DEF syncVars
<1> QED
  BY <1>1, <1>2, <1>3, <1>4, SyncSteps

(* No node ever stores a list of another shard, although it knows the nodes*)
(* of all shards and handle_gossip_frame does not compare shards           *)
(* (node.cpp:176-183, 299-304): for every number of nodes and shards and   *)
(* every timing.                                                           *)
THEOREM ShardsStayApart == SyncSpec => []StoresOwnShard
<1>1. SyncInv => StoresOwnShard
  BY DEF SyncInv
<1> QED
  BY <1>1, InitSync, NextSync, PTL DEF SyncSpec

(* The composition implements membership by itself: storing and gossiping  *)
(* lists does not disturb who knows whom.                                  *)
THEOREM SyncImplementsDiscovery == SyncSpec => Spec
<1>1. SyncInit => Init
  BY DEF SyncInit
<1>2. [SyncNext]_syncVars => [Next]_vars
  BY SyncSteps DEF syncVars, WriteFact, ShardGossip
<1> QED
  BY <1>1, <1>2, PTL DEF SyncSpec, Spec
=============================================================================
