------------------------------ MODULE Discovery ------------------------------
(***************************************************************************)
(* Who is in the network: the membership part of node/node.cpp and the     *)
(* commands of cluster.cpp that add, stop and start nodes.                 *)
(*                                                                         *)
(* Nodes gossip the nodes they know with the time each was last seen, learn*)
(* from what they receive, and evict whom nobody has seen for a timeout.   *)
(* All nodes run on one machine (make_config: host 127.0.0.1) and read one *)
(* clock, so a timestamp is kept as its AGE.  The unit of time is a third  *)
(* of the discovery interval, the width of its jitter, or more: longer than*)
(* the 100 ms of a poll.  What happens in one unit may happen in any order.*)
(***************************************************************************)
EXTENDS Integers, SequencesExt

CONSTANTS
  MaxNode,        \* bound: nodes 0 .. MaxNode, numbered like N0, N1, ... in the code
  LastBootstrap,  \* nodes 0 .. LastBootstrap run from the start and list each other
  Shard,
  NodeShard,      \* NodeShard[n]: cfg.shardId of node n
  Interval,       \* cfg.discoveryIntervalMs
  Jitter,         \* what next_gossip_ts adds to the interval
  Timeout,        \* cfg.discoveryTimeoutMs
  Modulus,        \* timestamps are unsigned: 2^64, or any larger number than the ages here
  Unknown,        \* no entry in knownNodes
  MaxStops,       \* bound: stop commands
  MaxStarts,      \* bound: start commands
  MaxClockSteps,  \* bound: times the clock of the machine is set back
  MaxCommands,    \* bound: all of these together, a clock step counting twice
  ClockStep       \* by how much

Node == 0 .. MaxNode
Bootstrap == 0 .. LastBootstrap

ASSUME DiscoveryAssumption ==
  /\ MaxNode \in Nat /\ LastBootstrap \in Node
  /\ NodeShard \in [Node -> Shard]
  /\ Interval \in Nat \ {0} /\ Timeout \in Nat
  /\ Jitter \in SUBSET Int /\ Jitter # {} /\ \A j \in Jitter : Interval + j > 0
  /\ MaxStops \in Nat /\ MaxStarts \in Nat
  /\ MaxClockSteps \in Nat /\ ClockStep \in Nat \ {0} /\ MaxCommands \in Nat
  /\ Modulus \in Nat /\ Modulus > Timeout + 1 + 2 * MaxClockSteps * ClockStep
  /\ Unknown \notin Int

VARIABLES
  up,                  \* the nodes that run
  contacts,            \* contacts[n]: cfg.initialPeers of n, once n was added
  known,               \* known[n][p]: how long ago, as n knows, p was last seen
  connectedDiscovery,  \* connectedDiscovery[n]: peers n gossips to
  connectedShard,      \* connectedShard[n]: peers n replicates to
  dealing,             \* dealing[n]: the peers of the discovery PUSH socket of n
  timer,               \* timer[n]: time left to the next discovery round of n
  pipe,                \* pipe[n][p]: what n has sent and p has not received
  commands             \* stops, starts and clock steps so far

nodeVars == <<known, connectedDiscovery, connectedShard, dealing, timer>>
vars     == <<up, contacts, nodeVars, pipe, commands>>

-----------------------------------------------------------------------------
(* Timestamps as ages.                                                     *)

(* Ages that eviction cannot tell apart, not even after the clock was set  *)
(* back, are one age.                                                      *)
MaxAge == Timeout + 1 + MaxClockSteps * ClockStep

Age == (- MaxClockSteps * ClockStep) .. MaxAge

(* What a node knows, in its table or in a message.                        *)
Table == [Node -> Age \cup {Unknown}]

Nobody == [p \in Node |-> Unknown]

Listed(table) == {p \in Node : table[p] # Unknown}

(* The table when the clock has moved by d.                                *)
Moved(table, d) ==
  [p \in Node |-> IF table[p] = Unknown THEN Unknown
                  ELSE Min({table[p] + d, MaxAge})]

(* Receiving makes a peer just seen, whoever has seen it and when.         *)
MutFreshestStampsNow(old, new) ==
  [p \in Node |-> IF new[p] = Unknown THEN old[p] ELSE 0]

(* The later of two timestamps of every node that has one.                 *)
Freshest(old, new) ==
  [p \in Node |-> CASE old[p] = Unknown -> new[p]
                    [] new[p] = Unknown -> old[p]
                    [] OTHER            -> Min({old[p], new[p]})]

(* now - info.lastSeenTs <= cfg.discoveryTimeoutMs, in unsigned numbers.   *)
Recent(age) == age % Modulus <= Timeout

-----------------------------------------------------------------------------
(* The discovery PUSH socket: it deals messages to its peers in turn.      *)

NoPeers == [peers |-> <<>>, next |-> 1]

(* connect: a new peer comes after all the others of the round.            *)
Connect(d, order) == [peers |-> d.peers \o order, next |-> d.next]

(* disconnect: what was dealt out to the peer is still delivered.  ZeroMQ  *)
(* moves other peers into the gap: in what order those that stay are dealt *)
(* to from here on is left open.                                           *)
Disconnect(d, gone) ==
  LET stay == ToSet(d.peers) \ gone
  IN  IF stay = ToSet(d.peers)
      THEN {d}
      ELSE [peers : SetToSeqs(stay), next : 1 .. Max({1, Cardinality(stay)})]

(* Messages in one pipe are received together, which comes to the same as  *)
(* receiving the freshest of them.                                         *)
Enqueue(queued, table) == Freshest(queued, table)

NextPeer(d) == d.peers[d.next]

(* A turn that does not begin again after the last peer.                   *)
MutDealtRunsOn(d) == [d EXCEPT !.next = @ + 1]

Dealt(d) == [d EXCEPT !.next = IF @ < Len(d.peers) THEN @ + 1 ELSE 1]

-----------------------------------------------------------------------------
(* update_known_nodes and its callers.                                     *)

(* The peers of its own shard, which n also connects for lists.            *)
SameShard(n) == {p \in Node \ {n} : NodeShard[p] = NodeShard[n]}

(* The nodes of table that n does not know.                                *)
News(n, table) == Listed(table) \ (Listed(known[n]) \cup {n})

(* Peers whose shard is not compared with the node's own.                  *)
MutUpdateKnownNodesAnyShard(n, table) ==
  LET news == News(n, table)
  IN  /\ known' = [known EXCEPT ![n] = [Freshest(@, table) EXCEPT ![n] = 0]]
      /\ connectedDiscovery' = [connectedDiscovery EXCEPT ![n] = @ \cup news]
      /\ connectedShard' = [connectedShard EXCEPT ![n] = @ \cup news]
      /\ \E order \in SetToSeqs(news \ connectedDiscovery[n]) :
           dealing' = [dealing EXCEPT ![n] = Connect(@, order)]

UpdateKnownNodes(n, table) ==
  LET news == News(n, table)
  IN  /\ known' = [known EXCEPT ![n] = [Freshest(@, table) EXCEPT ![n] = 0]]
      /\ connectedDiscovery' = [connectedDiscovery EXCEPT ![n] = @ \cup news]
      /\ connectedShard' =
           [connectedShard EXCEPT ![n] = @ \cup (news \cap SameShard(n))]
      /\ \E order \in SetToSeqs(news \ connectedDiscovery[n]) :
           dealing' = [dealing EXCEPT ![n] = Connect(@, order)]

HandleDiscoveryFrame(m, n) ==
  /\ up[n]
  /\ Listed(pipe[m][n]) # {}
  /\ UpdateKnownNodes(n, pipe[m][n])
  /\ pipe' = [pipe EXCEPT ![m][n] = Nobody]
  /\ UNCHANGED <<up, contacts, timer, commands>>

(* The peers that evict_dead_nodes removes.                                *)
Dead(n) == {p \in Listed(known[n]) \ {n} : ~ Recent(known[n][p])}

(* The table of n without them.                                            *)
Survivors(n) ==
  [p \in Node |-> IF p \in Dead(n) THEN Unknown ELSE known[n][p]]

(* Eviction that forgets to erase the peer from connectedDiscovery.        *)
MutEvictDeadNodesKeepsConnected(n) ==
  /\ known' = [known EXCEPT ![n] = Survivors(n)]
  /\ connectedShard' = [connectedShard EXCEPT ![n] = @ \ Dead(n)]
  /\ UNCHANGED connectedDiscovery

EvictDeadNodes(n) ==
  /\ known' = [known EXCEPT ![n] = Survivors(n)]
  /\ connectedDiscovery' = [connectedDiscovery EXCEPT ![n] = @ \ Dead(n)]
  /\ connectedShard' = [connectedShard EXCEPT ![n] = @ \ Dead(n)]

(* The table goes to the next peer in turn, if there is any.               *)
PerformDiscoveryGossip(n, table, d) ==
  IF d.peers = <<>>
  THEN /\ dealing' = [dealing EXCEPT ![n] = d]
       /\ UNCHANGED pipe
  ELSE /\ dealing' = [dealing EXCEPT ![n] = Dealt(d)]
       /\ pipe' = [pipe EXCEPT ![n][NextPeer(d)] = Enqueue(@, table)]

SetTimer(n) ==
  \E j \in Jitter : timer' = [timer EXCEPT ![n] = Interval + j]

(* The discovery round of run_loop: first evict, then tell the others.     *)
DiscoveryRound(n) ==
  /\ up[n]
  /\ timer[n] = 0
  /\ EvictDeadNodes(n)
  /\ \E d \in Disconnect(dealing[n], Dead(n)) :
       PerformDiscoveryGossip(n, Survivors(n), d)
  /\ SetTimer(n)
  /\ UNCHANGED <<up, contacts, commands>>

-----------------------------------------------------------------------------
(* The life of a node, as the command loop of cluster.cpp drives it.       *)

(* What a node knows when it enters its loop: itself and its contacts, all *)
(* of them stamped as seen just now.                                       *)
BootTable(n, peers) ==
  [p \in Node |-> IF p \in {n} \cup ToSet(peers) THEN 0 ELSE Unknown]

Boot(n, peers) ==
  /\ up' = [up EXCEPT ![n] = TRUE]
  /\ known' = [known EXCEPT ![n] = BootTable(n, peers)]
  /\ connectedDiscovery' = [connectedDiscovery EXCEPT ![n] = ToSet(peers)]
  /\ connectedShard' =
       [connectedShard EXCEPT ![n] = ToSet(peers) \cap SameShard(n)]
  /\ dealing' = [dealing EXCEPT ![n] = Connect(NoPeers, peers)]
  /\ SetTimer(n)
  /\ UNCHANGED pipe

(* One more of a kind of command, within the bounds.                       *)
Commanded(kind, most) ==
  /\ commands[kind] < most
  /\ commands' = [commands EXCEPT ![kind] = @ + 1]
  /\ commands'.stops + commands'.starts + 2 * commands'.clockSteps <= MaxCommands

Added == {n \in Node : n \in Bootstrap \/ contacts[n] # <<>>}

(* ~Node waits in ctx.close() for its last messages to be taken, as ZeroMQ *)
(* lingers for ever unless told otherwise; the command loop waits with it. *)
Closing(n) == ~ up[n] /\ \E m \in Node : Listed(pipe[n][m]) # {}

Prompt == \A n \in Node : ~ Closing(n)

(* add: the next node, with the first live node of its shard as contact.   *)
AddNode(n) ==
  /\ Prompt
  /\ n \notin Added /\ n = Cardinality(Added)
  /\ \E p \in Added :
       /\ up[p] /\ NodeShard[p] = NodeShard[n]
       /\ \A q \in Added : up[q] /\ NodeShard[q] = NodeShard[n] => p <= q
       /\ contacts' = [contacts EXCEPT ![n] = <<p>>]
       /\ Boot(n, <<p>>)
  /\ UNCHANGED commands

(* stop: the node forgets all; what it has not read yet is lost, or waits  *)
(* in the pipes of its peers for the node to come back.                    *)
StopNode(n) ==
  /\ Prompt
  /\ up[n]
  /\ Commanded("stops", MaxStops)
  /\ up' = [up EXCEPT ![n] = FALSE]
  /\ known' = [known EXCEPT ![n] = Nobody]
  /\ connectedDiscovery' = [connectedDiscovery EXCEPT ![n] = {}]
  /\ connectedShard' = [connectedShard EXCEPT ![n] = {}]
  /\ dealing' = [dealing EXCEPT ![n] = NoPeers]
  /\ timer' = [timer EXCEPT ![n] = 0]
  /\ \E lost \in SUBSET Node :
       pipe' = [m \in Node |-> IF m \in lost THEN [pipe[m] EXCEPT ![n] = Nobody]
                                             ELSE pipe[m]]
  /\ UNCHANGED contacts

(* start: a new Node object with the configuration it was added with.      *)
StartNode(n) ==
  /\ Prompt
  /\ n \in Added /\ ~ up[n]
  /\ Commanded("starts", MaxStarts)
  /\ Boot(n, contacts[n])
  /\ UNCHANGED contacts

-----------------------------------------------------------------------------
(* The clock of the machine.                                               *)

MoveClock(d) ==
  /\ known' = [n \in Node |->
                 IF up[n] THEN [Moved(known[n], d) EXCEPT ![n] = 0] ELSE Nobody]
  /\ pipe' = [n \in Node |-> [m \in Node |-> Moved(pipe[n][m], d)]]

(***************************************************************************)
(* Time passes: a unit ends, in which every round that was due has run and *)
(* every message to a node that runs was received.  A round is late by some*)
(* part of its unit, as the loop meets it after its poll and its handlers: *)
(* peers may have run theirs in the meantime, and their messages have come.*)
(***************************************************************************)
Tick ==
  /\ \A n \in Node : up[n] =>
       /\ timer[n] > 0
       /\ \A m \in Node : Listed(pipe[m][n]) = {}
  /\ MoveClock(1)
  /\ timer' = [n \in Node |-> IF up[n] THEN timer[n] - 1 ELSE 0]
  /\ UNCHANGED <<up, contacts, connectedDiscovery, connectedShard, dealing, commands>>

(***************************************************************************)
(* The system clock, which now_ms reads, is set back: every timestamp then *)
(* is that much younger, and so is what is left to wait that much longer.  *)
(* A node that is late for its round waits for the rest only, and is due   *)
(* while what its peers sent since its round was due is still ahead.       *)
(***************************************************************************)
SetClockBack ==
  /\ Commanded("clockSteps", MaxClockSteps)
  /\ MoveClock(- ClockStep)
  /\ \E late \in SUBSET {n \in Node : up[n] /\ timer[n] = 0} :
       timer' = [n \in Node |-> CASE ~ up[n]    -> 0
                                  [] n \in late -> ClockStep - 1
                                  [] OTHER      -> timer[n] + ClockStep]
  /\ UNCHANGED <<up, contacts, connectedDiscovery, connectedShard, dealing>>

-----------------------------------------------------------------------------

TypeOK ==
  /\ up \in [Node -> BOOLEAN]
  /\ contacts \in [Node -> Seq(Node)]
  /\ known \in [Node -> Table]
  /\ connectedDiscovery \in [Node -> SUBSET Node]
  /\ connectedShard \in [Node -> SUBSET Node]
  /\ dealing \in [Node -> [peers : Seq(Node), next : Nat \ {0}]]
  /\ \A n \in Node : dealing[n].next \in 1 .. Max({1, Len(dealing[n].peers)})
  /\ timer \in [Node -> Nat]
  /\ pipe \in [Node -> [Node -> Table]]
  /\ commands \in [stops : 0 .. MaxStops, starts : 0 .. MaxStarts,
                   clockSteps : 0 .. MaxClockSteps]

(* cfg.initialPeers of a bootstrap node: all the others, in their order.   *)
InitialPeers(n) ==
  IF n \in Bootstrap
  THEN [i \in 1 .. LastBootstrap |-> IF i <= n THEN i - 1 ELSE i]
  ELSE <<>>

Init ==
  /\ up = [n \in Node |-> n \in Bootstrap]
  /\ contacts = [n \in Node |-> InitialPeers(n)]
  /\ known = [n \in Node |-> IF n \in Bootstrap THEN BootTable(n, InitialPeers(n))
                                                ELSE Nobody]
  /\ connectedDiscovery = [n \in Node |-> ToSet(InitialPeers(n))]
  /\ connectedShard = [n \in Node |-> ToSet(InitialPeers(n)) \cap SameShard(n)]
  /\ dealing = [n \in Node |-> Connect(NoPeers, InitialPeers(n))]
  /\ timer \in [Node -> {0} \cup {Interval + j : j \in Jitter}]
  /\ \A n \in Node : timer[n] = 0 <=> n \notin Bootstrap
  /\ pipe = [n \in Node |-> [m \in Node |-> Nobody]]
  /\ commands = [stops |-> 0, starts |-> 0, clockSteps |-> 0]

Next ==
  \/ Tick \/ SetClockBack
  \/ \E n \in Node :
       \/ DiscoveryRound(n)
       \/ AddNode(n) \/ StopNode(n) \/ StartNode(n)
       \/ \E m \in Node : HandleDiscoveryFrame(m, n)

Spec == Init /\ [][Next]_vars

=============================================================================
