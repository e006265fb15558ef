------------------------ MODULE DiscoveryProperties ------------------------
(***************************************************************************)
(* What Discovery should guarantee, after README.md:11: nodes 'maintain a  *)
(* list of other nodes in the network and dynamically manage it in case    *)
(* some node is disconnected or added to the network'.                     *)
(***************************************************************************)
EXTENDS Discovery

-----------------------------------------------------------------------------
(* Safety.                                                                 *)

(***************************************************************************)
(* The two sets of connected peers follow the table through every order of *)
(* learning, eviction and learning again: a peer in the table that is not  *)
(* in them would never be contacted again, and one that is in them only    *)
(* would never be connected again (node.cpp:293, 337).                     *)
(***************************************************************************)
ConnectionsMatch ==
  \A n \in Node :
    LET peers == Listed(known[n]) \ {n}
    IN  /\ connectedDiscovery[n] = peers
        /\ connectedShard[n] = peers \cap SameShard(n)

(* Each peer in the table has its place, and one only, in the turn in which*)
(* the socket deals out the table (node.cpp:296, 340).                     *)
SocketMatches ==
  \A n \in Node :
    LET peers == Listed(known[n]) \ {n}
    IN  /\ ToSet(dealing[n].peers) = peers
        /\ Len(dealing[n].peers) = Cardinality(peers)

(* A node that ran and runs on is not taken for dead (evict_dead_nodes).   *)
LivePeersKept ==
  \A n, p \in Node :
    up[n] /\ up'[n] /\ up[p] /\ known[n][p] # Unknown => known'[n][p] # Unknown

(***************************************************************************)
(* A node that runs stays in the tables of those that know it: README.md:11*)
(* has the list managed 'in case some node is disconnected or added', and  *)
(* it is neither.  evict_dead_nodes (node.cpp:332) keeps to that only if   *)
(* the timeout is as long as a node takes to tell each peer once, one in a *)
(* round; the one that node/cluster.cpp sets (48-49) is not.               *)
(***************************************************************************)
LivePeersStay == [][LivePeersKept]_vars

-----------------------------------------------------------------------------
(* Liveness.  The loops of all nodes run and time passes: as no time passes*)
(* while a round or a message is due, it is enough that something goes on. *)
(* No command is ever due, and commands end, for MaxCommands bounds them.  *)

GoesOn ==
  \/ Tick
  \/ \E n \in Node :
       DiscoveryRound(n) \/ \E m \in Node : HandleDiscoveryFrame(m, n)

Fairness == WF_vars(GoesOn)

FairSpec == Spec /\ Fairness

(***************************************************************************)
(* Once the last command is given, all forget the nodes that are down,     *)
(* though others go on telling when they last saw them, and a node that    *)
(* starts vouches for all its contacts (node.cpp:90).                      *)
(***************************************************************************)
DeadPeersGo ==
  <>[](\A n, p \in Node : up[n] /\ ~ up[p] => known[n][p] = Unknown)

(* A node that was added has a single contact, which must not stop before  *)
(* it has passed the node on (cluster.cpp:177); here, not at all.          *)
Introduced ==
  \A n \in Node \ Bootstrap : \A r \in ToSet(contacts[n]) : up[r]

(***************************************************************************)
(* Once the last command is given, the nodes that run end up knowing each  *)
(* other, whatever stops and starts there were: of bootstrap nodes, and of *)
(* added nodes but for their contacts (node.cpp:278-312, 337-349).         *)
(***************************************************************************)
LiveNodesMeet ==
  []Introduced =>
    <>[](\A n, p \in Node : up[n] /\ up[p] => known[n][p] # Unknown)

(* The command loop never waits for ever for a node that it stops.         *)
StopsEnd == []<>Prompt

=============================================================================
