------------------------------ MODULE ShardSync ------------------------------
(***************************************************************************)
(* Membership and replication together: what nodes store travels along     *)
(* connectedShard, which module Discovery builds up and takes down.  What a*)
(* node stores is a set of facts (a list, an item, an edit) that only grows*)
(* by merging; how they merge, and what deletion does, is in Replication.  *)
(***************************************************************************)
EXTENDS DiscoveryProperties

CONSTANTS
  Fact,
  FactShard   \* FactShard[f]: the shard of the list that fact f is about

ASSUME ShardSyncAssumption == FactShard \in [Fact -> Shard]

VARIABLE stored   \* stored[n]: the facts in the database file of node n

syncVars == <<vars, stored>>

SyncInit ==
  /\ Init
  /\ stored = [n \in Node |-> {}]

(* A request of a client, at a node of the shard of its list.              *)
WriteFact(n, f) ==
  /\ up[n]
  /\ NodeShard[n] = FactShard[f]
  /\ stored' = [stored EXCEPT ![n] = @ \cup {f}]
  /\ UNCHANGED vars

(* Gossip that goes to those only that the node had for contacts.          *)
MutShardGossipToContacts(n, m) ==
  /\ up[n] /\ up[m]
  /\ m \in connectedShard[n] \cap ToSet(contacts[n])
  /\ stored' = [stored EXCEPT ![m] = @ \cup stored[n]]
  /\ UNCHANGED vars

(* perform_shard_gossip: all that n stores reaches one of the peers it is  *)
(* connected to, to be merged there.  What is sent to a node that does not *)
(* run, or waits in its socket, adds nothing that is not sent again.       *)
ShardGossip(n, m) ==
  /\ up[n] /\ up[m]
  /\ m \in connectedShard[n]
  /\ stored' = [stored EXCEPT ![m] = @ \cup stored[n]]
  /\ UNCHANGED vars

(* The steps of Next, each one an action of its own, and those that store. *)
(* Nodes stop, start and join with what their database file has.           *)
SyncNext ==
  \/ Tick /\ UNCHANGED stored
  \/ SetClockBack /\ UNCHANGED stored
  \/ \E n \in Node :
       \/ DiscoveryRound(n) /\ UNCHANGED stored
       \/ AddNode(n) /\ UNCHANGED stored
       \/ StopNode(n) /\ UNCHANGED stored
       \/ StartNode(n) /\ UNCHANGED stored
       \/ \E f \in Fact : WriteFact(n, f)
       \/ \E m \in Node :
            \/ HandleDiscoveryFrame(m, n) /\ UNCHANGED stored
            \/ ShardGossip(n, m)

SyncSpec == SyncInit /\ [][SyncNext]_syncVars

(* A gossip round goes to the next peer of the PUSH socket, so that every  *)
(* peer that stays connected has its turn.                                 *)
SyncFairness ==
  Fairness /\ \A n \in Node : \A m \in SameShard(n) : WF_syncVars(ShardGossip(n, m))

FairSyncSpec == SyncSpec /\ SyncFairness

-----------------------------------------------------------------------------
(* No node stores what belongs to another shard, whoever has told it of    *)
(* whom (node.cpp:150-157, 299-304).                                       *)
StoresOwnShard ==
  \A n \in Node : \A f \in stored[n] : FactShard[f] = NodeShard[n]

(***************************************************************************)
(* Once the last command is given, the nodes of a shard that run end up    *)
(* with all that any of them stores, also a node that was added after it   *)
(* was written and one that was away (node.cpp:228-244, 278-312,           *)
(* cluster.cpp:131-221; README.md:7).                                      *)
(***************************************************************************)
StoresMeet ==
  []Introduced =>
    <>[](\A n, m \in Node :
           up[n] /\ up[m] /\ NodeShard[n] = NodeShard[m] => stored[n] = stored[m])

=============================================================================
