---------------------------- MODULE MCReplication ----------------------------
(* Values and symmetry for model checking Replication.                     *)
EXTENDS ReplicationProperties, TLC

(* A body that raises one quantity and leaves the other at 0.              *)
OneBody == [name : ItemName, desired : {1}, current : {0}]

(* Bodies that raise and lower a quantity.                                 *)
UpOrDown == [name : ItemName, desired : {0, 1}, current : {0}]

(* What the users of a run do.                                             *)
Edits     == {"create", "add", "update", "remove", "delete"}
Updates   == {"create", "get", "add", "update"}
Additions == {"create", "get", "add"}
NoEdits   == {"create", "get", "delete"}
Creations == {"create"}

(* One shard, which all nodes serve.                                       *)
OneShard     == [n \in Node |-> CHOOSE s \in Shard : TRUE]
OneListShard == [l \in ListUid |-> CHOOSE s \in Shard : TRUE]
AllNodes     == [s \in Shard |-> Node]

(* Shard 1 has all nodes and lists but the last; a client takes the last   *)
(* node to serve shard 1 too, and all nodes shard 2.                       *)
LastNode == {CHOOSE n \in Node : TRUE}
LastList == {CHOOSE l \in ListUid : TRUE}
TwoShards     == [n \in Node |-> IF n \in LastNode THEN 2 ELSE 1]
TwoListShards == [l \in ListUid |-> IF l \in LastList THEN 2 ELSE 1]
WrongTable    == [s \in Shard |-> Node]

ShardSymmetry ==
  Permutations(Node \ LastNode) \cup Permutations(ListUid \ LastList)

Symmetry == Permutations(Node) \cup Permutations(Client)

=============================================================================
