----------------------------- MODULE MCShardSync -----------------------------
(* Values for TLC.                                                         *)
EXTENDS ShardSync

Punctual == {0}

Alternating == [n \in Node |-> n % 2]

FactOfNode == [f \in Fact |-> f % 2]

=============================================================================
