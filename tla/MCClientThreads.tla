--------------------------- MODULE MCClientThreads ---------------------------
(* Three nodes, the third in the second shard with the second.             *)
EXTENDS ClientThreads, Integers

TwoShards == {0, 1}
ByNumber == [n \in Node |-> IF n = 0 THEN 0 ELSE 1]
BuiltIn == [s \in Shard |-> {s}]
=============================================================================
