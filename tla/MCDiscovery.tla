----------------------------- MODULE MCDiscovery -----------------------------
(* Values for TLC.                                                         *)
EXTENDS DiscoveryProperties

Punctual == {0}

(* Jitter is drawn from minus to plus a third of the interval.             *)
Longest == {1}

Alternating == [n \in Node |-> n % 2]

(* The first nodes serve one shard and the others another, as many of them.*)
Halves == [n \in Node |-> (2 * n) \div (MaxNode + 1)]

=============================================================================
