---------------------------- MODULE MCListReplicas ----------------------------
(* Model values and symmetry for model checking ListReplicas.              *)
EXTENDS ListReplicas, TLC

(* Bodies that raise and lower both quantities.                            *)
AnyBody == [name : ItemName, desired : {1}, current : Quantity]
             \cup [name : ItemName, desired : {0}, current : {0}]

OriginSymmetry == Permutations(Origin)

=============================================================================
