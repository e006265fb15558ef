------------------------------ MODULE MCWebPage ------------------------------
(* Symmetry for model checking WebPage.                                    *)
EXTENDS WebPage, TLC

Symmetry == Permutations(List) \cup Permutations(Item) \cup Permutations(Call)

=============================================================================
