----------------------------- MODULE MCInventory -----------------------------
(* Instances of Inventory for TLC.                                         *)
EXTENDS Inventory, TLC

Symmetry == Permutations(Keys) \union Permutations(Syncs)
               \union Permutations(Builders) \union Permutations(Actors)
=============================================================================
