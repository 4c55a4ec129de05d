---------------------------- MODULE MCLuxEffects ----------------------------
(* Small instances of LuxEffects for TLC: every element names the same     *)
(* store.                                                                  *)
EXTENDS LuxEffects, TLC

CONSTANTS store

StoreOfAll == [b \in Bindings |-> store]

Symmetry == Permutations(Effects) \cup Permutations(Values)
=============================================================================
