--------------------------- MODULE MCAppPointerMap ---------------------------
(* Instances of AppPointerMap for TLC. *)
EXTENDS AppPointerMap, TLC

Symmetry == Permutations(Objects) \union Permutations(Pointers \ {Null})
=============================================================================
