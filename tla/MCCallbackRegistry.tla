------------------------- MODULE MCCallbackRegistry -------------------------
(* Instances of CallbackRegistry for TLC. *)
EXTENDS CallbackRegistry, TLC

Symmetry ==
  Permutations(Threads) \union Permutations(Functions) \union Permutations(Handles)
=============================================================================
