------------------------- MODULE MCCallbackDispatch -------------------------
(* Instances of CallbackDispatch for TLC. *)
EXTENDS CallbackDispatch, TLC

Symmetry ==
  Permutations(Threads) \union Permutations(Sandboxes) \union Permutations(Functions)
=============================================================================
