-------------------------- MODULE MCTransitionTimes --------------------------
(* Instances of TransitionTimes for TLC. *)
EXTENDS TransitionTimes, TLC

Symmetry == Permutations(Threads)
=============================================================================
