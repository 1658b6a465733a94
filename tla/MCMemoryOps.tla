------------------------------ MODULE MCMemoryOps ------------------------------
(* Instances of MemoryOps for TLC. *)
EXTENDS MemoryOps
=============================================================================
