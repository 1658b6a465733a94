---------------------------- MODULE MCStructAccess ----------------------------
(* An instance of StructAccess for TLC. *)
EXTENDS StructAccess

(* Numbers that fit a cell of four values as signed, as unsigned, and not.   *)
MCStoreValues == {-8, -3, -2, -1, 0, 1, 2, 4, 7, 15}

(* A pointer and a long: the pointer is stored first. *)
MCFields == <<Link, 4>>

MCOperands == {-1, 1}
=============================================================================
