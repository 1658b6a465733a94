-------------------------- MODULE MCSandboxSymbols --------------------------
(* Instances of SandboxSymbols for TLC. *)
EXTENDS SandboxSymbols, TLC

CONSTANTS n1, i1, i2

(* The second library lacks the name. *)
MCExports == (i1 :> {n1}) @@ (i2 :> {})
=============================================================================
