---------------------------- MODULE IntConversion ----------------------------
(***************************************************************************)
(* Conversion between integer types of the application and of the          *)
(* sandbox: convert_type_fundamental of rlbox_conversion.hpp.              *)
(*                                                                         *)
(* A type is a record of its signedness and of its number of values, which *)
(* stands for sizeof: types of more values are those of more bytes.        *)
(***************************************************************************)
EXTENDS Integers

IntTypes == [signed : BOOLEAN, values : {2 * n : n \in Nat \ {0}}]

(* Both are powers of two: a type of more bits has at least twice the values. *)
WholeBits(a, b) == a.values < b.values => 2 * a.values <= b.values

MinOf(type) == IF type.signed THEN -(type.values \div 2) ELSE 0
MaxOf(type) == (IF type.signed THEN type.values \div 2 ELSE type.values) - 1
ValuesOf(type) == MinOf(type)..MaxOf(type)

(* static_cast: the value of the type with the same low bits. *)
Cast(type, n) ==
  LET low == n % type.values
  IN  IF low > MaxOf(type) THEN low - type.values ELSE low

(* What a value looks like in memory. *)
Bits(type, n) == n % type.values

-----------------------------------------------------------------------------
(* The constexpr branches, in the order of the code: what each one checks of *)
(* the value before it is cast.                                              *)

Widens(to, from) == to.signed = from.signed /\ to.values >= from.values

(* Mutant: signed values are only compared with the upper limit. *)
NarrowsSignedAbove(to, n) == n <= MaxOf(to)

NarrowsSigned(to, n) == n >= MinOf(to) /\ n <= MaxOf(to)

LosesSign(to, from, n) == n >= 0 /\ (to.values < from.values => n <= Cast(from, MaxOf(to)))

GainsSign(to, from, n) == to.values <= from.values => n <= Cast(from, MaxOf(to))

Accepted(to, from, n) ==
  \/ Widens(to, from)
  \/ ~to.signed /\ ~from.signed /\ n <= MaxOf(to)
  \/ to.signed /\ from.signed /\ NarrowsSigned(to, n)
  \/ ~to.signed /\ from.signed /\ LosesSign(to, from, n)
  \/ to.signed /\ ~from.signed /\ GainsSign(to, from, n)
=============================================================================
