----------------------------- MODULE AddressSpace -----------------------------
(***************************************************************************)
(* Addresses, and the range check of rlbox_range.hpp that every operation  *)
(* on sandbox memory relies on.                                            *)
(*                                                                         *)
(* uintptr_t and size_t are the integers modulo Modulus. Sandbox memory is *)
(* a region that is as large as its alignment: this is how plugins that    *)
(* confine the library, and the plugin of the tests, decide whether two    *)
(* pointers belong together (by the upper bits).                           *)
(***************************************************************************)
EXTENDS Integers

CONSTANTS
  Modulus,     \* number of values of uintptr_t and of size_t
  RegionSize,  \* size and alignment of a sandbox's memory
  Home         \* number of the region that the sandbox owns; 0 holds nullptr

ASSUME RegionAssumption ==
  /\ RegionSize \in Nat \ {0} /\ Modulus \in Nat
  /\ Home \in Nat \ {0} /\ RegionSize * Home + RegionSize <= Modulus

Addresses == 0..(Modulus - 1)
Sizes == 0..(Modulus - 1)
Null == 0

(* Mutant: sums and products keep more bits than an address has. *)
WrapWide(n) == n

(* What a computed address or size holds. *)
Wrap(n) == n % Modulus

-----------------------------------------------------------------------------
Region(a) == a \div RegionSize

HomeMemory == (RegionSize * Home)..(RegionSize * Home + RegionSize - 1)

InSameSandbox(p, q) == Region(p) = Region(q)

InSandboxMemory(p) == Region(p) = Home

(* The bytes that somebody who was told "size bytes at p" will use. *)
Bytes(p, size) == {Wrap(p + i) : i \in 0..(size - 1)}

-----------------------------------------------------------------------------
(* check_sandbox_pointer_range_is_contained *)

(* Mutant: the end of the range is one byte too high. *)
RangeEndPast(p, size) == Wrap(p + size)

RangeEnd(p, size) == Wrap(p + size - 1)

RangeChecked(p, size) == p # Null /\ InSameSandbox(p, RangeEnd(p, size))

(* A null pointer fails a dynamic_check, a range that ends elsewhere aborts. *)
RangeAborts(p, size) == p # Null /\ ~InSameSandbox(p, RangeEnd(p, size))
=============================================================================
