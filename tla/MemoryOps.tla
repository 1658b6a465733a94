------------------------------ MODULE MemoryOps ------------------------------
(***************************************************************************)
(* What an application thread does with one sandbox's memory: allocation,  *)
(* pointer arithmetic, memset and its relatives, addresses taken out for   *)
(* direct use, and the transfer of buffers into and out of the sandbox     *)
(* (rlbox_stdlib.hpp, rlbox_sandbox.hpp, rlbox.hpp).                       *)
(*                                                                         *)
(* One operation is one action: the thread owns the tainted pointer it     *)
(* works on. What comes from the library or from the plugin (an allocated  *)
(* address, a pointer read from sandbox memory) is arbitrary as far as the *)
(* code does not check it.                                                 *)
(***************************************************************************)
EXTENDS AddressSpace, FiniteSets, Sequences

CONSTANTS
  TotalMemory,  \* what the plugin reports as the size of the memory
  ElementSizes, \* values of sizeof(T)
  Buffers,      \* buffers that are transferred,
  BufferSize    \* and their size

ASSUME SizesAssumption ==
  /\ TotalMemory \in 1..RegionSize
  /\ ElementSizes \subseteq Nat \ {0}
  /\ BufferSize \in Nat \ {0} /\ BufferSize < Modulus

VARIABLES
  created,  \* sandbox_created is CREATED
  cursor,   \* a tainted pointer of the application
  asked,    \* bytes the last operation was asked to use or to hand out
  outcome,  \* how it ended
  canGrant, \* the plugin has can_grant_deny_access
  copied,   \* the out parameter of the transfers, one variable for all calls
  place,    \* where a buffer's copy in sandbox memory is; Null: granted in place
  homes,    \* the sides that hold a usable copy of each buffer
  told      \* the same, as the return values told the caller

memory == <<created, cursor, canGrant>>
transfers == <<copied, place, homes, told>>
vars == <<memory, transfers, asked, outcome>>

-----------------------------------------------------------------------------
Outcomes == {"idle", "done", "null", "refused", "aborted"}
Sides == {"app", "sandbox"}

Ends(result, bytes) == outcome' = result /\ asked' = bytes

Init ==
  /\ created = TRUE
  /\ cursor = Null
  /\ asked = {}
  /\ outcome = "idle"
  /\ canGrant \in BOOLEAN
  /\ copied \in BOOLEAN
  /\ place = [b \in Buffers |-> Null]
  /\ homes = [b \in Buffers |-> {"app"}]
  /\ told = [b \in Buffers |-> {"app"}]

-----------------------------------------------------------------------------
(* malloc_in_sandbox<T>(count), where the plugin's allocator returns p *)

MultiplyOverflows(count, elem) == Wrap(count * elem) \div count # elem

AddOverflows(p, size) == Wrap(p + (size - 1)) < p

(* Mutant: only the first byte of the allocation is checked. *)
AllocationStartChecked(p, size) == InSandboxMemory(p)

AllocationChecked(p, size) ==
  /\ InSandboxMemory(p)
  /\ ~AddOverflows(p, size)
  /\ InSandboxMemory(Wrap(p + (size - 1)))

Allocatable(count, elem) == count # 0 /\ ~MultiplyOverflows(count, elem)

MallocYields(count, elem, p) ==
  /\ created /\ Allocatable(count, elem)
  /\ p # Null /\ AllocationChecked(p, Wrap(count * elem))

MallocYieldsNull(count, elem, p) == ~created \/ (Allocatable(count, elem) /\ p = Null)

MallocRefused(count, elem, p) ==
  /\ created
  /\ Allocatable(count, elem) => p # Null /\ ~AllocationChecked(p, Wrap(count * elem))

Malloc(count, elem, p) ==
  /\ \/ MallocYields(count, elem, p) /\ cursor' = p /\ Ends("done", Bytes(p, count * elem))
     \/ MallocYieldsNull(count, elem, p) /\ cursor' = Null /\ Ends("null", {})
     \/ MallocRefused(count, elem, p) /\ Ends("refused", Bytes(p, count * elem)) /\ UNCHANGED cursor
  /\ UNCHANGED <<created, canGrant, transfers>>

(* After destroy_sandbox, tainted pointers are not to be used. *)
Destroy ==
  /\ created
  /\ created' = FALSE /\ cursor' = Null /\ Ends("done", {})
  /\ place' = [b \in Buffers |-> Null]
  /\ homes' = [b \in Buffers |-> homes[b] \ {"sandbox"}]
  /\ told' = [b \in Buffers |-> told[b] \ {"sandbox"}]
  /\ UNCHANGED <<canGrant, copied>>

-----------------------------------------------------------------------------
(* Tainted pointers *)

(* A pointer read from sandbox memory or returned by the library: the plugin *)
(* turns an offset into an address of its region, 0 into nullptr.            *)
Receive(p) ==
  /\ created
  /\ p \in HomeMemory \union {Null}
  /\ cursor' = p /\ Ends("done", {})
  /\ UNCHANGED <<created, canGrant, transfers>>

(* assign_raw_pointer *)
AssignRaw(p) ==
  /\ created
  /\ \/ InSandboxMemory(p) /\ cursor' = p /\ Ends("done", {p})
     \/ ~InSandboxMemory(p) /\ Ends("refused", {p}) /\ UNCHANGED cursor
  /\ UNCHANGED <<created, canGrant, transfers>>

(* Mutant: arithmetic does not compare the regions. *)
MoveCursorUnchecked(target) == cursor' = target /\ Ends("done", {cursor, target})

MoveCursor(target) ==
  \/ InSameSandbox(cursor, target) /\ cursor' = target /\ Ends("done", {cursor, target})
  \/ ~InSameSandbox(cursor, target) /\ Ends("refused", {cursor, target}) /\ UNCHANGED cursor

(* operators + and -, ++ and --: a negative operand is a large size_t. *)
Offset(n, elem) ==
  /\ created
  /\ \/ \E target \in {Wrap(cursor + n * elem), Wrap(cursor - n * elem)} :
          cursor # Null /\ MoveCursor(target)
     \/ cursor = Null /\ Ends("refused", {cursor}) /\ UNCHANGED cursor
  /\ UNCHANGED <<created, canGrant, transfers>>

(* &p[n]: operator[] has no check for null; callers index proper pointers. *)
Index(n, elem) ==
  /\ created /\ cursor # Null
  /\ MoveCursor(Wrap(cursor + n * elem))
  /\ UNCHANGED <<created, canGrant, transfers>>

-----------------------------------------------------------------------------
(* memset, memcpy, strncpy, memcmp *)

(* Mutant: the size is not compared with the memory's. *)
AnySizeAccepted(num) == TRUE

SizeAccepted(num) == num <= TotalMemory

(* The ranges are checked in turn, the destination's first. *)
UseRanges(num, pointers) ==
  LET bytes == UNION {Bytes(pointers[i], num) : i \in DOMAIN pointers}
      Passed(n) == \A i \in 1..n : RangeChecked(pointers[i], num)
      FailsAt(i) == SizeAccepted(num) /\ Passed(i - 1)
  IN  /\ created
      /\ \/ SizeAccepted(num) /\ Passed(Len(pointers)) /\ Ends("done", bytes)
         \/ ~SizeAccepted(num) /\ Ends("refused", bytes)
         \/ \E i \in DOMAIN pointers :
              \/ FailsAt(i) /\ pointers[i] = Null /\ Ends("refused", bytes)
              \/ FailsAt(i) /\ RangeAborts(pointers[i], num) /\ Ends("aborted", bytes)
      /\ UNCHANGED <<memory, transfers>>

(* memset, and the others when the source is the application's. *)
Memset(num) == UseRanges(num, <<cursor>>)

(* memcpy, strncpy and memcmp of two ranges in sandbox memory. *)
Memcpy(num, src) == UseRanges(num, <<cursor, src>>)

-----------------------------------------------------------------------------
(* Addresses taken out for direct use. Neither the product nor its size is   *)
(* checked against the memory's: callers ask for no more than there is.      *)

HandOut(count, elem) ==
  /\ count * elem <= TotalMemory
  /\ \/ cursor = Null /\ Ends("null", {})
     \/ RangeChecked(cursor, Wrap(count * elem)) /\ Ends("done", Bytes(cursor, count * elem))
     \/ RangeAborts(cursor, Wrap(count * elem)) /\ Ends("aborted", Bytes(cursor, count * elem))

(* unverified_safe_pointer_because *)
SafePointer(count, elem) ==
  /\ created
  /\ HandOut(count, elem)
  /\ UNCHANGED <<memory, transfers>>

(* copy_and_verify_buffer_address, by way of verify_range_helper *)
BufferAddress(count, elem) ==
  /\ created
  /\ \/ count # 0 /\ HandOut(count, elem)
     \/ count = 0 /\ Ends("refused", {})
  /\ UNCHANGED <<memory, transfers>>

-----------------------------------------------------------------------------
(* copy_memory_or_grant_access of a buffer the application has *)

(* What the doc comment lets the caller conclude from a non-null result. *)
Told(from, to, free) == {to} \union IF copied' /\ ~free THEN {from} ELSE {}

Returns(b, from, to, free) == told' = [told EXCEPT ![b] = Told(from, to, free)]

CopyInCalled(b, src) == told[b] = {"app"} /\ src \in Addresses \ HomeMemory

(* Mutant: the out parameter is not reset on entry. *)
GrantInPlaceStale(b, free, src) ==
  /\ created /\ canGrant
  /\ RangeChecked(src, BufferSize)
  /\ copied' = copied
  /\ place' = [place EXCEPT ![b] = Null]
  /\ homes' = [homes EXCEPT ![b] = {"sandbox"}]
  /\ Returns(b, "app", "sandbox", free)
  /\ Ends("done", {})
  /\ UNCHANGED memory

GrantInPlace(b, free, src) ==
  /\ created /\ canGrant
  /\ RangeChecked(src, BufferSize)
  /\ copied' = FALSE
  /\ place' = [place EXCEPT ![b] = Null]
  /\ homes' = [homes EXCEPT ![b] = {"sandbox"}]
  /\ Returns(b, "app", "sandbox", free)
  /\ Ends("done", {})
  /\ UNCHANGED memory

GrantAborts(src) ==
  /\ created /\ canGrant
  /\ RangeAborts(src, BufferSize)
  /\ copied' = FALSE
  /\ Ends("aborted", Bytes(src, BufferSize))
  /\ UNCHANGED <<memory, place, homes, told>>

(* The plugin cannot grant access at all, or not to this buffer. *)
CopiesIn(src) == canGrant => RangeChecked(src, BufferSize)

CopyIn(b, free, src, p) ==
  /\ CopiesIn(src)
  /\ MallocYields(BufferSize, 1, p) /\ SizeAccepted(BufferSize)
  /\ copied' = TRUE
  /\ place' = [place EXCEPT ![b] = p]
  /\ homes' = [homes EXCEPT ![b] = {"sandbox"} \union (@ \ IF free THEN {"app"} ELSE {})]
  /\ Returns(b, "app", "sandbox", free)
  /\ Ends("done", Bytes(p, BufferSize))
  /\ UNCHANGED memory

(* Mutant: the source is freed although nothing was copied. *)
CopyInFailsFreeing(b, src, p) ==
  /\ CopiesIn(src)
  /\ MallocYieldsNull(BufferSize, 1, p)
  /\ copied' = FALSE
  /\ homes' = [homes EXCEPT ![b] = @ \ {"app"}]
  /\ Ends("null", {})
  /\ UNCHANGED <<memory, place, told>>

CopyInFails(b, src, p) ==
  /\ CopiesIn(src)
  /\ MallocYieldsNull(BufferSize, 1, p)
  /\ copied' = FALSE
  /\ Ends("null", {})
  /\ UNCHANGED <<memory, place, homes, told>>

(* malloc_in_sandbox or memcpy throws; what was allocated is not freed. *)
CopyInRefused(src, p) ==
  /\ CopiesIn(src)
  /\ \/ MallocRefused(BufferSize, 1, p)
     \/ MallocYields(BufferSize, 1, p) /\ ~SizeAccepted(BufferSize)
  /\ copied' = FALSE
  /\ Ends("refused", Bytes(p, BufferSize))
  /\ UNCHANGED <<memory, place, homes, told>>

CopyOrGrant(b, free, src, p) ==
  /\ CopyInCalled(b, src)
  /\ \/ GrantInPlace(b, free, src)
     \/ GrantAborts(src)
     \/ CopyIn(b, free, src, p)
     \/ CopyInFails(b, src, p)
     \/ CopyInRefused(src, p)

-----------------------------------------------------------------------------
(* copy_memory_or_deny_access of a buffer in sandbox memory *)

DenyInPlace(b, free) ==
  /\ canGrant /\ (place[b] # Null => RangeChecked(place[b], BufferSize))
  /\ copied' = FALSE
  /\ place' = [place EXCEPT ![b] = Null]
  /\ homes' = [homes EXCEPT ![b] = {"app"}]
  /\ Returns(b, "sandbox", "app", free)
  /\ Ends("done", {})
  /\ UNCHANGED memory

(* A buffer that was granted in place is returned by the plugin that did it. *)
CopyOut(b, free) ==
  /\ place[b] # Null /\ RangeChecked(place[b], BufferSize)
  /\ copied' = TRUE
  /\ homes' = [homes EXCEPT ![b] = {"app"} \union (@ \ IF free THEN {"sandbox"} ELSE {})]
  /\ place' = [place EXCEPT ![b] = IF free THEN Null ELSE @]
  /\ Returns(b, "sandbox", "app", free)
  /\ Ends("done", Bytes(place[b], BufferSize))
  /\ UNCHANGED memory

(* The application's malloc returns null. *)
CopyOutFails(b) ==
  /\ place[b] # Null
  /\ copied' = FALSE
  /\ Ends("null", {})
  /\ UNCHANGED <<memory, place, homes, told>>

CopyOrDeny(b, free) ==
  /\ created /\ told[b] = {"sandbox"}
  /\ DenyInPlace(b, free) \/ CopyOut(b, free) \/ CopyOutFails(b)

(* The owner of two copies frees one: by free, or by free_in_sandbox. *)
FreeCopy(b, side) ==
  /\ told[b] = Sides
  /\ told' = [told EXCEPT ![b] = @ \ {side}]
  /\ homes' = [homes EXCEPT ![b] = @ \ {side}]
  /\ place' = [place EXCEPT ![b] = IF side = "sandbox" THEN Null ELSE @]
  /\ Ends("done", {})
  /\ UNCHANGED <<memory, copied>>

-----------------------------------------------------------------------------
PointerOps ==
  \/ \E count \in Sizes, elem \in ElementSizes :
       \/ \E p \in Addresses : Malloc(count, elem, p)
       \/ Offset(count, elem) \/ Index(count, elem)
       \/ SafePointer(count, elem) \/ BufferAddress(count, elem)
  \/ \E p \in Addresses : Receive(p) \/ AssignRaw(p)

RangeOps ==
  \E num \in Sizes : Memset(num) \/ \E src \in HomeMemory \union {Null} : Memcpy(num, src)

Transfers ==
  \E b \in Buffers, free \in BOOLEAN :
    \/ \E src, p \in Addresses : CopyOrGrant(b, free, src, p)
    \/ CopyOrDeny(b, free)
    \/ \E side \in Sides : FreeCopy(b, side)

(* A failed range check ends the process. *)
Next == outcome # "aborted" /\ (PointerOps \/ RangeOps \/ Transfers \/ Destroy)

Spec == Init /\ [][Next]_vars

-----------------------------------------------------------------------------
TypeOK ==
  /\ created \in BOOLEAN /\ canGrant \in BOOLEAN /\ copied \in BOOLEAN
  /\ cursor \in Addresses
  /\ asked \subseteq Addresses
  /\ outcome \in Outcomes
  /\ place \in [Buffers -> Addresses]
  /\ homes \in [Buffers -> SUBSET Sides]
  /\ told \in [Buffers -> SUBSET Sides]

(* A tainted pointer is null or in the sandbox's memory after any sequence   *)
(* of allocations, arithmetic, conversions and assignments, and the whole of *)
(* every buffer that was copied in is: copying it out checks no size.        *)
PointersStayInside ==
  /\ cursor \in HomeMemory \union {Null}
  /\ \A b \in Buffers : place[b] # Null => Bytes(place[b], BufferSize) \subseteq HomeMemory

(* Every operation that goes ahead uses and hands out bytes of the sandbox's *)
(* memory only, whatever size it was given and whatever the plugin returned. *)
AccessStaysInside == outcome = "done" => asked \subseteq HomeMemory

(* An operation is refused, or the process ended, only if it asked for       *)
(* nothing at all, for bytes elsewhere, or for more than the plugin says     *)
(* there is: a check that is off by one would refuse the last byte.          *)
RefusalIsJustified ==
  outcome \in {"refused", "aborted"} =>
    \/ asked = {} \/ ~(asked \subseteq HomeMemory)
    \/ Cardinality(asked) > TotalMemory

(* What the result and copied tell the caller of a transfer is so: the       *)
(* sides that it may still use hold a copy, and no copy is left that the     *)
(* caller does not know of, through failed transfers and repeated ones.      *)
HomesAsTold == homes = told
=============================================================================
