--------------------------- MODULE MemoryOps_proofs ---------------------------
(***************************************************************************)
(* Proofs about AddressSpace and MemoryOps for every width of addresses,   *)
(* every size of the memory and every place of it.                         *)
(***************************************************************************)
EXTENDS MemoryOps, FiniteSetTheorems, TLAPS

USE RegionAssumption, SizesAssumption

-----------------------------------------------------------------------------
(* Addresses and regions *)

LEMMA WrapRange == ASSUME NEW n \in Int PROVE Wrap(n) \in Addresses
BY DEF Addresses, Wrap

LEMMA WrapSmall == ASSUME NEW n \in Nat, n < Modulus PROVE Wrap(n) = n
BY DEF Wrap

LEMMA HomeRange ==
  /\ HomeMemory \subseteq Addresses /\ Null \notin HomeMemory /\ Null \in Addresses
  /\ RegionSize * Home \in Nat /\ RegionSize * Home >= RegionSize
BY DEF HomeMemory, Addresses, Null

(* A region is an interval: the upper bits decide who an address belongs to. *)
LEMMA HomeRegion ==
  ASSUME NEW a \in Addresses
  PROVE  InSandboxMemory(a) <=> a \in HomeMemory
BY DEF Addresses, InSandboxMemory, HomeMemory, Region

LEMMA SameSandbox ==
  ASSUME NEW p \in HomeMemory, NEW q \in Addresses
  PROVE  InSameSandbox(p, q) <=> q \in HomeMemory
BY HomeRegion, HomeRange DEF InSandboxMemory, InSameSandbox

(* Bytes of a range that starts and ends in the memory and does not wrap. *)
LEMMA BytesBetween ==
  ASSUME NEW p \in HomeMemory, NEW size \in Nat, size > 0, p + size - 1 \in HomeMemory
  PROVE  Bytes(p, size) \subseteq HomeMemory
<1> SUFFICES ASSUME NEW i \in 0..(size - 1) PROVE Wrap(p + i) \in HomeMemory
  BY DEF Bytes
<1>1. p + i \in HomeMemory
  BY HomeRange DEF HomeMemory
<1>2. p + i \in Nat /\ p + i < Modulus
  BY <1>1, HomeRange DEF Addresses
<1> QED BY <1>1, <1>2, WrapSmall

(* The range check means containment for sizes up to that of the memory: the *)
(* comparison with get_total_memory() is what keeps the end from wrapping.   *)
THEOREM RangeCheckContains ==
  ASSUME NEW p \in HomeMemory, NEW size \in 0..RegionSize, RangeChecked(p, size)
  PROVE  Bytes(p, size) \subseteq HomeMemory
<1>1. CASE size = 0
  BY <1>1 DEF Bytes
<1>2. CASE size > 0
  <2>1. p + size - 1 \in Nat /\ p + size - 1 < 2 * Modulus
    BY <1>2, HomeRange DEF HomeMemory
  <2>2. RangeEnd(p, size) \in HomeMemory
    BY <2>1, WrapRange, SameSandbox DEF RangeChecked, RangeEnd
  <2>3. p + size - 1 < Modulus
    <3> SUFFICES ASSUME p + size - 1 >= Modulus PROVE FALSE
      BY <2>1
    <3>1. RangeEnd(p, size) = p + size - 1 - Modulus
      BY <2>1 DEF RangeEnd, Wrap, HomeMemory
    <3>2. RangeEnd(p, size) < RegionSize
      BY <3>1, HomeRange DEF HomeMemory
    <3> QED BY <3>2, <2>2, HomeRange DEF HomeMemory
  <2>4. p + size - 1 \in HomeMemory
    BY <2>1, <2>2, <2>3, WrapSmall DEF RangeEnd
  <2> QED BY <1>2, <2>4, BytesBetween
<1> QED BY <1>1, <1>2

(* Conversely, a nonempty range inside the memory passes. *)
THEOREM RangeCheckAccepts ==
  ASSUME NEW p \in Addresses, NEW size \in Nat \ {0}, Bytes(p, size) \subseteq HomeMemory
  PROVE  RangeChecked(p, size) /\ ~RangeAborts(p, size)
<1>1. Wrap(p + 0) \in HomeMemory /\ Wrap(p + (size - 1)) \in HomeMemory
  BY DEF Bytes
<1>2. p \in HomeMemory
  BY <1>1, WrapSmall DEF Addresses
<1>3. RangeEnd(p, size) \in HomeMemory
  <2>1. p + (size - 1) = p + size - 1
    BY DEF Addresses
  <2> QED BY <1>1, <2>1 DEF RangeEnd
<1> QED BY <1>2, <1>3, SameSandbox, HomeRange DEF RangeChecked, RangeAborts

(* What malloc_in_sandbox hands out is inside, whatever the plugin returned. *)
THEOREM AllocationContained ==
  ASSUME NEW p \in Addresses, NEW size \in Sizes \ {0}, AllocationChecked(p, size)
  PROVE  p \in HomeMemory /\ Bytes(p, size) \subseteq HomeMemory
<1>1. p \in HomeMemory
  BY HomeRegion DEF AllocationChecked
<1>2. p + (size - 1) \in Nat /\ p + (size - 1) < 2 * Modulus
  BY DEF Addresses, Sizes
<1>3. p + (size - 1) < Modulus
  <2> SUFFICES ASSUME p + (size - 1) >= Modulus PROVE FALSE
    BY <1>2
  <2>1. Wrap(p + (size - 1)) = p + (size - 1) - Modulus
    BY <1>2 DEF Wrap, Addresses, Sizes
  <2>2. Wrap(p + (size - 1)) < p
    BY <2>1 DEF Addresses, Sizes
  <2> QED BY <2>2 DEF AllocationChecked, AddOverflows
<1>4. Wrap(p + (size - 1)) = p + (size - 1)
  BY <1>2, <1>3, WrapSmall
<1>5. p + (size - 1) \in HomeMemory
  BY <1>2, <1>3, <1>4, HomeRegion DEF AllocationChecked, Addresses
<1>6. p + size - 1 \in HomeMemory
  BY <1>5 DEF Addresses, Sizes
<1> QED BY <1>1, <1>6, BytesBetween DEF Sizes

(* A range that runs past the last address, or begins at null, meets null.   *)
LEMMA NullInRange ==
  ASSUME NEW p \in Addresses, NEW size \in Nat \ {0}, p = Null \/ p + size - 1 >= Modulus
  PROVE  Null \in Bytes(p, size)
<1>1. CASE p = Null
  <2>1. Wrap(p + 0) = Null
    BY <1>1 DEF Wrap, Null
  <2> QED BY <2>1 DEF Bytes
<1>2. CASE p + size - 1 >= Modulus
  <2>1. Modulus - p \in 0..(size - 1) /\ p + (Modulus - p) = Modulus
    BY <1>2 DEF Addresses
  <2>2. Wrap(Modulus) = Null
    BY DEF Wrap, Null
  <2> QED BY <2>1, <2>2 DEF Bytes
<1> QED BY <1>1, <1>2

LEMMA NullNotInside ==
  ASSUME NEW p \in Addresses, NEW size \in Nat \ {0}, Bytes(p, size) \subseteq HomeMemory
  PROVE  p # Null /\ p + size - 1 < Modulus
BY NullInRange, HomeRange DEF Addresses

LEMMA BytesAreAddresses ==
  ASSUME NEW p \in Addresses, NEW size \in Nat
  PROVE  Bytes(p, size) \subseteq Addresses
<1> SUFFICES ASSUME NEW i \in 0..(size - 1) PROVE Wrap(p + i) \in Addresses
  BY DEF Bytes
<1> QED BY WrapRange DEF Addresses

LEMMA NoBytes == ASSUME NEW p \in Addresses PROVE Bytes(p, 0) = {}
BY DEF Bytes

LEMMA InsideFinite ==
  ASSUME NEW S, S \subseteq HomeMemory
  PROVE  IsFiniteSet(S) /\ Cardinality(S) \in Nat
<1>1. RegionSize * Home \in Int /\ RegionSize * Home + RegionSize - 1 \in Int
  BY HomeRange
<1>2. IsFiniteSet(HomeMemory)
  BY <1>1, FS_Interval DEF HomeMemory
<1> QED BY <1>2, FS_Subset, FS_CardinalityType

(* A range inside the memory has as many bytes as its size says. *)
LEMMA BytesCounted ==
  ASSUME NEW p \in Addresses, NEW size \in Nat \ {0}, Bytes(p, size) \subseteq HomeMemory,
         NEW S, Bytes(p, size) \subseteq S, S \subseteq HomeMemory
  PROVE  Cardinality(S) >= size
<1>1. p + size - 1 < Modulus
  BY NullNotInside
<1>2. p..(p + size - 1) \subseteq Bytes(p, size)
  <2> SUFFICES ASSUME NEW a \in p..(p + size - 1) PROVE a \in Bytes(p, size)
    OBVIOUS
  <2>1. a - p \in 0..(size - 1) /\ p + (a - p) = a /\ a \in Nat /\ a < Modulus
    BY <1>1 DEF Addresses
  <2> QED BY <2>1, WrapSmall DEF Bytes
<1>3. IsFiniteSet(S)
  BY InsideFinite
<1>4. Cardinality(p..(p + size - 1)) = size
  BY FS_Interval DEF Addresses
<1>5. Cardinality(p..(p + size - 1)) <= Cardinality(S)
  BY <1>2, <1>3, FS_Subset
<1>6. Cardinality(S) \in Nat
  BY InsideFinite
<1> QED BY <1>4, <1>5, <1>6

(* The overflow test of checked_multiply is exact. *)
LEMMA ProductExact ==
  ASSUME NEW count \in Sizes \ {0}, NEW elem \in Nat \ {0}
  PROVE  /\ count * elem \in Nat \ {0}
         /\ ~MultiplyOverflows(count, elem) <=> count * elem < Modulus
         /\ count * elem < Modulus => Wrap(count * elem) = count * elem
<1>1. count * elem \in Nat \ {0}
  BY DEF Sizes
<1>2. count * elem < Modulus => Wrap(count * elem) = count * elem
  BY <1>1, WrapSmall
<1>3. count * elem < Modulus => ~MultiplyOverflows(count, elem)
  <2>1. (count * elem) \div count = elem
    BY DEF Sizes
  <2> QED BY <2>1, <1>2 DEF MultiplyOverflows
<1>4. ASSUME Wrap(count * elem) \div count = elem PROVE count * elem < Modulus
  <2>1. Wrap(count * elem) \in Nat /\ Wrap(count * elem) < Modulus
    BY <1>1, WrapRange DEF Addresses
  <2>2. count * (Wrap(count * elem) \div count) <= Wrap(count * elem)
    BY <2>1 DEF Sizes
  <2> QED BY <1>1, <1>4, <2>1, <2>2 DEF Sizes
<1> QED BY <1>1, <1>2, <1>3, <1>4 DEF MultiplyOverflows

-----------------------------------------------------------------------------
(* The invariant, action by action *)

MemInv ==
  /\ TypeOK
  /\ PointersStayInside
  /\ AccessStaysInside
  /\ RefusalIsJustified
  /\ HomesAsTold

LEMMA MemInit == Init => MemInv
<1> SUFFICES ASSUME Init PROVE MemInv
  OBVIOUS
<1>1. TypeOK
  BY HomeRange DEF Init, TypeOK, Outcomes, Sides
<1> QED BY <1>1 DEF Init, MemInv, PointersStayInside, AccessStaysInside, RefusalIsJustified, HomesAsTold

(* What an operation that leaves the transfers alone has to establish. *)
LEMMA CursorStep ==
  ASSUME MemInv, UNCHANGED transfers, created' \in BOOLEAN, UNCHANGED canGrant,
         cursor' \in HomeMemory \union {Null},
         asked' \subseteq Addresses, outcome' \in Outcomes,
         AccessStaysInside', RefusalIsJustified'
  PROVE  MemInv'
<1>1. TypeOK'
  BY HomeRange DEF MemInv, TypeOK, transfers
<1>2. PointersStayInside' /\ HomesAsTold'
  BY DEF MemInv, PointersStayInside, HomesAsTold, transfers
<1> QED BY <1>1, <1>2 DEF MemInv

LEMMA AllocationRefused ==
  ASSUME NEW count \in Sizes, NEW elem \in Nat \ {0}, NEW p \in Addresses,
         MallocRefused(count, elem, p)
  PROVE  Bytes(p, count * elem) = {} \/ ~(Bytes(p, count * elem) \subseteq HomeMemory)
<1>1. CASE count = 0
  <2>1. count * elem = 0
    BY <1>1
  <2> QED BY <2>1, NoBytes
<1>2. CASE count # 0
  <2> SUFFICES ASSUME Bytes(p, count * elem) \subseteq HomeMemory PROVE FALSE
    OBVIOUS
  <2> DEFINE size == count * elem
  <2>1. size \in Nat \ {0} /\ (~MultiplyOverflows(count, elem) <=> size < Modulus)
        /\ (size < Modulus => Wrap(size) = size)
    BY <1>2, ProductExact
  <2> HIDE DEF size
  <2>2. Bytes(p, size) \subseteq HomeMemory
    BY DEF size
  <2>3. p # Null /\ p + size - 1 < Modulus
    BY <2>1, <2>2, NullNotInside
  <2>4. size < Modulus
    BY <2>1, <2>3 DEF Addresses, Null
  <2>5. Allocatable(count, elem)
    BY <1>2, <2>1, <2>4 DEF Allocatable
  <2>6. ~AllocationChecked(p, size)
    BY <2>1, <2>4, <2>5 DEF MallocRefused, size
  <2>7. Wrap(p + 0) \in HomeMemory /\ Wrap(p + (size - 1)) \in HomeMemory
    BY <2>1, <2>2 DEF Bytes
  <2>8. p \in HomeMemory /\ p + (size - 1) \in HomeMemory /\ Wrap(p + (size - 1)) = p + (size - 1)
    <3>1. p + (size - 1) \in Nat /\ p + (size - 1) < Modulus /\ p + 0 = p /\ p \in Nat /\ p < Modulus
      BY <2>1, <2>3 DEF Addresses
    <3> QED BY <3>1, <2>7, WrapSmall
  <2>9. ~AddOverflows(p, size)
    BY <2>1, <2>8 DEF AddOverflows, Addresses
  <2> QED BY <2>6, <2>8, <2>9, HomeRegion, HomeRange DEF AllocationChecked
<1> QED BY <1>1, <1>2

LEMMA AllocationYields ==
  ASSUME NEW count \in Sizes, NEW elem \in Nat \ {0}, NEW p \in Addresses,
         MallocYields(count, elem, p)
  PROVE  p \in HomeMemory /\ Bytes(p, count * elem) \subseteq HomeMemory
<1>1. /\ count \in Sizes \ {0} /\ count * elem \in Nat \ {0}
      /\ count * elem < Modulus /\ Wrap(count * elem) = count * elem
  BY ProductExact DEF MallocYields, Allocatable
<1>2. count * elem \in Sizes \ {0} /\ AllocationChecked(p, count * elem)
  BY <1>1 DEF MallocYields, Sizes
<1> QED BY <1>2, AllocationContained

LEMMA MallocStep ==
  ASSUME MemInv, NEW count \in Sizes, NEW elem \in ElementSizes, NEW p \in Addresses,
         Malloc(count, elem, p)
  PROVE  MemInv'
<1>1. count * elem \in Nat
  BY DEF Sizes
<1>2. Bytes(p, count * elem) \subseteq Addresses
  BY <1>1, BytesAreAddresses
<1>3. CASE MallocYields(count, elem, p) /\ cursor' = p /\ Ends("done", Bytes(p, count * elem))
  BY <1>2, <1>3, CursorStep, AllocationYields
     DEF Malloc, MemInv, TypeOK, Ends, Outcomes, AccessStaysInside, RefusalIsJustified
<1>4. CASE MallocYieldsNull(count, elem, p) /\ cursor' = Null /\ Ends("null", {})
  BY <1>4, CursorStep DEF Malloc, MemInv, TypeOK, Ends, Outcomes, AccessStaysInside, RefusalIsJustified
<1>5. CASE MallocRefused(count, elem, p) /\ Ends("refused", Bytes(p, count * elem)) /\ UNCHANGED cursor
  BY <1>2, <1>5, CursorStep, AllocationRefused
     DEF Malloc, MemInv, TypeOK, PointersStayInside, Ends, Outcomes, AccessStaysInside, RefusalIsJustified
<1> QED BY <1>3, <1>4, <1>5 DEF Malloc

LEMMA PointerStep ==
  ASSUME MemInv, NEW p \in Addresses, Receive(p) \/ AssignRaw(p)
  PROVE  MemInv'
<1>1. CASE Receive(p)
  BY <1>1, CursorStep
     DEF Receive, MemInv, TypeOK, Ends, Outcomes, AccessStaysInside, RefusalIsJustified
<1>2. CASE AssignRaw(p)
  BY <1>2, CursorStep, HomeRegion
     DEF AssignRaw, MemInv, TypeOK, PointersStayInside, Ends, Outcomes, AccessStaysInside, RefusalIsJustified
<1> QED BY <1>1, <1>2

LEMMA ArithmeticStep ==
  ASSUME MemInv, NEW count \in Sizes, NEW elem \in ElementSizes,
         Offset(count, elem) \/ Index(count, elem)
  PROVE  MemInv'
<1>1. count * elem \in Nat /\ cursor \in Addresses
  BY DEF Sizes, MemInv, TypeOK
<1>2. Wrap(cursor + count * elem) \in Addresses /\ Wrap(cursor - count * elem) \in Addresses
  BY <1>1, WrapRange DEF Addresses
<1>3. ASSUME NEW target \in Addresses, cursor # Null, MoveCursor(target),
             UNCHANGED <<created, canGrant, transfers>>
      PROVE  MemInv'
  <2>1. cursor \in HomeMemory /\ (InSameSandbox(cursor, target) <=> target \in HomeMemory)
    BY <1>3, SameSandbox DEF MemInv, PointersStayInside
  <2> QED BY <1>3, <2>1, HomeRange, CursorStep
     DEF MoveCursor, MemInv, TypeOK, Ends, Outcomes, AccessStaysInside, RefusalIsJustified
<1>4. ASSUME cursor = Null, Ends("refused", {cursor}), UNCHANGED <<cursor, created, canGrant, transfers>>
      PROVE  MemInv'
  BY <1>4, HomeRange, CursorStep
     DEF MemInv, TypeOK, Ends, Outcomes, AccessStaysInside, RefusalIsJustified
<1> QED BY <1>2, <1>3, <1>4 DEF Offset, Index

LEMMA RangesStep ==
  ASSUME MemInv, NEW num \in Sizes, NEW pointers \in Seq(HomeMemory \union {Null}),
         pointers # << >>, UseRanges(num, pointers)
  PROVE  MemInv'
<1> DEFINE bytes == UNION {Bytes(pointers[i], num) : i \in DOMAIN pointers}
           Passed(n) == \A i \in 1..n : RangeChecked(pointers[i], num)
<1>1. /\ DOMAIN pointers = 1..Len(pointers) /\ Len(pointers) \in Nat
      /\ \A i \in DOMAIN pointers : pointers[i] \in HomeMemory \union {Null} /\ pointers[i] \in Addresses
  BY HomeRange
<1>2. num \in Nat
  BY DEF Sizes
<1>3. bytes \subseteq Addresses
  BY <1>1, <1>2, BytesAreAddresses
<1>4. UNCHANGED <<memory, transfers>> /\ cursor \in HomeMemory \union {Null}
  BY DEF UseRanges, MemInv, PointersStayInside
<1>5. ASSUME NEW i \in DOMAIN pointers, num # 0, bytes \subseteq HomeMemory
      PROVE  pointers[i] # Null /\ ~RangeAborts(pointers[i], num)
  <2>1. Bytes(pointers[i], num) \subseteq HomeMemory
    BY <1>5
  <2> QED BY <1>1, <1>2, <1>5, <2>1, RangeCheckAccepts DEF RangeChecked
<1>6. num = 0 => bytes = {}
  BY <1>1, NoBytes
<1> HIDE DEF bytes
<1>7. CASE SizeAccepted(num) /\ Passed(Len(pointers)) /\ Ends("done", bytes)
  <2>1. num \in 0..RegionSize
    BY <1>2, <1>7 DEF SizeAccepted
  <2>2. ASSUME NEW i \in DOMAIN pointers PROVE Bytes(pointers[i], num) \subseteq HomeMemory
    <3>1. RangeChecked(pointers[i], num)
      BY <1>1, <1>7
    <3>2. pointers[i] \in HomeMemory
      BY <1>1, <3>1 DEF RangeChecked
    <3> QED BY <2>1, <3>1, <3>2, RangeCheckContains
  <2>3. bytes \subseteq HomeMemory
    BY <2>2 DEF bytes
  <2> QED BY <1>3, <1>4, <1>7, <2>3, CursorStep
     DEF MemInv, TypeOK, memory, Ends, Outcomes, AccessStaysInside, RefusalIsJustified
<1>8. CASE ~SizeAccepted(num) /\ Ends("refused", bytes)
  <2>1. num # 0 /\ num > TotalMemory
    BY <1>2, <1>8 DEF SizeAccepted
  <2>2. bytes \subseteq HomeMemory => Cardinality(bytes) > TotalMemory
    <3> SUFFICES ASSUME bytes \subseteq HomeMemory PROVE Cardinality(bytes) > TotalMemory
      OBVIOUS
    <3>1. 1 \in DOMAIN pointers
      BY <1>1, <1>8
    <3>2. Bytes(pointers[1], num) \subseteq bytes
      BY <3>1 DEF bytes
    <3>3. Cardinality(bytes) >= num
      BY <1>1, <1>2, <2>1, <3>1, <3>2, BytesCounted
    <3>4. Cardinality(bytes) \in Nat
      BY InsideFinite
    <3> QED BY <2>1, <3>3, <3>4, <1>2
  <2> QED BY <1>3, <1>4, <1>8, <2>2, CursorStep
     DEF MemInv, TypeOK, memory, Ends, Outcomes, AccessStaysInside, RefusalIsJustified
<1>9. ASSUME NEW i \in DOMAIN pointers, NEW result \in {"refused", "aborted"},
             pointers[i] = Null \/ RangeAborts(pointers[i], num), Ends(result, bytes)
      PROVE  MemInv'
  <2>1. bytes = {} \/ ~(bytes \subseteq HomeMemory)
    BY <1>5, <1>6, <1>9
  <2> QED BY <1>3, <1>4, <1>9, <2>1, CursorStep
     DEF MemInv, TypeOK, memory, Ends, Outcomes, AccessStaysInside, RefusalIsJustified
<1> QED BY <1>7, <1>8, <1>9 DEF UseRanges, bytes

LEMMA HandOutStep ==
  ASSUME MemInv, NEW count \in Sizes, NEW elem \in ElementSizes,
         SafePointer(count, elem) \/ BufferAddress(count, elem)
  PROVE  MemInv'
<1>1. count * elem \in Nat
  BY DEF Sizes
<1>2. UNCHANGED <<memory, transfers>> /\ cursor \in HomeMemory \union {Null} /\ cursor \in Addresses
  BY DEF SafePointer, BufferAddress, MemInv, PointersStayInside, TypeOK
<1>3. CASE HandOut(count, elem)
  <2> DEFINE size == count * elem
  <2>1. size \in 0..RegionSize /\ Wrap(size) = size /\ Bytes(cursor, size) \subseteq Addresses
    BY <1>1, <1>2, <1>3, WrapSmall, BytesAreAddresses DEF HandOut
  <2> HIDE DEF size
  <2>2. CASE cursor = Null /\ Ends("null", {})
    BY <1>2, <2>2, CursorStep
       DEF MemInv, TypeOK, memory, Ends, Outcomes, AccessStaysInside, RefusalIsJustified
  <2>3. CASE RangeChecked(cursor, size) /\ Ends("done", Bytes(cursor, size))
    <3>1. Bytes(cursor, size) \subseteq HomeMemory
      BY <1>2, <2>1, <2>3, RangeCheckContains DEF RangeChecked
    <3> QED BY <1>2, <2>1, <2>3, <3>1, CursorStep
       DEF MemInv, TypeOK, memory, Ends, Outcomes, AccessStaysInside, RefusalIsJustified
  <2>4. CASE RangeAborts(cursor, size) /\ Ends("aborted", Bytes(cursor, size))
    <3>1. Bytes(cursor, size) = {} \/ ~(Bytes(cursor, size) \subseteq HomeMemory)
      BY <1>2, <2>1, <2>4, NoBytes, RangeCheckAccepts
    <3> QED BY <1>2, <2>1, <2>4, <3>1, CursorStep
       DEF MemInv, TypeOK, memory, Ends, Outcomes, AccessStaysInside, RefusalIsJustified
  <2> QED BY <1>3, <2>1, <2>2, <2>3, <2>4 DEF HandOut, size
<1>4. CASE Ends("refused", {})
  BY <1>2, <1>4, CursorStep
     DEF MemInv, TypeOK, memory, Ends, Outcomes, AccessStaysInside, RefusalIsJustified
<1> QED BY <1>3, <1>4 DEF SafePointer, BufferAddress

-----------------------------------------------------------------------------
(* Transfers *)

(* What a transfer of b has to establish. *)
LEMMA TransferStep ==
  ASSUME MemInv, UNCHANGED memory, NEW b \in Buffers,
         NEW at \in Addresses, at # Null => Bytes(at, BufferSize) \subseteq HomeMemory,
         NEW sides \in SUBSET Sides,
         copied' \in BOOLEAN,
         place' = [place EXCEPT ![b] = at],
         homes' = [homes EXCEPT ![b] = sides],
         told' = [told EXCEPT ![b] = sides],
         asked' \subseteq Addresses, outcome' \in Outcomes,
         AccessStaysInside', RefusalIsJustified'
  PROVE  MemInv'
<1>1. TypeOK'
  BY HomeRange DEF MemInv, TypeOK, memory
<1>2. PointersStayInside' /\ HomesAsTold'
  BY DEF MemInv, TypeOK, PointersStayInside, HomesAsTold, memory
<1> QED BY <1>1, <1>2 DEF MemInv

(* A transfer that fails changes nothing but the out parameter. *)
LEMMA FailedTransferStep ==
  ASSUME MemInv, UNCHANGED <<memory, place, homes, told>>, copied' = FALSE,
         asked' \subseteq Addresses, outcome' \in Outcomes,
         AccessStaysInside', RefusalIsJustified'
  PROVE  MemInv'
<1>1. TypeOK'
  BY DEF MemInv, TypeOK, memory
<1>2. PointersStayInside' /\ HomesAsTold'
  BY DEF MemInv, PointersStayInside, HomesAsTold, memory
<1> QED BY <1>1, <1>2 DEF MemInv

LEMMA BufferIsSmall ==
  BufferSize \in Sizes \ {0} /\ BufferSize \in Nat \ {0} /\ BufferSize * 1 = BufferSize
BY DEF Sizes

LEMMA BufferYields ==
  ASSUME NEW p \in Addresses, MallocYields(BufferSize, 1, p)
  PROVE  p \in HomeMemory /\ Bytes(p, BufferSize) \subseteq HomeMemory
<1>1. 1 \in Nat \ {0}
  OBVIOUS
<1> QED BY <1>1, BufferIsSmall, AllocationYields

LEMMA BufferRefused ==
  ASSUME NEW p \in Addresses, MallocRefused(BufferSize, 1, p)
  PROVE  Bytes(p, BufferSize) = {} \/ ~(Bytes(p, BufferSize) \subseteq HomeMemory)
<1>1. 1 \in Nat \ {0}
  OBVIOUS
<1> QED BY <1>1, BufferIsSmall, AllocationRefused

LEMMA CopyOrGrantStep ==
  ASSUME MemInv, NEW b \in Buffers, NEW free \in BOOLEAN, NEW src \in Addresses, NEW p \in Addresses,
         CopyOrGrant(b, free, src, p)
  PROVE  MemInv'
<1>1. /\ told[b] = {"app"} /\ homes[b] = {"app"} /\ src \in Addresses \ HomeMemory
      /\ copied \in BOOLEAN /\ homes \in [Buffers -> SUBSET Sides] /\ homes = told
  BY DEF CopyOrGrant, CopyInCalled, MemInv, HomesAsTold, TypeOK
<1>2. /\ Bytes(p, BufferSize) \subseteq Addresses /\ Bytes(src, BufferSize) \subseteq Addresses
      /\ ~(Bytes(src, BufferSize) \subseteq HomeMemory)
  <2>1. Bytes(p, BufferSize) \subseteq Addresses /\ Bytes(src, BufferSize) \subseteq Addresses
    BY BufferIsSmall, BytesAreAddresses
  <2>2. Wrap(src + 0) \in Bytes(src, BufferSize)
    BY BufferIsSmall DEF Bytes
  <2>3. Wrap(src + 0) = src
    BY WrapSmall DEF Addresses
  <2> QED BY <1>1, <2>1, <2>2, <2>3
<1>3. CASE GrantInPlace(b, free, src)
  <2>1. told' = [told EXCEPT ![b] = {"sandbox"}]
    BY <1>3 DEF GrantInPlace, Returns, Told
  <2> QED BY <1>3, <2>1, HomeRange, TransferStep
     DEF GrantInPlace, Ends, Sides, Outcomes, AccessStaysInside, RefusalIsJustified
<1>4. CASE GrantAborts(src)
  BY <1>2, <1>4, FailedTransferStep DEF GrantAborts, Ends, Outcomes, AccessStaysInside, RefusalIsJustified
<1>5. CASE CopyIn(b, free, src, p)
  <2> DEFINE sides == {"sandbox"} \union IF free THEN {} ELSE {"app"}
  <2>1. told' = [told EXCEPT ![b] = sides]
    BY <1>5 DEF CopyIn, Returns, Told
  <2>2. homes' = [homes EXCEPT ![b] = sides]
    BY <1>1, <1>5 DEF CopyIn
  <2>3. sides \in SUBSET Sides
    BY DEF Sides
  <2>4. p \in HomeMemory /\ Bytes(p, BufferSize) \subseteq HomeMemory
    BY <1>5, BufferYields DEF CopyIn
  <2> HIDE DEF sides
  <2> QED BY <1>2, <1>5, <2>1, <2>2, <2>3, <2>4, TransferStep
     DEF CopyIn, Ends, Outcomes, AccessStaysInside, RefusalIsJustified
<1>6. CASE CopyInFails(b, src, p)
  BY <1>6, FailedTransferStep DEF CopyInFails, Ends, Outcomes, AccessStaysInside, RefusalIsJustified
<1>7. CASE CopyInRefused(src, p)
  <2> DEFINE bytes == Bytes(p, BufferSize)
  <2>1. bytes = {} \/ ~(bytes \subseteq HomeMemory) \/ Cardinality(bytes) > TotalMemory
    <3>1. CASE MallocRefused(BufferSize, 1, p)
      BY <3>1, BufferRefused
    <3>2. CASE MallocYields(BufferSize, 1, p) /\ ~SizeAccepted(BufferSize)
      <4>1. bytes \subseteq HomeMemory
        BY <3>2, BufferYields
      <4>2. Cardinality(bytes) >= BufferSize
        BY <4>1, BufferIsSmall, BytesCounted
      <4>3. Cardinality(bytes) \in Nat
        BY <4>1, InsideFinite
      <4> QED BY <3>2, <4>2, <4>3 DEF SizeAccepted
    <3> QED BY <1>7, <3>1, <3>2 DEF CopyInRefused
  <2>2. UNCHANGED <<memory, place, homes, told>> /\ copied' = FALSE /\ Ends("refused", bytes)
    BY <1>7 DEF CopyInRefused
  <2> HIDE DEF bytes
  <2>3. bytes \subseteq Addresses
    BY <1>2 DEF bytes
  <2> QED BY <2>1, <2>2, <2>3, FailedTransferStep
     DEF Ends, Outcomes, AccessStaysInside, RefusalIsJustified
<1> QED BY <1>3, <1>4, <1>5, <1>6, <1>7 DEF CopyOrGrant

LEMMA CopyOrDenyStep ==
  ASSUME MemInv, NEW b \in Buffers, NEW free \in BOOLEAN, CopyOrDeny(b, free)
  PROVE  MemInv'
<1>1. /\ told[b] = {"sandbox"} /\ homes[b] = {"sandbox"} /\ homes = told
      /\ place[b] \in Addresses
      /\ place[b] # Null => Bytes(place[b], BufferSize) \subseteq HomeMemory
      /\ place \in [Buffers -> Addresses] /\ homes \in [Buffers -> SUBSET Sides]
  BY DEF CopyOrDeny, MemInv, HomesAsTold, PointersStayInside, TypeOK
<1>2. CASE DenyInPlace(b, free)
  <2>1. told' = [told EXCEPT ![b] = {"app"}]
    BY <1>2 DEF DenyInPlace, Returns, Told
  <2> QED BY <1>2, <2>1, HomeRange, TransferStep
     DEF DenyInPlace, Ends, Sides, Outcomes, AccessStaysInside, RefusalIsJustified
<1>3. CASE CopyOut(b, free)
  <2> DEFINE sides == {"app"} \union IF free THEN {} ELSE {"sandbox"}
             at == IF free THEN Null ELSE place[b]
  <2>1. told' = [told EXCEPT ![b] = sides]
    BY <1>3 DEF CopyOut, Returns, Told
  <2>2. homes' = [homes EXCEPT ![b] = sides]
    BY <1>1, <1>3 DEF CopyOut
  <2>3. /\ sides \in SUBSET Sides /\ at \in Addresses
        /\ at # Null => Bytes(at, BufferSize) \subseteq HomeMemory
    BY <1>1, HomeRange DEF Sides
  <2>4. Bytes(place[b], BufferSize) \subseteq Addresses
    BY <1>1, BufferIsSmall, BytesAreAddresses
  <2>5. Bytes(place[b], BufferSize) \subseteq HomeMemory
    BY <1>1, <1>3 DEF CopyOut
  <2> HIDE DEF sides, at
  <2> QED BY <1>3, <2>1, <2>2, <2>3, <2>4, <2>5, TransferStep
     DEF CopyOut, Ends, Outcomes, AccessStaysInside, RefusalIsJustified, at
<1>4. CASE CopyOutFails(b)
  BY <1>4, FailedTransferStep DEF CopyOutFails, Ends, Outcomes, AccessStaysInside, RefusalIsJustified
<1> QED BY <1>2, <1>3, <1>4 DEF CopyOrDeny

LEMMA FreeCopyStep ==
  ASSUME MemInv, NEW b \in Buffers, NEW side \in Sides, FreeCopy(b, side)
  PROVE  MemInv'
<1> DEFINE at == IF side = "sandbox" THEN Null ELSE place[b]
           sides == told[b] \ {side}
<1>1. /\ homes = told /\ told \in [Buffers -> SUBSET Sides] /\ place \in [Buffers -> Addresses]
      /\ place[b] # Null => Bytes(place[b], BufferSize) \subseteq HomeMemory
      /\ copied \in BOOLEAN
  BY DEF MemInv, HomesAsTold, TypeOK, PointersStayInside
<1>2. /\ place' = [place EXCEPT ![b] = at]
      /\ homes' = [homes EXCEPT ![b] = sides] /\ told' = [told EXCEPT ![b] = sides]
  BY <1>1 DEF FreeCopy
<1>3. /\ at \in Addresses
      /\ at # Null => Bytes(at, BufferSize) \subseteq HomeMemory
      /\ sides \in SUBSET Sides
  BY <1>1, HomeRange
<1> HIDE DEF at, sides
<1> QED BY <1>1, <1>2, <1>3, TransferStep
   DEF FreeCopy, Ends, Outcomes, AccessStaysInside, RefusalIsJustified

LEMMA DestroyStep == MemInv /\ Destroy => MemInv'
<1> SUFFICES ASSUME MemInv, Destroy PROVE MemInv'
  OBVIOUS
<1>1. TypeOK'
  BY HomeRange DEF MemInv, TypeOK, Destroy, Ends, Outcomes
<1> QED BY <1>1
   DEF MemInv, Destroy, Ends, PointersStayInside, AccessStaysInside, RefusalIsJustified, HomesAsTold

LEMMA StutterStep == MemInv /\ UNCHANGED vars => MemInv'
BY DEF vars, memory, transfers, MemInv, TypeOK, PointersStayInside, AccessStaysInside,
       RefusalIsJustified, HomesAsTold

LEMMA MemStep == MemInv /\ [Next]_vars => MemInv'
<1> SUFFICES ASSUME MemInv, [Next]_vars PROVE MemInv'
  OBVIOUS
<1>1. CASE PointerOps
  BY <1>1, MallocStep, ArithmeticStep, HandOutStep, PointerStep DEF PointerOps
<1>2. CASE RangeOps
  <2>1. cursor \in HomeMemory \union {Null}
    BY DEF MemInv, PointersStayInside
  <2>2. ASSUME NEW num \in Sizes, Memset(num) PROVE MemInv'
    <3>1. <<cursor>> \in Seq(HomeMemory \union {Null}) /\ <<cursor>> # << >>
      BY <2>1
    <3> QED BY <2>2, <3>1, RangesStep DEF Memset
  <2>3. ASSUME NEW num \in Sizes, NEW src \in HomeMemory \union {Null}, Memcpy(num, src) PROVE MemInv'
    <3>1. <<cursor, src>> \in Seq(HomeMemory \union {Null}) /\ <<cursor, src>> # << >>
      BY <2>1, <2>3
    <3> QED BY <2>3, <3>1, RangesStep DEF Memcpy
  <2> QED BY <1>2, <2>2, <2>3 DEF RangeOps
<1>3. CASE Transfers
  BY <1>3, CopyOrGrantStep, CopyOrDenyStep, FreeCopyStep DEF Transfers
<1> QED BY <1>1, <1>2, <1>3, DestroyStep, StutterStep DEF Next

LEMMA MemInvariant == Spec => []MemInv
BY MemInit, MemStep, PTL DEF Spec

-----------------------------------------------------------------------------
(* Type correctness: computed addresses and sizes stay within their width.   *)
THEOREM TypeCorrect == Spec => []TypeOK
<1>1. MemInv => TypeOK
  BY DEF MemInv
<1> QED BY <1>1, MemInvariant, PTL

(* Tainted pointers and the buffers copied in stay in the sandbox's memory.  *)
THEOREM PointersContained == Spec => []PointersStayInside
<1>1. MemInv => PointersStayInside
  BY DEF MemInv
<1> QED BY <1>1, MemInvariant, PTL

(* No operation that goes ahead uses a byte outside the sandbox's memory.    *)
THEOREM AccessContained == Spec => []AccessStaysInside
<1>1. MemInv => AccessStaysInside
  BY DEF MemInv
<1> QED BY <1>1, MemInvariant, PTL

(* No operation that the memory has room for is refused.                     *)
THEOREM NoFalseRefusal == Spec => []RefusalIsJustified
<1>1. MemInv => RefusalIsJustified
  BY DEF MemInv
<1> QED BY <1>1, MemInvariant, PTL

(* The caller of a transfer knows who holds the buffer.                      *)
THEOREM CallerKnowsHomes == Spec => []HomesAsTold
<1>1. MemInv => HomesAsTold
  BY DEF MemInv
<1> QED BY <1>1, MemInvariant, PTL
=============================================================================
