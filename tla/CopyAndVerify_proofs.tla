------------------------- MODULE CopyAndVerify_proofs -------------------------
(***************************************************************************)
(* Proofs about the integer conversions of IntConversion, for every pair   *)
(* of types, and about CopyAndVerify, for every address space, every memory*)
(* and every width of its cells.                                           *)
(***************************************************************************)
EXTENDS CopyAndVerify, SequenceTheorems, TLAPS

-----------------------------------------------------------------------------
(* Half of the number of values is a whole number. *)
LEMMA Halves ==
  ASSUME NEW type \in IntTypes
  PROVE  /\ type.values \in Nat \ {0} /\ type.values \div 2 \in Nat \ {0}
         /\ type.values = 2 * (type.values \div 2)
         /\ type.signed \in BOOLEAN
BY DEF IntTypes

LEMMA CastKeeps ==
  ASSUME NEW type \in IntTypes, NEW n \in ValuesOf(type)
  PROVE  Cast(type, n) = n
<1> DEFINE v == type.values  h == type.values \div 2
<1>1. v \in Nat \ {0} /\ h \in Nat \ {0} /\ v = 2 * h /\ type.signed \in BOOLEAN
  BY Halves
<1>2. n \in Int /\ (type.signed => -h <= n /\ n <= h - 1) /\ (~type.signed => 0 <= n /\ n <= v - 1)
  BY <1>1 DEF ValuesOf, MinOf, MaxOf
<1> HIDE DEF v, h
<1>3. CASE n >= 0
  <2>1. n % v = n
    BY <1>1, <1>2, <1>3
  <2> QED BY <1>1, <1>2, <1>3, <2>1 DEF Cast, MaxOf, v, h
<1>4. CASE n < 0
  <2>1. n % v = n + v
    BY <1>1, <1>2, <1>4
  <2> QED BY <1>1, <1>2, <1>4, <2>1 DEF Cast, MaxOf, v, h
<1> QED BY <1>2, <1>3, <1>4

(* A conversion is accepted exactly if the target type has the value, and    *)
(* then gives that value.                                                    *)
THEOREM ConversionExact ==
  ASSUME NEW to \in IntTypes, NEW from \in IntTypes, NEW n \in ValuesOf(from),
         WholeBits(to, from), WholeBits(from, to)
  PROVE  /\ Accepted(to, from, n) <=> n \in ValuesOf(to)
         /\ Accepted(to, from, n) => Cast(to, n) = n
<1>1. Accepted(to, from, n) <=> n \in ValuesOf(to)
  <2> DEFINE th == to.values \div 2  fh == from.values \div 2
  <2>1. /\ to.values \in Nat \ {0} /\ th \in Nat \ {0} /\ to.values = 2 * th /\ to.signed \in BOOLEAN
        /\ from.values \in Nat \ {0} /\ fh \in Nat \ {0} /\ from.values = 2 * fh /\ from.signed \in BOOLEAN
    BY Halves
  <2>2. n \in Int
    BY DEF ValuesOf
  <2>3. ASSUME MaxOf(to) \in ValuesOf(from) PROVE Cast(from, MaxOf(to)) = MaxOf(to)
    BY <2>3, CastKeeps
  <2>4. CASE to.signed = from.signed
    BY <2>1, <2>2, <2>4 DEF Accepted, ValuesOf, MinOf, MaxOf, Widens, NarrowsSigned
  <2> HIDE DEF th, fh
  <2>5. CASE ~to.signed /\ from.signed
    <3>1. MinOf(to) = 0 /\ MaxOf(to) = to.values - 1 /\ MinOf(from) = -fh /\ MaxOf(from) = fh - 1
      BY <2>5 DEF MinOf, MaxOf, fh
    <3>2. to.values < from.values => MaxOf(to) \in ValuesOf(from)
      BY <2>1, <3>1 DEF ValuesOf, WholeBits
    <3>3. Accepted(to, from, n) <=> LosesSign(to, from, n)
      BY <2>5 DEF Accepted, Widens
    <3> QED BY <2>1, <2>2, <2>3, <2>5, <3>1, <3>2, <3>3 DEF ValuesOf, LosesSign, WholeBits
  <2>6. CASE to.signed /\ ~from.signed
    <3>1. MinOf(to) = -th /\ MaxOf(to) = th - 1 /\ MinOf(from) = 0 /\ MaxOf(from) = from.values - 1
      BY <2>6 DEF MinOf, MaxOf, th
    <3>2. to.values <= from.values => MaxOf(to) \in ValuesOf(from)
      BY <2>1, <3>1 DEF ValuesOf
    <3>3. Accepted(to, from, n) <=> GainsSign(to, from, n)
      BY <2>6 DEF Accepted, Widens
    <3> QED BY <2>1, <2>2, <2>3, <2>6, <3>1, <3>2, <3>3 DEF ValuesOf, GainsSign, WholeBits
  <2> QED BY <2>1, <2>4, <2>5, <2>6
<1> QED BY <1>1, CastKeeps

(* The powers of two: what every set has that has 1 and is closed under      *)
(* doubling.                                                                 *)
Doubling(S) == 1 \in S /\ \A n \in S : 2 * n \in S
PowersOfTwo == {n \in Nat : \A S \in SUBSET Nat : Doubling(S) => n \in S}

LEMMA PowersDouble == Doubling(PowersOfTwo)
BY DEF Doubling, PowersOfTwo

LEMMA PowersAreHalved ==
  ASSUME NEW n \in PowersOfTwo
  PROVE  n \in Nat \ {0} /\ (n = 1 \/ \E m \in PowersOfTwo : n = 2 * m)
<1> DEFINE S == {k \in Nat \ {0} : k = 1 \/ \E m \in PowersOfTwo : k = 2 * m}
<1>1. S \subseteq PowersOfTwo
  BY PowersDouble DEF Doubling
<1>2. \A k \in S : 2 * k \in S
  BY <1>1
<1>3. Doubling(S) /\ S \in SUBSET Nat
  BY <1>2 DEF Doubling
<1>4. n \in S
  <2> HIDE DEF S
  <2> QED BY <1>3 DEF PowersOfTwo
<1> QED BY <1>4

(* No power of two lies between another and its double. *)
LEMMA PowersApart ==
  ASSUME NEW a \in PowersOfTwo, NEW b \in PowersOfTwo, a < b
  PROVE  2 * a <= b
<1> DEFINE Apart(n, m) == n < m => 2 * n <= m
           S == {n \in PowersOfTwo : \A m \in PowersOfTwo : Apart(n, m) /\ Apart(m, n)}
<1>1. 1 \in S
  BY PowersDouble, PowersAreHalved DEF Doubling
<1>2. ASSUME NEW n \in S PROVE 2 * n \in S
  <2>1. 2 * n \in PowersOfTwo /\ n \in Nat \ {0}
    BY PowersDouble, PowersAreHalved DEF Doubling
  <2>2. ASSUME NEW m \in PowersOfTwo PROVE Apart(2 * n, m) /\ Apart(m, 2 * n)
    <3>1. CASE m = 1
      BY <2>1, <3>1
    <3>2. ASSUME NEW k \in PowersOfTwo, m = 2 * k PROVE Apart(2 * n, m) /\ Apart(m, 2 * n)
      <4>1. Apart(n, k) /\ Apart(k, n) /\ k \in Nat
        BY PowersAreHalved
      <4> QED BY <2>1, <3>2, <4>1
    <3> QED BY <3>1, <3>2, PowersAreHalved
  <2> QED BY <2>1, <2>2
<1>3. a \in S
  <2>1. Doubling(S) /\ S \in SUBSET Nat
    BY <1>1, <1>2, PowersAreHalved DEF Doubling
  <2> HIDE DEF S
  <2> QED BY <2>1 DEF PowersOfTwo
<1> QED BY <1>3

(* Of two types whose widths are whole numbers of bits the wider has at least*)
(* twice the values, so the branches of convert_type_fundamental convert     *)
(* between all of them exactly.                                              *)
THEOREM BitsConvertExactly ==
  ASSUME NEW to \in IntTypes, NEW from \in IntTypes, NEW n \in ValuesOf(from),
         to.values \in PowersOfTwo, from.values \in PowersOfTwo
  PROVE  /\ Accepted(to, from, n) <=> n \in ValuesOf(to)
         /\ Accepted(to, from, n) => Cast(to, n) = n
<1>1. WholeBits(to, from) /\ WholeBits(from, to)
  BY PowersApart DEF WholeBits
<1> QED BY <1>1, ConversionExact

-----------------------------------------------------------------------------
USE RegionAssumption, CellsAssumption

LEMMA WrapRange == ASSUME NEW n \in Int PROVE Wrap(n) \in Addresses
BY DEF Addresses, Wrap

LEMMA HomeRange ==
  /\ HomeMemory \subseteq Addresses /\ Null \notin HomeMemory /\ Null \in Addresses
  /\ RegionSize * Home \in Nat /\ RegionSize * Home >= RegionSize
  /\ 2 * RegionSize <= Modulus /\ 1 \in Sizes /\ 0 \in Sizes
BY DEF HomeMemory, Addresses, Null, Sizes

(* A region is an interval. *)
LEMMA SameSandbox ==
  ASSUME NEW p \in HomeMemory, NEW q \in Addresses
  PROVE  InSameSandbox(p, q) <=> q \in HomeMemory
<1>1. \A a \in Addresses : Region(a) = Home <=> a \in HomeMemory
  BY DEF Addresses, HomeMemory, Region
<1> QED BY <1>1, HomeRange DEF InSameSandbox

LEMMA HomeInterval ==
  ASSUME NEW p \in HomeMemory, NEW q \in HomeMemory
  PROVE  p..q \subseteq HomeMemory
BY DEF HomeMemory

(* A range of less than half the address space that passes the check is in   *)
(* the sandbox's memory: only a longer one can wrap around to it.            *)
LEMMA CheckedInside ==
  ASSUME NEW p \in HomeMemory, NEW size \in Nat \ {0}, size < Modulus \div 2,
         RangeChecked(p, Wrap(size))
  PROVE  p + size - 1 \in HomeMemory
<1>1. Wrap(size) = size
  BY DEF Wrap
<1>2. p + size - 1 \in Nat /\ p + size - 1 < 2 * Modulus
  BY HomeRange DEF Addresses
<1>3. RangeEnd(p, size) \in HomeMemory
  BY <1>1, <1>2, WrapRange, SameSandbox DEF RangeChecked, RangeEnd
<1>4. p + size - 1 < Modulus
  <2> SUFFICES ASSUME p + size - 1 >= Modulus PROVE FALSE
    BY <1>2
  <2>1. RangeEnd(p, size) = p + size - 1 - Modulus
    BY <1>1, <1>2 DEF RangeEnd, Wrap, HomeMemory
  <2> QED BY <1>3, <2>1, HomeRange DEF HomeMemory
<1>5. RangeEnd(p, size) = p + size - 1
  BY <1>2, <1>4 DEF RangeEnd, Wrap
<1> QED BY <1>3, <1>5

-----------------------------------------------------------------------------
(* Type correctness, and what is known of the call at each of its steps.     *)

Active == pc \in {"strlen", "check", "copy"}

(* The request: strings are of chars, a pointee is one element, and a null   *)
(* pointer of the application's own ends the call at its first test.         *)
RequestOK ==
  /\ Active => outcome = "none" /\ call.kind # "load"
  /\ call.kind # "load" => call.ptr \in Targets \union {Null}
  /\ call.kind \in Strings => call.cells = 1
  /\ pc = "strlen" => call.kind \in Strings
  /\ pc = "check" => call.kind \in Strings \union {"range"}
  /\ Active /\ call.kind \in Strings /\ ~call.volatile => call.ptr # Null

(* The bounds: a string is measured from a proper pointer without wrapping,  *)
(* and what is copied was checked, by verify_range_helper or by the null test *)
(* of copy_and_verify.                                                       *)
BoundsOK ==
  /\ pc = "strlen" => call.start \in HomeMemory /\ call.start + call.count < Modulus
  /\ pc = "check" /\ call.kind \in Strings =>
       call.start \in HomeMemory /\ call.count # 0 /\ call.start + call.count <= Modulus
  /\ pc = "copy" =>
       /\ call.start \in HomeMemory /\ call.count # 0
       /\ call.kind # "pointee" => call.start + ByteCount - 1 \in HomeMemory
       /\ call.kind = "pointee" => call.count = 1
       /\ ~call.volatile => call.ptr # Null
       /\ Len(copy) <= Length
  /\ pc # "copy" /\ Active => copy = << >>

Inv == TypeOK /\ RequestOK /\ BoundsOK

LEMMA NoCallOK ==
  /\ NoCall \in Calls /\ NoCall.kind = "load"
  /\ \A a \in Addresses : [NoCall EXCEPT !.ptr = a] \in Calls /\ [NoCall EXCEPT !.ptr = a].kind = "load"
BY HomeRange DEF NoCall, Calls, Kinds

LEMMA InitInv == Init => Inv
<1> SUFFICES ASSUME Init PROVE Inv
  OBVIOUS
<1>1. TypeOK
  <2>1. mem \in [HomeMemory -> 0..(CellValues - 1)]
    BY DEF Init
  <2>2. stored \in [StoreTargets -> Int \union {NoValue}] /\ slot \in Targets \union {Null}
    BY DEF Init
  <2> QED BY <2>1, <2>2, NoCallOK DEF Init, TypeOK, Steps, Outcomes
<1>2. RequestOK /\ BoundsOK
  BY NoCallOK DEF Init, RequestOK, BoundsOK, Active, Strings
<1> QED BY <1>1, <1>2 DEF Inv

LEMMA PointerInHome == ASSUME TypeOK, RequestOK, Active PROVE Pointer \in HomeMemory \union {Null}
BY DEF TypeOK, RequestOK, Pointer, PointerOf

LEMMA LibraryInv == ASSUME Inv, Library PROVE Inv'
<1>1. ASSUME NEW a \in HomeMemory, NEW bits \in LibraryBits, LibraryWrites(a, bits) PROVE Inv'
  <2> USE <1>1 DEF LibraryWrites
  <2>1. TypeOK'
    BY DEF Inv, TypeOK
  <2>2. RequestOK' /\ BoundsOK'
    BY DEF Inv, RequestOK, BoundsOK, Active, ByteCount, Length
  <2> QED BY <2>1, <2>2 DEF Inv
<1>2. ASSUME NEW p \in Targets \union {Null}, PointerMoves(p) PROVE Inv'
  <2> USE <1>2 DEF PointerMoves
  <2>1. TypeOK'
    BY DEF Inv, TypeOK
  <2>2. RequestOK' /\ BoundsOK'
    BY DEF Inv, RequestOK, BoundsOK, Active, ByteCount, Length
  <2> QED BY <2>1, <2>2 DEF Inv
<1> QED BY <1>1, <1>2 DEF Library

LEMMA LongTypes ==
  /\ SandboxLong \in IntTypes /\ AppLong \in IntTypes /\ AssignedTypes \subseteq IntTypes
  /\ \A type \in AssignedTypes : WholeBits(SandboxLong, type) /\ WholeBits(type, SandboxLong)
  /\ WholeBits(SandboxLong, AppLong) /\ WholeBits(AppLong, SandboxLong)
<1> DEFINE h == CellValues \div 2
<1>1. CellValues = 2 * h /\ h \in Nat \ {0} /\ CellValues >= 2
  OBVIOUS
<1>2. CellValues * CellValues = 2 * (h * CellValues) /\ h * CellValues \in Nat \ {0}
  BY <1>1
<1>3. \A signed \in BOOLEAN :
        /\ [signed |-> signed, values |-> CellValues] \in IntTypes
        /\ [signed |-> signed, values |-> CellValues * CellValues] \in IntTypes
  BY <1>1, <1>2 DEF IntTypes
<1>4. AssignedTypes \subseteq IntTypes
  <2> SUFFICES ASSUME NEW type \in AssignedTypes PROVE type \in IntTypes
    OBVIOUS
  <2>1. type.signed \in BOOLEAN /\ type.values \in {CellValues, CellValues * CellValues}
    BY DEF AssignedTypes
  <2>2. type = [signed |-> type.signed, values |-> type.values]
    BY DEF AssignedTypes
  <2> QED BY <1>3, <2>1, <2>2
<1>5. 2 * CellValues <= CellValues * CellValues
  BY <1>1
<1>6. \A type \in AssignedTypes : type.values = CellValues \/ type.values = CellValues * CellValues
  BY DEF AssignedTypes
<1>7. SandboxLong \in AssignedTypes /\ AppLong \in AssignedTypes
  BY DEF SandboxLong, AppLong, AssignedTypes
<1>8. \A type \in AssignedTypes : WholeBits(SandboxLong, type) /\ WholeBits(type, SandboxLong)
  BY <1>5, <1>6 DEF WholeBits, SandboxLong
<1> QED BY <1>4, <1>7, <1>8

LEMMA CastInt == ASSUME NEW type \in IntTypes, NEW n \in Int PROVE Cast(type, n) \in ValuesOf(type)
<1> DEFINE v == type.values  h == type.values \div 2
<1>1. v \in Nat \ {0} /\ h \in Nat \ {0} /\ v = 2 * h /\ type.signed \in BOOLEAN
  BY Halves
<1> HIDE DEF v, h
<1>2. n % v \in 0..(v - 1)
  BY <1>1
<1> QED BY <1>1, <1>2 DEF Cast, ValuesOf, MinOf, MaxOf, v, h

LEMMA LongsInv == ASSUME Inv, Longs PROVE Inv'
<1>1. ASSUME NEW a \in StoreTargets, Load(a) PROVE Inv'
  <2> USE <1>1 DEF Load
  <2>1. mem[a] \in Int
    BY DEF Inv, TypeOK
  <2>2. Cast(AppLong, Cast(SandboxLong, mem[a])) \in Int
    BY <2>1, LongTypes, CastInt DEF ValuesOf
  <2>3. TypeOK'
    <3>1. copy' \in Seq(Int)
      BY <2>2
    <3>2. call' \in Calls /\ call'.kind = "load"
      BY NoCallOK, HomeRange
    <3> QED BY <3>1, <3>2 DEF Inv, TypeOK, Outcomes
  <2>4. RequestOK' /\ BoundsOK'
    BY DEF RequestOK, BoundsOK, Active, NoCall, Strings
  <2> QED BY <2>3, <2>4 DEF Inv
<1>2. ASSUME NEW a \in StoreTargets, NEW type \in AssignedTypes, NEW n \in StoreValues, Assign(a, type, n) PROVE Inv'
  <2> USE <1>2 DEF Assign
  <2>1. Bits(SandboxLong, Cast(SandboxLong, n)) \in 0..(CellValues - 1)
    <3>1. Cast(SandboxLong, n) \in Int
      BY LongTypes, CastInt DEF ValuesOf
    <3> QED BY <3>1 DEF Bits, SandboxLong
  <2>2. TypeOK'
    <3>1. mem' \in [HomeMemory -> 0..(CellValues - 1)] /\ stored' \in [StoreTargets -> Int \union {NoValue}]
      BY <2>1 DEF Inv, TypeOK
    <3> QED BY <3>1, NoCallOK DEF Inv, TypeOK, Outcomes
  <2>3. RequestOK' /\ BoundsOK'
    BY DEF RequestOK, BoundsOK, Active, NoCall, Strings
  <2> QED BY <2>2, <2>3 DEF Inv
<1> QED BY <1>1, <1>2 DEF Longs

LEMMA LeaveInv == ASSUME Inv, Leave PROVE Inv'
<1> USE DEF Leave
<1>1. TypeOK'
  BY NoCallOK DEF Inv, TypeOK, Outcomes
<1>2. RequestOK' /\ BoundsOK'
  BY NoCallOK DEF RequestOK, BoundsOK, Active, Strings
<1> QED BY <1>1, <1>2 DEF Inv

LEMMA BeginInv == ASSUME Inv, NEW c \in Requests, Begin(c) PROVE Inv'
<1> USE DEF Begin, Inv
<1>1. /\ c.kind \in Kinds \ {"load"} /\ c.volatile \in BOOLEAN /\ c.ptr \in Targets \union {Null}
      /\ c.count \in Sizes /\ c.cells \in ElementCells \union {1}
      /\ c.kind \in Strings => c.count = 0 /\ c.cells = 1
      /\ c.kind = "pointee" => c.count = 1
      /\ c = [kind |-> c.kind, volatile |-> c.volatile, ptr |-> c.ptr, count |-> c.count,
              cells |-> c.cells, start |-> c.start]
  BY HomeRange DEF Requests
<1>2. PointerOf(c) \in HomeMemory \union {Null}
  BY <1>1 DEF PointerOf, TypeOK
<1>3. /\ call'.kind = c.kind /\ call'.volatile = c.volatile /\ call'.ptr = c.ptr
      /\ call'.count = c.count /\ call'.cells = c.cells
      /\ call'.start = IF c.kind = "range" THEN Null ELSE PointerOf(c)
  BY <1>1
<1>4. call' \in Calls
  BY <1>1, <1>2, <1>3, HomeRange DEF Calls
<1>5. pc' \in Steps /\ outcome' \in Outcomes
  BY <1>1 DEF FirstStep, Steps, Outcomes, Kinds, Strings, TypeOK
<1>6. TypeOK'
  BY <1>1, <1>3, <1>4, <1>5 DEF TypeOK, Sizes
<1>7. RequestOK'
  BY <1>1, <1>3 DEF RequestOK, Active, FirstStep, Kinds, Strings, PointerOf
<1>8. BoundsOK'
  <2>1. pc' = "strlen" => c.kind \in Strings /\ PointerOf(c) # Null
    BY <1>1 DEF FirstStep, Kinds, Strings
  <2>2. pc' = "check" => c.kind = "range"
    BY <1>1 DEF FirstStep, Kinds, Strings
  <2>3. pc' = "copy" => c.kind = "pointee" /\ PointerOf(c) # Null
    BY <1>1 DEF FirstStep, Kinds, Strings
  <2>4. PointerOf(c) # Null => PointerOf(c) \in HomeMemory /\ PointerOf(c) \in 0..(Modulus - 1)
    BY <1>2, HomeRange DEF Addresses
  <2>5. pc' = "strlen" => call'.start \in HomeMemory /\ call'.start + call'.count < Modulus
    BY <1>1, <1>3, <2>1, <2>4 DEF Strings
  <2>6. pc' = "copy" /\ ~call'.volatile => call'.ptr # Null
    BY <1>3, <2>3 DEF PointerOf
  <2>7. pc' = "copy" => Len(copy') <= Length' /\ call'.start \in HomeMemory
    BY <1>1, <1>3, <2>3, <2>4 DEF Length
  <2> QED BY <1>1, <1>3, <2>2, <2>3, <2>5, <2>6, <2>7 DEF BoundsOK, Strings, Active
<1> QED BY <1>6, <1>7, <1>8

LEMMA StrlenInv == ASSUME Inv, Strlen PROVE Inv'
<1> USE DEF Strlen, Inv
<1>1. /\ call \in Calls /\ call.kind \in Strings /\ call.start \in HomeMemory
      /\ call.start \in Nat /\ call.start > 0 /\ call.count \in Nat
      /\ call.start + call.count < Modulus /\ copy = << >> /\ outcome = "none"
  BY HomeRange DEF TypeOK, RequestOK, BoundsOK, Active, Calls, Sizes, Addresses, Null
<1>2. CASE UNCHANGED call /\ Ends("overrun")
  BY <1>1, <1>2 DEF TypeOK, RequestOK, BoundsOK, Active, Ends, Steps, Outcomes
<1>3. CASE /\ call' = [call EXCEPT !.count = @ + 1]
           /\ \/ Continue("check")
              \/ Continue("strlen") /\ call.start + call.count < Modulus - 1
  <2>1. /\ call' \in Calls /\ call'.count = call.count + 1 /\ call'.start = call.start
        /\ call'.kind = call.kind /\ call'.cells = call.cells /\ call'.ptr = call.ptr
        /\ call'.volatile = call.volatile
    BY <1>1, <1>3 DEF Calls, Sizes
  <2>2. TypeOK'
    BY <1>1, <1>3, <2>1 DEF TypeOK, Continue, Steps
  <2>3. RequestOK' /\ BoundsOK'
    BY <1>1, <1>3, <2>1 DEF RequestOK, BoundsOK, Active, Continue
  <2> QED BY <2>2, <2>3
<1> QED BY <1>2, <1>3 DEF StrLen, Ends

LEMMA CheckNullInv == ASSUME Inv, CheckNull PROVE Inv'
<1> USE DEF CheckNull, Inv, Returns, Ends
<1>1. TypeOK'
  BY DEF TypeOK, Steps, Outcomes
<1>2. RequestOK' /\ BoundsOK'
  BY DEF RequestOK, BoundsOK, Active
<1> QED BY <1>1, <1>2

LEMMA CheckRangeInv == ASSUME Inv, CheckRange PROVE Inv'
<1> USE DEF CheckRange, Inv
<1>1. CASE (Returns("refused") /\ UNCHANGED copy) \/ Ends("aborted")
  BY <1>1 DEF TypeOK, RequestOK, BoundsOK, Active, Returns, Ends, Steps, Outcomes
<1>2. CASE /\ call.count # 0 /\ RangeChecked(Pointer, Wrap(ByteCount)) /\ Allocatable
           /\ call' = [call EXCEPT !.start = Pointer] /\ Continue("copy")
  <2>1. Pointer \in HomeMemory /\ Pointer \in Addresses
    BY <1>2, PointerInHome, HomeRange DEF Active, RangeChecked
  <2>2. /\ call \in Calls /\ call.count \in Nat \ {0} /\ call.cells \in {1, 2}
        /\ copy = << >> /\ outcome = "none" /\ call.kind \in Strings \union {"range"}
    BY <1>2 DEF TypeOK, RequestOK, BoundsOK, Active, Calls, Sizes
  <2>3. /\ call' \in Calls /\ call'.count = call.count /\ call'.start = Pointer
        /\ call'.kind = call.kind /\ call'.cells = call.cells /\ call'.ptr = call.ptr
        /\ call'.volatile = call.volatile
    BY <1>2, <2>1, <2>2 DEF Calls
  <2>4. ByteCount \in Nat \ {0}
    BY <2>2 DEF ByteCount
  <2>5. Pointer + ByteCount - 1 \in HomeMemory
    BY <1>2, <2>1, <2>4, CheckedInside DEF Allocatable
  <2>6. ~call.volatile => call.ptr # Null
    BY <2>1, HomeRange DEF Pointer, PointerOf
  <2>7. TypeOK'
    BY <1>2, <2>2, <2>3 DEF TypeOK, Continue, Steps
  <2>8. RequestOK'
    BY <1>2, <2>2, <2>3, <2>6 DEF RequestOK, Continue, Active, Strings
  <2>9. ByteCount' = ByteCount /\ Length' = Length /\ Len(copy') <= Length
    BY <2>2, <2>3 DEF ByteCount, Length
  <2>10. BoundsOK'
    BY <1>2, <2>1, <2>2, <2>3, <2>5, <2>6, <2>9 DEF BoundsOK, Continue, Strings
  <2> QED BY <2>7, <2>8, <2>10
<1> QED BY <1>1, <1>2

LEMMA CallTypes ==
  ASSUME call \in Calls
  PROVE  call.cells \in {1, 2} /\ call.count \in Nat /\ call.start \in Addresses
<1>1. call.cells \in ElementCells \union {1} /\ call.count \in Sizes /\ call.start \in Addresses
  BY DEF Calls
<1>2. Sizes \subseteq Nat
  BY DEF Sizes
<1> QED BY <1>1, <1>2

LEMMA CopyElementInv == ASSUME Inv, CopyElement PROVE Inv'
<1> USE DEF CopyElement, Inv
<1>1. CASE (Returns("refused") /\ UNCHANGED copy) \/ Ends("strayed")
  BY <1>1 DEF TypeOK, RequestOK, BoundsOK, Active, Returns, Ends, Steps, Outcomes
<1>2. CASE /\ Source..(Source + call.cells - 1) \subseteq HomeMemory
           /\ copy' = Append(copy, Element(Source)) /\ Continue("copy") /\ UNCHANGED call
  <2>1. /\ copy \in Seq(Int) /\ call \in Calls /\ pc = "copy" /\ call.kind # "load"
        /\ Len(copy) \in Nat
    BY DEF TypeOK, RequestOK, Active
  <2>2. call.cells \in {1, 2} /\ call.count \in Nat /\ call.start \in Addresses
    BY <2>1, CallTypes
  <2>3. Source \in HomeMemory /\ (call.cells = 2 => Source + 1 \in HomeMemory)
    <3>1. Pointer \in Addresses
      BY <2>1, PointerInHome, HomeRange DEF Active
    <3>2. Pointer + Len(copy) \in Int /\ call.start + Len(copy) \in Int
      <4>1. Pointer \in Int /\ call.start \in Int /\ Len(copy) \in Int
        BY <2>1, <2>2, <3>1 DEF Addresses
      <4> HIDE <1>2
      <4> QED BY <4>1
    <3>3. Wrap(Pointer + Len(copy)) \in Int
      BY <3>2, WrapRange DEF Addresses
    <3>4. Source \in Int
      BY <3>2, <3>3 DEF Source
    <3>5. Source \in Source..(Source + call.cells - 1)
      BY <2>2, <3>4
    <3>6. call.cells = 2 => Source + 1 \in Source..(Source + call.cells - 1)
      BY <3>4
    <3> QED BY <1>2, <3>5, <3>6
  <2>4. Element(Source) \in Int
    BY <2>2, <2>3 DEF Element, TypeOK
  <2>5. copy' \in Seq(Int) /\ Len(copy') = Len(copy) + 1
    BY <1>2, <2>1, <2>4
  <2>6. Length' = Length /\ ByteCount' = ByteCount /\ Length <= call.count /\ Len(copy) < Length
    BY <1>2, <2>1, <2>2 DEF Length, ByteCount
  <2>7. TypeOK'
    BY <1>2, <2>1, <2>2, <2>5, <2>6 DEF TypeOK, Continue, Steps, Length
  <2>8. RequestOK'
    BY <1>2 DEF RequestOK, Continue, Active
  <2>9. BoundsOK'
    BY <1>2, <2>1, <2>2, <2>5, <2>6 DEF BoundsOK, Continue, Active, Length
  <2> QED BY <2>7, <2>8, <2>9
<1> QED BY <1>1, <1>2

LEMMA TerminateKeeps ==
  ASSUME copy \in Seq(Int)
  PROVE  /\ Terminate \in Seq(Int) /\ Len(Terminate) = Len(copy)
         /\ call.kind = "unique" /\ copy # << >> => Terminate[Len(copy)] = 0
<1>1. CASE copy = << >>
  <2>1. [copy EXCEPT ![Len(copy)] = 0] = copy
    BY <1>1
  <2> QED BY <1>1, <2>1 DEF Terminate
<1>2. CASE copy # << >>
  <2>1. Len(copy) \in 1..Len(copy) /\ 0 \in Int
    BY <1>2
  <2>2. [copy EXCEPT ![Len(copy)] = 0] \in Seq(Int) /\ Len([copy EXCEPT ![Len(copy)] = 0]) = Len(copy)
    BY <2>1, ExceptSeq
  <2>3. [copy EXCEPT ![Len(copy)] = 0][Len(copy)] = 0
    BY <2>1
  <2> QED BY <2>2, <2>3 DEF Terminate
<1> QED BY <1>1, <1>2

LEMMA VerifyInv == ASSUME Inv, Verify PROVE Inv'
<1> USE DEF Verify, Inv, Returns
<1>1. copy' \in Seq(Int) /\ Len(copy') = Len(copy)
  BY TerminateKeeps DEF TypeOK
<1>2. TypeOK'
  BY <1>1 DEF TypeOK, Steps, Outcomes
<1>3. RequestOK' /\ BoundsOK'
  BY DEF RequestOK, BoundsOK, Active
<1> QED BY <1>2, <1>3

LEMMA InvStep == Inv /\ [Next]_vars => Inv'
<1> SUFFICES ASSUME Inv, [Next]_vars PROVE Inv'
  OBVIOUS
<1>1. CASE UNCHANGED vars
  BY <1>1 DEF vars, Inv, TypeOK, RequestOK, BoundsOK, Active, ByteCount, Length
<1>2. CASE Next
  BY <1>2, LibraryInv, LeaveInv, LongsInv, BeginInv, StrlenInv, CheckNullInv, CheckRangeInv, CopyElementInv, VerifyInv
     DEF Next, Copying
<1> QED BY <1>1, <1>2

LEMMA InvHolds == Spec => []Inv
BY InitInv, InvStep, PTL DEF Spec

(* The state keeps its types, and the copy never outgrows its allocation,    *)
(* for every address space and every width of integers.                      *)
THEOREM TypeCorrect == Spec => []TypeOK
BY InvHolds, PTL DEF Inv

-----------------------------------------------------------------------------
(* What can end the process, and how a call ends otherwise.                  *)

Ended == outcome \in {"strayed", "aborted", "overrun"} => pc = "over"

(* Elements are in the memory that was checked, while the pointer is proper. *)
LEMMA SourceInside ==
  ASSUME Inv, pc = "copy", Len(copy) < Length, call.cells = 1, ~IndexRefused,
         Source \notin HomeMemory
  PROVE  call.volatile /\ slot = Null /\ Rereads
<1>1. /\ Len(copy) \in Nat /\ call.count \in Nat /\ call.start \in HomeMemory
      /\ call.start \in Int /\ Pointer \in Addresses /\ Pointer \in Int
  <2>1. call \in Calls /\ Len(copy) \in Nat /\ call.start \in HomeMemory
    BY DEF Inv, TypeOK, BoundsOK
  <2>2. Pointer \in Addresses
    BY PointerInHome, HomeRange DEF Inv, Active
  <2>3. Addresses \subseteq Int
    BY DEF Addresses
  <2> QED BY <2>1, <2>2, <2>3, CallTypes
<1>2. CASE ~Rereads
  <2>1. Source = call.start + Len(copy)
    BY <1>2 DEF Source
  <2>2. CASE call.kind = "pointee"
    <3>1. Length = 1
      BY <2>2 DEF Length, Inv, BoundsOK
    <3> QED BY <1>1, <2>1, <3>1
  <2>3. CASE call.kind # "pointee"
    <3>1. call.kind = "string" /\ call.start + call.count - 1 \in HomeMemory
      <4>1. call.kind = "string"
        BY <1>2, <2>3 DEF Rereads, Inv, TypeOK, RequestOK, Active, Calls, Kinds
      <4>2. ByteCount = call.count
        BY <1>1 DEF ByteCount
      <4> QED BY <2>3, <4>1, <4>2 DEF Inv, BoundsOK
    <3>2. Len(copy) < call.count - 1
      BY <3>1 DEF Length
    <3> QED BY <1>1, <2>1, <3>1, <3>2 DEF HomeMemory
  <2> QED BY <2>2, <2>3
<1>3. CASE Rereads
  <2>1. Source \in Addresses
    BY <1>1, <1>3, WrapRange DEF Source
  <2>2. Pointer \notin HomeMemory
    BY <1>3, <2>1, SameSandbox DEF IndexRefused
  <2>3. Pointer = Null
    BY <2>2, PointerInHome DEF Inv, Active
  <2> QED BY <1>3, <2>3 DEF Inv, BoundsOK, Pointer, PointerOf
<1> QED BY <1>2, <1>3

(* What was checked is still what is copied, if nobody moved the pointer.    *)
StartKept ==
  pc = "copy" /\ (~call.volatile \/ "pointer" \notin dirty) => call.start = Pointer

LEMMA StartKeptStep == Inv /\ StartKept /\ [Next]_vars => StartKept'
<1> SUFFICES ASSUME Inv, StartKept, [Next]_vars PROVE StartKept'
  OBVIOUS
<1> USE DEF StartKept
<1>0. pc' = "copy" /\ UNCHANGED <<pc, call, slot, dirty>> => StartKept'
  BY DEF Pointer, PointerOf
<1>1. CASE UNCHANGED vars
  BY <1>1, <1>0 DEF vars
<1>2. CASE Library
  BY <1>2, <1>0 DEF Library, LibraryWrites, PointerMoves, Pointer, PointerOf
<1>3. CASE Longs \/ Leave
  <2>1. pc' # "copy"
    BY <1>3 DEF Longs, Load, Assign, Leave
  <2> QED BY <2>1
<1>4. ASSUME NEW c \in Requests, Begin(c) PROVE StartKept'
  <2>1. pc' = "copy" => c.kind # "range"
    BY <1>4 DEF Begin, FirstStep
  <2>2. /\ call'.volatile = c.volatile /\ call'.ptr = c.ptr /\ slot' = slot
        /\ c.kind # "range" => call'.start = PointerOf(c)
    BY <1>4 DEF Begin, Requests
  <2>3. Pointer' = PointerOf(c)
    BY <2>2 DEF Pointer, PointerOf
  <2> QED BY <2>1, <2>2, <2>3
<1>5. CASE Strlen \/ CheckNull \/ Verify
  <2>1. pc' # "copy"
    BY <1>5 DEF Strlen, CheckNull, Verify, Continue, Returns, Ends
  <2> QED BY <2>1
<1>6. CASE CheckRange
  <2>1. pc' = "copy" => call' = [call EXCEPT !.start = Pointer] /\ slot' = slot
    BY <1>6 DEF CheckRange, Returns, Ends, Continue
  <2>2. pc' = "copy" => call'.start = Pointer /\ Pointer' = Pointer
    BY <2>1 DEF Inv, TypeOK, Calls, Pointer, PointerOf
  <2> QED BY <2>2
<1>7. CASE CopyElement
  <2>1. pc' = "copy" => UNCHANGED <<pc, call, slot, dirty>>
    BY <1>7 DEF CopyElement, Continue, Returns, Ends
  <2> QED BY <1>0, <2>1
<1> QED BY <1>1, <1>2, <1>3, <1>4, <1>5, <1>6, <1>7 DEF Next, Copying

(* The range that is checked is as many of the application's elements; the   *)
(* copy goes from one of the sandbox's to the next, and takes in one more.   *)
LEMMA WideInside ==
  ASSUME Inv, StartKept, pc = "copy", Len(copy) < Length, call.cells = 2, call.kind # "pointee",
         ~call.volatile \/ "pointer" \notin dirty
  PROVE  Source..(Source + call.cells - 1) \subseteq HomeMemory
<1>1. /\ call \in Calls /\ Len(copy) \in Nat /\ call.start \in HomeMemory
      /\ call.start + ByteCount - 1 \in HomeMemory /\ call.start = Pointer
  BY DEF Inv, TypeOK, BoundsOK, StartKept
<1>2. call.kind = "range"
  BY <1>1 DEF Inv, RequestOK, Active, Calls, Kinds, Strings
<1>3. call.count \in Nat /\ Len(copy) < call.count /\ ByteCount = 2 * call.count
  <2>1. call.count \in Nat
    BY <1>1, CallTypes
  <2> QED BY <1>2, <2>1 DEF Length, ByteCount
<1> DEFINE a == call.start + Len(copy)
<1>4. a \in HomeMemory /\ a + 1 \in HomeMemory /\ Source = Wrap(a)
  <2>1. a <= call.start + ByteCount - 1 /\ a + 1 <= call.start + ByteCount - 1 /\ a \in Int
    BY <1>1, <1>3 DEF HomeMemory
  <2>2. Source = Wrap(a)
    BY <1>1, <1>2 DEF Source, Rereads
  <2> QED BY <1>1, <2>1, <2>2 DEF HomeMemory
<1>5. Source = a
  <2>1. a \in Addresses
    BY <1>4, HomeRange
  <2> HIDE DEF a
  <2> QED BY <1>4, <2>1 DEF Wrap, Addresses
<1> HIDE DEF a
<1> QED BY <1>4, <1>5, HomeInterval DEF HomeMemory

LEMMA StraysStep ==
  Inv /\ StartKept /\ Ended /\ StraysOnlyIfTakenAway /\ [Next]_vars
    => Ended' /\ StraysOnlyIfTakenAway'
<1> SUFFICES ASSUME Inv, StartKept, Ended, StraysOnlyIfTakenAway, [Next]_vars
             PROVE  Ended' /\ StraysOnlyIfTakenAway'
  OBVIOUS
<1>1. CASE UNCHANGED vars
  BY <1>1 DEF vars, Ended, StraysOnlyIfTakenAway, Rereads
<1>2. CASE Library
  BY <1>2 DEF Library, LibraryWrites, PointerMoves, Ended, StraysOnlyIfTakenAway
<1>3. CASE Longs \/ Leave
  BY <1>3 DEF Longs, Load, Assign, Leave, Ended, StraysOnlyIfTakenAway
<1>4. ASSUME NEW c \in Requests, Begin(c) PROVE Ended' /\ StraysOnlyIfTakenAway'
  BY <1>4 DEF Begin, Ended, StraysOnlyIfTakenAway
<1>5. CASE Strlen
  BY <1>5 DEF Strlen, Continue, Ends, Ended, StraysOnlyIfTakenAway, Inv, RequestOK, Active
<1>6. CASE CheckNull
  <2>1. outcome' = "strayed" =>
          pc' = "over" /\ call.kind = "unique" /\ slot' = slot /\ call' = call /\ Pointer = Null
    BY <1>6 DEF CheckNull, Returns, Ends
  <2>2. call.kind = "unique" /\ ~call.volatile => call.ptr # Null
    BY <1>6 DEF CheckNull, Inv, RequestOK, Active, Strings
  <2>3. StraysOnlyIfTakenAway'
    BY <2>1, <2>2 DEF StraysOnlyIfTakenAway, Rereads, Pointer, PointerOf
  <2> QED BY <1>6, <2>3 DEF CheckNull, Returns, Ends, Ended
<1>7. CASE CheckRange
  BY <1>7 DEF CheckRange, Returns, Continue, Ends, Ended, StraysOnlyIfTakenAway, Inv, RequestOK, Active
<1>8. CASE CopyElement
  <2>1. outcome' = "strayed" =>
          /\ pc' = "over" /\ slot' = slot /\ call' = call /\ ~IndexRefused
          /\ ~(Source..(Source + call.cells - 1) \subseteq HomeMemory)
    BY <1>8 DEF CopyElement, Returns, Continue, Ends, Inv, RequestOK, Active
  <2>2. outcome' = "strayed" /\ call.cells = 1 => Source \notin HomeMemory
    <3> SUFFICES ASSUME outcome' = "strayed", call.cells = 1, Source \in HomeMemory PROVE FALSE
      OBVIOUS
    <3>1. Source..(Source + call.cells - 1) \subseteq HomeMemory
      BY HomeInterval DEF HomeMemory
    <3> QED BY <2>1, <3>1
  <2>3. outcome' = "strayed" /\ call.cells = 1 => call.volatile /\ slot = Null /\ Rereads
    BY <1>8, <2>1, <2>2, SourceInside DEF CopyElement
  <2>4. outcome' = "strayed" /\ call.cells = 2 =>
          call.kind = "pointee" \/ (call.volatile /\ "pointer" \in dirty)
    BY <1>8, <2>1, WideInside DEF CopyElement
  <2>5. outcome' = "strayed" => call.cells \in {1, 2} /\ dirty' = dirty
    BY <1>8, CallTypes DEF CopyElement, Returns, Continue, Ends, Inv, RequestOK, Active, TypeOK
  <2>6. StraysOnlyIfTakenAway'
    BY <2>1, <2>3, <2>4, <2>5 DEF StraysOnlyIfTakenAway, Rereads
  <2>7. Ended'
    BY <1>8 DEF CopyElement, Returns, Continue, Ends, Inv, RequestOK, Active, Ended
  <2> QED BY <2>6, <2>7
<1>9. CASE Verify
  BY <1>9 DEF Verify, Returns, Ended, StraysOnlyIfTakenAway
<1> QED BY <1>1, <1>2, <1>3, <1>4, <1>5, <1>6, <1>7, <1>8, <1>9 DEF Next, Copying

(* Whatever library code does between the steps of the call, elements are    *)
(* read from the sandbox's memory, unless it takes the pointer away that the *)
(* call reads again, or they are wider than the sandbox's and are read       *)
(* without a check of their range, or after the pointer was moved.           *)
THEOREM StraysJustified == Spec => []StraysOnlyIfTakenAway
<1>1. Init => StartKept /\ Ended /\ StraysOnlyIfTakenAway
  BY DEF Init, StartKept, Ended, StraysOnlyIfTakenAway
<1> QED BY <1>1, InvHolds, StartKeptStep, StraysStep, PTL DEF Spec

-----------------------------------------------------------------------------
(* The terminator of a copied string.                                        *)

(* Only Verify ends a call for a unique_ptr with a copy.                     *)
LEMMA TerminatedStep == Inv /\ AlwaysTerminated /\ [Next]_vars => AlwaysTerminated'
<1> SUFFICES ASSUME Inv, AlwaysTerminated, [Next]_vars PROVE AlwaysTerminated'
  OBVIOUS
<1> USE DEF AlwaysTerminated
<1>1. CASE UNCHANGED vars
  BY <1>1 DEF vars
<1>2. CASE Library
  BY <1>2 DEF Library, LibraryWrites, PointerMoves
<1>3. CASE Longs \/ Leave
  BY <1>3, NoCallOK, HomeRange DEF Longs, Load, Assign, Leave, Inv, TypeOK
<1>4. ASSUME NEW c \in Requests, Begin(c) PROVE AlwaysTerminated'
  <2>1. outcome' = "copy" => c.kind = "string"
    BY <1>4 DEF Begin
  <2>2. call'.kind = c.kind
    BY <1>4 DEF Begin, Requests
  <2> QED BY <2>1, <2>2
<1>5. CASE Strlen \/ CheckRange \/ CopyElement
  BY <1>5 DEF Strlen, CheckRange, CopyElement, Returns, Continue, Ends, Inv, RequestOK, Active
<1>6. CASE CheckNull
  BY <1>6 DEF CheckNull, Returns, Ends
<1>7. CASE Verify
  <2>1. /\ copy \in Seq(Int) /\ Len(copy) >= Length /\ call.count # 0 /\ call.count \in Nat
        /\ copy' = Terminate /\ call' = call
    BY <1>7, CallTypes DEF Verify, Returns, Inv, TypeOK, BoundsOK
  <2>2. call.kind = "unique" => copy # << >> /\ Len(copy) # 0 /\ Len(copy) \in Nat
    BY <2>1 DEF Length
  <2>3. call.kind = "unique" => Terminate[Len(copy)] = 0 /\ Len(Terminate) = Len(copy)
    BY <2>1, <2>2, TerminateKeeps
  <2>4. call.kind = "unique" => copy' # << >> /\ copy'[Len(copy')] = 0
    BY <2>1, <2>2, <2>3
  <2> QED BY <2>1, <2>4
<1> QED BY <1>1, <1>2, <1>3, <1>4, <1>5, <1>6, <1>7 DEF Next, Copying

(* Library code cannot make the verifier of a unique_ptr see a string that   *)
(* does not end, however often it rewrites the text during the call.         *)
THEOREM StringsTerminated == Spec => []AlwaysTerminated
<1>1. Init => AlwaysTerminated
  BY DEF Init, AlwaysTerminated
<1> QED BY <1>1, InvHolds, TerminatedStep, PTL DEF Spec

-----------------------------------------------------------------------------
(* Assigned numbers.                                                         *)

(* A cell holds the bits of the number that was assigned to it, and a load   *)
(* is of a long that the application assigns to.                             *)
StoredBits ==
  \A a \in StoreTargets : stored[a] # NoValue =>
    /\ stored[a] \in ValuesOf(SandboxLong)
    /\ mem[a] = Bits(SandboxLong, stored[a])

LoadOK == outcome = "copy" /\ call.kind = "load" => pc = "idle" /\ call.ptr \in StoreTargets

(* A number of the sandbox's long survives the way to memory and back.       *)
LEMMA RoundTrip ==
  ASSUME NEW n \in ValuesOf(SandboxLong)
  PROVE  Cast(AppLong, Cast(SandboxLong, Bits(SandboxLong, n))) = n
<1>1. n \in Int /\ SandboxLong.values = CellValues
  BY DEF ValuesOf, SandboxLong
<1>2. (n % CellValues) % CellValues = n % CellValues
  BY <1>1
<1>3. Cast(SandboxLong, Bits(SandboxLong, n)) = Cast(SandboxLong, n)
  BY <1>1, <1>2 DEF Cast, Bits
<1>4. Cast(SandboxLong, n) = n
  BY LongTypes, CastKeeps
<1>5. n \in ValuesOf(AppLong)
  <2>1. Accepted(AppLong, SandboxLong, n)
    <3>1. CellValues * CellValues >= CellValues
      OBVIOUS
    <3> QED BY <3>1 DEF Accepted, Widens, AppLong, SandboxLong
  <2> QED BY <2>1, LongTypes, ConversionExact
<1>6. Cast(AppLong, n) = n
  BY <1>5, LongTypes, CastKeeps
<1> QED BY <1>3, <1>4, <1>6

LEMMA StoredStep ==
  Inv /\ StoredBits /\ LoadOK /\ StoredIsRead /\ [Next]_vars
    => StoredBits' /\ LoadOK' /\ StoredIsRead'
<1> SUFFICES ASSUME Inv, StoredBits, LoadOK, StoredIsRead, [Next]_vars
             PROVE  StoredBits' /\ LoadOK' /\ StoredIsRead'
  OBVIOUS
<1> USE DEF StoredBits, LoadOK, StoredIsRead
<1>1. CASE UNCHANGED vars
  BY <1>1 DEF vars
<1>2. ASSUME NEW a \in HomeMemory, NEW bits \in LibraryBits, LibraryWrites(a, bits)
      PROVE  StoredBits' /\ LoadOK' /\ StoredIsRead'
  <2>1. \A b \in StoreTargets : stored'[b] = NoValue \/ (b # a /\ stored'[b] = stored[b] /\ mem'[b] = mem[b])
    BY <1>2 DEF LibraryWrites, Inv, TypeOK
  <2> QED BY <1>2, <2>1 DEF LibraryWrites
<1>3. ASSUME NEW p \in Targets \union {Null}, PointerMoves(p)
      PROVE  StoredBits' /\ LoadOK' /\ StoredIsRead'
  BY <1>3 DEF PointerMoves
<1>4. ASSUME NEW a \in StoreTargets, Load(a) PROVE StoredBits' /\ LoadOK' /\ StoredIsRead'
  <2>1. call'.ptr = a
    BY <1>4 DEF Load, NoCall
  <2>2. stored[a] # NoValue => Cast(AppLong, Cast(SandboxLong, mem[a])) = stored[a]
    BY RoundTrip
  <2> QED BY <1>4, <2>1, <2>2 DEF Load
<1>5. ASSUME NEW a \in StoreTargets, NEW type \in AssignedTypes, NEW n \in StoreValues, Assign(a, type, n)
      PROVE  StoredBits' /\ LoadOK' /\ StoredIsRead'
  <2>1. outcome' # "copy"
    BY <1>5 DEF Assign
  <2>2. CASE UNCHANGED <<mem, stored>>
    BY <2>1, <2>2
  <2>3. CASE /\ Accepted(SandboxLong, type, n)
             /\ mem' = [mem EXCEPT ![a] = Bits(SandboxLong, Cast(SandboxLong, n))]
             /\ stored' = [stored EXCEPT ![a] = n]
    <3>1. n \in ValuesOf(SandboxLong) /\ Cast(SandboxLong, n) = n
      BY <1>5, <2>3, LongTypes, ConversionExact DEF Assign
    <3>2. \A b \in StoreTargets : IF b = a THEN stored'[b] = n /\ mem'[b] = Bits(SandboxLong, n)
                                  ELSE stored'[b] = stored[b] /\ mem'[b] = mem[b]
      BY <2>3, <3>1 DEF Inv, TypeOK
    <3> QED BY <2>1, <3>1, <3>2
  <2> QED BY <1>5, <2>2, <2>3 DEF Assign
<1>6. ASSUME NEW c \in Requests, Begin(c) PROVE StoredBits' /\ LoadOK' /\ StoredIsRead'
  <2>1. c.kind # "load" /\ call'.kind = c.kind
    BY <1>6 DEF Begin, Requests
  <2> QED BY <1>6, <2>1 DEF Begin
<1>7. CASE Strlen \/ CheckRange \/ CheckNull \/ CopyElement \/ Verify
  <2>1. UNCHANGED <<mem, stored>>
    BY <1>7 DEF Strlen, CheckRange, CheckNull, CopyElement, Verify, Returns, Continue, Ends
  <2>2. call.kind # "load"
    BY <1>7 DEF Strlen, CheckRange, CheckNull, CopyElement, Verify, Inv, RequestOK, Active
  <2>3. call'.kind = call.kind
    BY <1>7 DEF Strlen, CheckRange, CheckNull, CopyElement, Verify, Returns, Continue, Ends, Inv, TypeOK, Calls
  <2> QED BY <2>1, <2>2, <2>3
<1>8. CASE Leave
  BY <1>8 DEF Leave
<1> QED BY <1>1, <1>2, <1>3, <1>4, <1>5, <1>6, <1>7, <1>8 DEF Next, Library, Longs, Copying

(* A long is read as the number that was assigned, for every width of long   *)
(* in the sandbox and every type of the application's number.                *)
THEOREM LongsSurvive == Spec => []StoredIsRead
<1>1. Init => StoredBits /\ LoadOK /\ StoredIsRead
  BY DEF Init, StoredBits, LoadOK, StoredIsRead
<1> QED BY <1>1, InvHolds, StoredStep, PTL DEF Spec

-----------------------------------------------------------------------------
(* Calls during which library code writes nothing.                           *)

QuietStart ==
  dirty = {} /\ Active /\ (call.kind \in Strings \/ pc = "copy") =>
    call.start = Pointer /\ Pointer \in HomeMemory

(* What strlen has seen is not null, but for the terminator that it found.   *)
QuietText ==
  /\ dirty = {} /\ pc = "strlen" =>
       \A a \in HomeMemory : call.start <= a /\ a < call.start + call.count => mem[a] # 0
  /\ dirty = {} /\ pc \in {"check", "copy"} /\ call.kind \in Strings =>
       \A a \in HomeMemory :
         /\ call.start <= a /\ a < call.start + call.count - 1 => mem[a] # 0
         /\ a = call.start + call.count - 1 => mem[a] = 0

QuietCopy ==
  dirty = {} /\ pc = "copy" => \A i \in 1..Len(copy) : copy[i] = Element(Pointer + i - 1)

Quiet == QuietStart /\ QuietText /\ QuietCopy

LEMMA QuietStep == Inv /\ Quiet /\ [Next]_vars => Quiet'
<1> SUFFICES ASSUME Inv, Quiet, [Next]_vars PROVE Quiet'
  OBVIOUS
<1>1. CASE UNCHANGED vars
  BY <1>1 DEF vars, Quiet, QuietStart, QuietText, QuietCopy, Active, Pointer, PointerOf, Element
<1>2. CASE Library
  <2>1. dirty' # {}
    BY <1>2 DEF Library, LibraryWrites, PointerMoves
  <2> QED BY <2>1 DEF Quiet, QuietStart, QuietText, QuietCopy
<1>3. CASE Longs \/ Leave
  <2>1. pc' = "idle"
    BY <1>3 DEF Longs, Load, Assign, Leave
  <2> QED BY <2>1 DEF Quiet, QuietStart, QuietText, QuietCopy, Active
<1>4. ASSUME NEW c \in Requests, Begin(c) PROVE Quiet'
  <2>1. /\ c.kind \in Kinds \ {"load"} /\ (c.kind \in Strings => c.count = 0)
        /\ c.volatile \in BOOLEAN /\ c.ptr \in Targets \union {Null}
    BY DEF Requests
  <2>2. /\ call'.kind = c.kind /\ call'.volatile = c.volatile /\ call'.ptr = c.ptr
        /\ call'.count = c.count /\ slot' = slot /\ copy' = << >>
        /\ call'.start = IF c.kind = "range" THEN Null ELSE PointerOf(c)
    BY <1>4 DEF Begin, Requests
  <2>3. Pointer' = PointerOf(c) /\ PointerOf(c) \in HomeMemory \union {Null}
    BY <2>1, <2>2 DEF Pointer, PointerOf, Inv, TypeOK
  <2>4. Active' => outcome' = "none"
    BY <1>4, InvStep DEF Inv, RequestOK, Next, Copying
  <2>5. Active' => (c.kind = "range" /\ pc' = "check") \/ PointerOf(c) # Null
    BY <1>4 DEF Begin, FirstStep, Active, Kinds, Strings
  <2>6. QuietStart'
    <3>1. pc' = "copy" => c.kind = "pointee"
      BY <1>4, <2>1 DEF Begin, FirstStep, Kinds, Strings
    <3> QED BY <2>1, <2>2, <2>3, <2>5, <3>1 DEF QuietStart, Strings
  <2>7. pc' = "strlen" => call'.start + call'.count = call'.start /\ call'.start \in Int
    <3>1. pc' = "strlen" => c.kind \in Strings /\ call'.start \in Addresses
      BY <1>4, <2>1, <2>2, <2>3, HomeRange DEF Begin, FirstStep, Kinds, Strings
    <3> QED BY <2>1, <2>2, <3>1 DEF Addresses
  <2>8. ~(pc' \in {"check", "copy"} /\ call'.kind \in Strings)
    BY <1>4, <2>2 DEF Begin, FirstStep, Kinds, Strings
  <2>9. QuietText'
    BY <2>7, <2>8 DEF QuietText, HomeMemory
  <2>10. QuietCopy'
    BY <2>2 DEF QuietCopy
  <2> QED BY <2>6, <2>9, <2>10 DEF Quiet
<1>5. CASE Strlen
  <2>1. CASE pc' = "over"
    BY <2>1 DEF Quiet, QuietStart, QuietText, QuietCopy, Active
  <2>2. CASE call' = [call EXCEPT !.count = @ + 1]
    <3>1. /\ call \in Calls /\ call.start \in Int /\ call.count \in Int /\ pc = "strlen"
          /\ call.kind \in Strings /\ copy' = copy /\ copy = << >>
      <4>1. call \in Calls /\ pc = "strlen" /\ copy' = copy
        BY <1>5 DEF Strlen, Inv, TypeOK
      <4>2. call.start \in Int /\ call.count \in Int
        BY <4>1, CallTypes DEF Addresses
      <4> QED BY <4>1, <4>2 DEF Inv, RequestOK, BoundsOK, Active
    <3>2. /\ call'.start = call.start /\ call'.count = call.count + 1 /\ call'.kind = call.kind
          /\ call'.volatile = call.volatile /\ call'.ptr = call.ptr
      BY <2>2, <3>1 DEF Calls
    <3>3. Pointer' = Pointer /\ mem' = mem /\ dirty' = dirty
      BY <1>5, <3>2 DEF Strlen, Continue, Ends, Pointer, PointerOf
    <3>4. QuietStart'
      BY <3>1, <3>2, <3>3 DEF Quiet, QuietStart, Active
    <3>5. \/ pc' = "check" /\ (call.start + call.count \in HomeMemory => mem[call.start + call.count] = 0)
          \/ pc' = "strlen" /\ (call.start + call.count \in HomeMemory => mem[call.start + call.count] # 0)
          \/ pc' = "over"
      BY <1>5 DEF Strlen, Continue, Ends
    <3>6. QuietText'
      <4> DEFINE a == call.start + call.count
      <4>1. call'.start + call'.count = a + 1 /\ a \in Int
        BY <3>1, <3>2
      <4>2. HomeMemory \subseteq Int
        BY DEF HomeMemory
      <4>3. dirty = {} => \A b \in HomeMemory : call.start <= b /\ b < a => mem[b] # 0
        BY <3>1 DEF Quiet, QuietText
      <4> HIDE DEF a
      <4>4. dirty = {} /\ pc' = "strlen" =>
              \A b \in HomeMemory : call.start <= b /\ b < a + 1 => mem[b] # 0
        <5>1. pc' = "strlen" => (a \in HomeMemory => mem[a] # 0)
          BY <3>5 DEF a
        <5> QED BY <4>1, <4>2, <4>3, <5>1
      <4>5. pc' = "check" => (a \in HomeMemory => mem[a] = 0)
        BY <3>5 DEF a
      <4>6. pc' # "copy" /\ call'.start = call.start /\ call'.start + call'.count - 1 = a
        <5>1. pc' # "copy"
          BY <3>5
        <5>2. call'.start + call'.count - 1 = call'.start + call'.count + (-1)
          BY <3>1, <3>2
        <5> QED BY <3>2, <4>1, <5>1, <5>2
      <4>7. (dirty = {} /\ pc = "strlen" =>
               \A b \in HomeMemory : call.start <= b /\ b < call.start + call.count => mem[b] # 0)'
        BY <3>3, <4>1, <4>4, <4>6
      <4>8. (dirty = {} /\ pc \in {"check", "copy"} /\ call.kind \in Strings =>
               \A b \in HomeMemory :
                 /\ call.start <= b /\ b < call.start + call.count - 1 => mem[b] # 0
                 /\ b = call.start + call.count - 1 => mem[b] = 0)'
        BY <3>3, <4>3, <4>5, <4>6
      <4> QED BY <4>7, <4>8 DEF QuietText
    <3>7. QuietCopy'
      BY <3>1 DEF QuietCopy
    <3> QED BY <3>4, <3>6, <3>7 DEF Quiet
  <2> QED BY <1>5, <2>1, <2>2 DEF Strlen, StrLen, Ends
<1>6. CASE CheckNull
  <2>1. ~Active'
    BY <1>6 DEF CheckNull, Returns, Ends, Active
  <2> QED BY <2>1 DEF Quiet, QuietStart, QuietText, QuietCopy, Active
<1>7. CASE CheckRange
  <2>1. CASE ~Active'
    BY <2>1 DEF Quiet, QuietStart, QuietText, QuietCopy, Active
  <2>2. CASE call' = [call EXCEPT !.start = Pointer] /\ Continue("copy")
             /\ RangeChecked(Pointer, Wrap(ByteCount))
    <3>1. /\ pc = "check" /\ call \in Calls /\ copy' = << >> /\ slot' = slot
          /\ mem' = mem /\ dirty' = dirty /\ pc' = "copy"
      BY <1>7, <2>2 DEF CheckRange, Continue, Inv, TypeOK, BoundsOK, Active
    <3>2. /\ call'.start = Pointer /\ call'.count = call.count /\ call'.kind = call.kind
          /\ call'.volatile = call.volatile /\ call'.ptr = call.ptr
      BY <2>2, <3>1 DEF Calls
    <3>3. Pointer' = Pointer /\ Pointer \in HomeMemory
      BY <2>2, <3>1, <3>2, PointerInHome DEF Pointer, PointerOf, Inv, Active, RangeChecked
    <3>4. QuietStart'
      BY <3>2, <3>3 DEF QuietStart
    <3>5. dirty = {} /\ call.kind \in Strings => call.start = Pointer
      BY <3>1 DEF Quiet, QuietStart, Active
    <3>6. QuietText'
      BY <3>1, <3>2, <3>5 DEF Quiet, QuietText
    <3>7. QuietCopy'
      BY <3>1 DEF QuietCopy
    <3> QED BY <3>4, <3>6, <3>7 DEF Quiet
  <2> QED BY <1>7, <2>1, <2>2 DEF CheckRange, Returns, Ends, Active
<1>8. CASE CopyElement
  <2>1. CASE ~Active'
    BY <2>1 DEF Quiet, QuietStart, QuietText, QuietCopy, Active
  <2>2. CASE /\ Source..(Source + call.cells - 1) \subseteq HomeMemory
             /\ copy' = Append(copy, Element(Source)) /\ Continue("copy") /\ UNCHANGED call
    <3>1. Pointer' = Pointer /\ mem' = mem /\ dirty' = dirty /\ pc = "copy" /\ pc' = "copy" /\ call' = call
      BY <1>8, <2>2 DEF CopyElement, Continue, Pointer, PointerOf
    <3>2. QuietStart' /\ QuietText'
      BY <3>1 DEF Quiet, QuietStart, QuietText, Active
    <3>3. ASSUME dirty = {}
          PROVE  \A i \in 1..Len(copy') : copy'[i] = Element(Pointer + i - 1)
      <4>1. copy \in Seq(Int) /\ Len(copy) \in Nat /\ call.start = Pointer /\ Pointer \in HomeMemory
        BY <3>1, <3>3 DEF Inv, TypeOK, Quiet, QuietStart, Active
      <4>2. Source = Pointer + Len(copy)
        <5>1. CASE ~Rereads
          BY <4>1, <5>1 DEF Source
        <5>2. CASE Rereads
          <6>1. /\ Pointer + ByteCount - 1 \in HomeMemory /\ Len(copy) < call.count
                /\ call.count \in Nat /\ call.cells \in {1, 2}
            BY <1>8, <3>1, <4>1, <5>2, CallTypes DEF Rereads, CopyElement, Length, Inv, TypeOK, BoundsOK
          <6>2. ByteCount = call.count \/ ByteCount = 2 * call.count
            BY <6>1 DEF ByteCount
          <6>3. Pointer + Len(copy) \in 0..(Modulus - 1)
            <7>1. Pointer \in Nat /\ Len(copy) \in Nat /\ Modulus \in Int
              BY <4>1, HomeRange, LenProperties DEF Addresses, Inv, TypeOK
            <7>2. Pointer + call.count - 1 \in 0..(Modulus - 1)
              <8>1. Pointer + ByteCount - 1 \in 0..(Modulus - 1)
                BY <6>1, HomeRange DEF Addresses
              <8>2. ByteCount >= call.count /\ ByteCount \in Nat
                BY <6>1, <6>2
              <8> QED BY <6>1, <7>1, <8>1, <8>2
            <7> QED BY <6>1, <7>1, <7>2
          <6> QED BY <5>2, <6>3 DEF Source, Wrap
        <5> QED BY <5>1, <5>2
      <4>3. Element(Source) \in Int
        <5>1. call.cells \in {1, 2} /\ Source \in Int
          BY <4>1, <4>2, CallTypes DEF Inv, TypeOK, HomeMemory
        <5>2. Source \in HomeMemory /\ (call.cells = 2 => Source + 1 \in HomeMemory)
          BY <2>2, <5>1
        <5> QED BY <5>1, <5>2 DEF Element, Inv, TypeOK
      <4>4. \A i \in 1..Len(copy) : copy[i] = Element(Pointer + i - 1)
        BY <3>1, <3>3 DEF Quiet, QuietCopy
      <4>5. copy' = Append(copy, Element(Source))
        BY <2>2
      <4> HIDE <2>2
      <4>6. Len(copy') = Len(copy) + 1 /\ copy'[Len(copy) + 1] = Element(Source)
            /\ \A i \in 1..Len(copy) : copy'[i] = copy[i]
        BY <4>1, <4>3, <4>5
      <4>7. Pointer \in Int
        BY <4>1 DEF HomeMemory
      <4>8. Pointer + (Len(copy) + 1) - 1 = Source
        BY <4>1, <4>2, <4>7
      <4> SUFFICES ASSUME NEW i \in 1..(Len(copy) + 1) PROVE copy'[i] = Element(Pointer + i - 1)
        BY <4>6
      <4>9. i \in 1..Len(copy) \/ i = Len(copy) + 1
        BY <4>1
      <4> QED BY <4>4, <4>6, <4>8, <4>9
    <3>4. \A a : Element(a)' = Element(a)
      BY <3>1 DEF Element
    <3>5. QuietCopy'
      BY <3>1, <3>3, <3>4 DEF QuietCopy
    <3> QED BY <3>2, <3>5 DEF Quiet
  <2> QED BY <1>8, <2>1, <2>2 DEF CopyElement, Returns, Ends, Active
<1>9. CASE Verify
  <2>1. ~Active'
    BY <1>9 DEF Verify, Returns, Active
  <2> QED BY <2>1 DEF Quiet, QuietStart, QuietText, QuietCopy, Active
<1> QED BY <1>1, <1>2, <1>3, <1>4, <1>5, <1>6, <1>7, <1>8, <1>9 DEF Next, Copying

(* The verifier was given what the memory holds.                             *)
LEMMA ExactStep == Inv /\ Quiet /\ ExactWhenQuiet /\ [Next]_vars => ExactWhenQuiet'
<1> SUFFICES ASSUME Inv, Quiet, ExactWhenQuiet, [Next]_vars PROVE ExactWhenQuiet'
  OBVIOUS
<1>1. CASE UNCHANGED vars
  BY <1>1 DEF vars, ExactWhenQuiet, Length, Pointer, PointerOf
<1>2. CASE Library
  <2>1. dirty' # {}
    BY <1>2 DEF Library, LibraryWrites, PointerMoves
  <2> QED BY <2>1 DEF ExactWhenQuiet
<1>3. CASE Longs \/ Leave
  <2>1. call'.kind = "load"
    BY <1>3, NoCallOK, HomeRange DEF Longs, Load, Assign, Leave
  <2> QED BY <2>1 DEF ExactWhenQuiet
<1>4. ASSUME NEW c \in Requests, Begin(c) PROVE ExactWhenQuiet'
  <2>1. outcome' = "copy" => PointerOf(c) = Null
    BY <1>4 DEF Begin
  <2>2. call'.volatile = c.volatile /\ call'.ptr = c.ptr /\ slot' = slot
    BY <1>4 DEF Begin, Requests
  <2>3. Pointer' = PointerOf(c)
    BY <2>2 DEF Pointer, PointerOf
  <2> QED BY <2>1, <2>3 DEF ExactWhenQuiet
<1>5. CASE Strlen \/ CheckRange \/ CopyElement
  <2>1. outcome' # "copy"
    BY <1>5 DEF Strlen, CheckRange, CopyElement, Returns, Continue, Ends, Inv, RequestOK, Active
  <2> QED BY <2>1 DEF ExactWhenQuiet
<1>6. CASE CheckNull
  <2>1. Pointer' = Null
    BY <1>6 DEF CheckNull, Returns, Ends, Pointer, PointerOf
  <2> QED BY <2>1 DEF ExactWhenQuiet
<1>7. CASE Verify
  <2> SUFFICES ASSUME dirty = {}, call.cells = 1
               PROVE  /\ copy' = [i \in 1..Length |-> mem[Pointer + i - 1]]
                      /\ call.kind \in Strings =>
                           \A i \in 1..call.count : (mem[Pointer + i - 1] = 0) <=> (i = call.count)
    <3>1. UNCHANGED <<mem, slot, call, dirty>>
      BY <1>7 DEF Verify, Returns
    <3>2. Length' = Length /\ Pointer' = Pointer
      BY <3>1 DEF Length, Pointer, PointerOf
    <3> QED BY <3>1, <3>2 DEF ExactWhenQuiet
  <2>1. /\ pc = "copy" /\ copy \in Seq(Int) /\ Len(copy) \in Nat /\ Length \in Int
        /\ call.count \in Nat \ {0} /\ Len(copy) = Length /\ copy' = Terminate
    <3>1. call.count \in Nat /\ Length \in Int
      BY CallTypes DEF Inv, TypeOK, Length
    <3>2. copy \in Seq(Int) /\ Len(copy) \in Nat
      BY DEF Inv, TypeOK
    <3> QED BY <1>7, <3>1, <3>2 DEF Verify, Inv, BoundsOK
  <2>2. call.start = Pointer /\ Pointer \in HomeMemory /\ Pointer \in Int
    BY <2>1 DEF Quiet, QuietStart, Active, HomeMemory
  <2>3. ByteCount = call.count
    BY <2>1 DEF ByteCount
  <2>4. \A i \in 1..Len(copy) : copy[i] = mem[Pointer + i - 1]
    BY <2>1 DEF Quiet, QuietCopy, Element
  <2>5. call.kind \in Strings =>
          \A i \in 1..call.count : (mem[Pointer + i - 1] = 0) <=> (i = call.count)
    <3> SUFFICES ASSUME call.kind \in Strings, NEW i \in 1..call.count
                 PROVE  (mem[Pointer + i - 1] = 0) <=> (i = call.count)
      OBVIOUS
    <3>1. Pointer + call.count - 1 \in HomeMemory
      BY <2>1, <2>2, <2>3 DEF Inv, BoundsOK, Strings
    <3>2. Pointer + i - 1 \in HomeMemory
      BY <2>1, <2>2, <3>1 DEF HomeMemory
    <3>3. \A a \in HomeMemory :
            /\ Pointer <= a /\ a < Pointer + call.count - 1 => mem[a] # 0
            /\ a = Pointer + call.count - 1 => mem[a] = 0
      BY <2>1, <2>2 DEF Quiet, QuietText
    <3>4. CASE i = call.count
      BY <3>2, <3>3, <3>4
    <3>5. CASE i # call.count
      <4>1. Pointer <= Pointer + i - 1 /\ Pointer + i - 1 < Pointer + call.count - 1
        BY <2>1, <2>2, <3>5
      <4> QED BY <3>2, <3>3, <3>5, <4>1
    <3> QED BY <3>4, <3>5
  <2>6. copy' = [i \in 1..Length |-> mem[Pointer + i - 1]]
    <3>1. copy = [i \in 1..Len(copy) |-> mem[Pointer + i - 1]]
      <4>1. copy = [i \in 1..Len(copy) |-> copy[i]]
        BY <2>1
      <4> QED BY <2>4, <4>1
    <3>2. Terminate = copy
      <4>1. CASE call.kind # "unique"
        BY <4>1 DEF Terminate
      <4>2. CASE call.kind = "unique"
        <5>1. Length = call.count
          BY <4>2 DEF Length
        <5>2. Len(copy) \in 1..call.count /\ Len(copy) \in 1..Len(copy)
          BY <2>1, <5>1
        <5>3. copy[Len(copy)] = 0
          BY <2>1, <2>4, <2>5, <4>2, <5>1, <5>2 DEF Strings
        <5>4. [copy EXCEPT ![Len(copy)] = 0] = copy
          BY <2>1, <5>2, <5>3
        <5> QED BY <5>4 DEF Terminate
      <4> QED BY <4>1, <4>2
    <3> QED BY <2>1, <3>1, <3>2
  <2> QED BY <2>5, <2>6
<1> QED BY <1>1, <1>2, <1>3, <1>4, <1>5, <1>6, <1>7 DEF Next, Copying

LEMMA QuietInit == Init => Quiet
BY DEF Init, Quiet, QuietStart, QuietText, QuietCopy, Active

(* A verifier is given all that was asked for, or the string up to its first *)
(* null, unless library code wrote to the sandbox during the call.           *)
THEOREM QuietCopyExact == Spec => []ExactWhenQuiet
<1>1. Init => ExactWhenQuiet
  BY DEF Init, ExactWhenQuiet
<1> QED BY <1>1, QuietInit, InvHolds, QuietStep, ExactStep, PTL DEF Spec

(* A range of elements that take two cells in the application and one in the *)
(* sandbox: each one copied is an element of the range and its neighbour.    *)
WideWhenQuiet ==
  outcome = "copy" /\ dirty = {} /\ call.kind = "range" /\ call.cells = 2 =>
    copy = [i \in 1..call.count |-> mem[Pointer + i - 1] + CellValues * mem[Pointer + i]]

LEMMA WideStep == Inv /\ Quiet /\ WideWhenQuiet /\ [Next]_vars => WideWhenQuiet'
<1> SUFFICES ASSUME Inv, Quiet, WideWhenQuiet, [Next]_vars PROVE WideWhenQuiet'
  OBVIOUS
<1>1. CASE UNCHANGED vars
  BY <1>1 DEF vars, WideWhenQuiet, Pointer, PointerOf
<1>2. CASE Library
  <2>1. dirty' # {}
    BY <1>2 DEF Library, LibraryWrites, PointerMoves
  <2> QED BY <2>1 DEF WideWhenQuiet
<1>3. CASE Longs \/ Leave
  <2>1. call'.kind = "load"
    BY <1>3, NoCallOK, HomeRange DEF Longs, Load, Assign, Leave
  <2> QED BY <2>1 DEF WideWhenQuiet
<1>4. ASSUME NEW c \in Requests, Begin(c) PROVE WideWhenQuiet'
  <2>1. outcome' = "copy" => c.kind = "string"
    BY <1>4 DEF Begin
  <2>2. call'.kind = c.kind
    BY <1>4 DEF Begin, Requests
  <2> QED BY <2>1, <2>2 DEF WideWhenQuiet
<1>5. CASE Strlen \/ CheckRange \/ CopyElement
  <2>1. outcome' # "copy"
    BY <1>5 DEF Strlen, CheckRange, CopyElement, Returns, Continue, Ends, Inv, RequestOK, Active
  <2> QED BY <2>1 DEF WideWhenQuiet
<1>6. CASE CheckNull
  <2>1. call' = call /\ (outcome' = "copy" => call.kind = "string")
    BY <1>6 DEF CheckNull, Returns, Ends
  <2> QED BY <2>1 DEF WideWhenQuiet
<1>7. CASE Verify
  <2> SUFFICES ASSUME dirty = {}, call.kind = "range", call.cells = 2
               PROVE  copy' = [i \in 1..call.count |->
                                 mem[Pointer + i - 1] + CellValues * mem[Pointer + i]]
    <3>1. UNCHANGED <<mem, slot, call, dirty>>
      BY <1>7 DEF Verify, Returns
    <3>2. Pointer' = Pointer
      BY <3>1 DEF Pointer, PointerOf
    <3> QED BY <3>1, <3>2 DEF WideWhenQuiet
  <2>1. /\ pc = "copy" /\ copy \in Seq(Int) /\ copy' = copy
        /\ call.count \in Nat /\ Len(copy) = call.count
    <3>1. call.count \in Nat /\ copy \in Seq(Int) /\ Len(copy) \in Nat
      BY CallTypes DEF Inv, TypeOK
    <3>2. Length = call.count /\ Terminate = copy
      BY DEF Length, Terminate
    <3> QED BY <1>7, <3>1, <3>2 DEF Verify, Inv, BoundsOK
  <2>2. Pointer \in Int
    BY <2>1 DEF Quiet, QuietStart, Active, HomeMemory
  <2>3. \A i \in 1..call.count : copy[i] = mem[Pointer + i - 1] + CellValues * mem[Pointer + i]
    <3> TAKE i \in 1..call.count
    <3>1. copy[i] = Element(Pointer + i - 1)
      BY <2>1 DEF Quiet, QuietCopy
    <3>2. Pointer + i - 1 + 1 = Pointer + i
      BY <2>2
    <3> QED BY <3>1, <3>2 DEF Element
  <2> QED BY <2>1, <2>3
<1> QED BY <1>1, <1>2, <1>3, <1>4, <1>5, <1>6, <1>7 DEF Next, Copying

(* What line 605 makes of a range of longs that are wider in the application:*)
(* for every memory, and with nobody writing, the verifier gets for each long*)
(* the cells of that long and of the next, and so the number that was asked  *)
(* for only where the next one happens to extend its sign.                   *)
THEOREM WideRangeMixes == Spec => []WideWhenQuiet
<1>1. Init => WideWhenQuiet
  BY DEF Init, WideWhenQuiet
<1> QED BY <1>1, QuietInit, InvHolds, QuietStep, WideStep, PTL DEF Spec

-----------------------------------------------------------------------------
(* What the process is ended for.                                            *)

(* A wrapped length ends where the length itself does.                       *)
LEMMA WrappedEnd ==
  ASSUME NEW p \in HomeMemory, NEW n \in 1..(2 * (Modulus - 1))
  PROVE  RangeEnd(p, Wrap(n)) = Wrap(p + n - 1)
<1>1. p \in 0..(Modulus - 1) /\ p > 0
  BY HomeRange DEF Addresses, Null
<1>2. CASE n < Modulus
  <2>1. Wrap(n) = n
    BY <1>2 DEF Wrap
  <2> QED BY <2>1 DEF RangeEnd
<1>3. CASE n >= Modulus
  <2>1. Wrap(n) = n - Modulus
    BY <1>3 DEF Wrap
  <2>2. (p + (n - Modulus) - 1) % Modulus = (p + n - 1) % Modulus
    BY <1>1, <1>3
  <2> QED BY <2>1, <2>2 DEF RangeEnd, Wrap
<1> QED BY <1>2, <1>3

LEMMA EndStep == Inv /\ Ended /\ Quiet /\ EndIsJustified /\ [Next]_vars => EndIsJustified'
<1> SUFFICES ASSUME Inv, Ended, Quiet, EndIsJustified, [Next]_vars PROVE EndIsJustified'
  OBVIOUS
<1>1. CASE UNCHANGED vars
  BY <1>1 DEF vars, EndIsJustified, ByteCount, Pointer, PointerOf
<1>2. CASE Library
  <2>1. dirty' # {}
    BY <1>2 DEF Library, LibraryWrites, PointerMoves
  <2> QED BY <2>1 DEF EndIsJustified
<1>3. CASE Longs \/ Leave \/ (\E c \in Requests : Begin(c)) \/ CheckNull \/ CopyElement \/ Verify
  <2>1. outcome' \notin {"aborted", "overrun"}
    BY <1>3 DEF Longs, Load, Assign, Leave, Begin, CheckNull, CopyElement, Verify, Returns, Continue, Ends,
                Inv, RequestOK, Active
  <2> QED BY <2>1 DEF EndIsJustified
<1>4. CASE Strlen
  <2> SUFFICES ASSUME outcome' \in {"aborted", "overrun"}, dirty' = {}
               PROVE  call'.kind \in Strings /\ \A a \in HomeMemory : a >= Pointer' => mem'[a] # 0
    BY DEF EndIsJustified
  <2>1. /\ UNCHANGED <<mem, slot, call, dirty>> /\ pc = "strlen"
        /\ call.start + call.count \notin HomeMemory
    BY <1>4 DEF Strlen, Continue, Ends, Inv, RequestOK, Active
  <2>2. Pointer' = Pointer
    BY <2>1 DEF Pointer, PointerOf
  <2>3. /\ call.kind \in Strings /\ call.start = Pointer /\ Pointer \in HomeMemory
        /\ \A a \in HomeMemory : Pointer <= a /\ a < Pointer + call.count => mem[a] # 0
    BY <2>1 DEF Inv, RequestOK, Quiet, QuietStart, QuietText, Active
  <2>4. call.count \in Nat
    BY CallTypes DEF Inv, TypeOK
  <2>5. \A a \in HomeMemory : a < Pointer + call.count
    BY <2>1, <2>3, <2>4 DEF HomeMemory
  <2> QED BY <2>1, <2>2, <2>3, <2>5 DEF HomeMemory
<1>5. CASE CheckRange
  <2> SUFFICES ASSUME outcome' \in {"aborted", "overrun"}, dirty = {},
                      UNCHANGED <<mem, slot, call, dirty>>, pc = "check",
                      call.count # 0, RangeAborts(Pointer, Wrap(ByteCount))
               PROVE  IF call.kind \in Strings
                      THEN \A a \in HomeMemory : a >= Pointer => mem[a] # 0
                      ELSE ~(Bytes(Pointer, ByteCount) \subseteq HomeMemory)
    <3>1. outcome' \in {"aborted", "overrun"} =>
            /\ UNCHANGED <<mem, slot, call, dirty>> /\ pc = "check"
            /\ call.count # 0 /\ RangeAborts(Pointer, Wrap(ByteCount))
      BY <1>5 DEF CheckRange, Returns, Continue, Ends, Inv, RequestOK, Active
    <3>2. UNCHANGED <<slot, call>> => Pointer' = Pointer /\ ByteCount' = ByteCount
      BY DEF Pointer, PointerOf, ByteCount
    <3> QED BY <3>1, <3>2 DEF EndIsJustified
  <2>1. /\ call.count \in Nat \ {0} /\ call.count <= Modulus - 1 /\ call.cells \in {1, 2}
        /\ Modulus \in Nat
    <3>1. call \in Calls
      BY DEF Inv, TypeOK
    <3>2. call.count \in Sizes
      BY <3>1 DEF Calls
    <3> QED BY <3>1, <3>2, CallTypes DEF Sizes
  <2>2. ByteCount \in 1..(2 * (Modulus - 1))
    BY <2>1 DEF ByteCount
  <2>3. Pointer \in HomeMemory /\ Pointer \in Int
    BY PointerInHome DEF Inv, Active, RangeAborts, HomeMemory
  <2>4. Wrap(Pointer + ByteCount - 1) \notin HomeMemory
    <3>1. RangeEnd(Pointer, Wrap(ByteCount)) = Wrap(Pointer + ByteCount - 1)
      BY <2>2, <2>3, WrappedEnd
    <3>2. Pointer + ByteCount - 1 \in Int
      BY <2>2, <2>3
    <3> QED BY <2>3, <3>1, <3>2, WrapRange, SameSandbox DEF RangeAborts
  <2>5. CASE call.kind \notin Strings
    <3>1. ByteCount - 1 \in 0..(ByteCount - 1) /\ Pointer + (ByteCount - 1) = Pointer + ByteCount - 1
      BY <2>2, <2>3
    <3>2. Wrap(Pointer + ByteCount - 1) \in Bytes(Pointer, ByteCount)
      BY <3>1 DEF Bytes
    <3> QED BY <2>4, <2>5, <3>2
  <2>6. CASE call.kind \in Strings
    <3>1. /\ call.cells = 1 /\ call.start = Pointer /\ Pointer + call.count <= Modulus
          /\ \A a \in HomeMemory : Pointer <= a /\ a < Pointer + call.count - 1 => mem[a] # 0
      BY <2>6 DEF Inv, RequestOK, BoundsOK, Quiet, QuietStart, QuietText, Active
    <3>2. ByteCount = call.count
      BY <2>1, <3>1 DEF ByteCount
    <3>3. Wrap(Pointer + ByteCount - 1) = Pointer + call.count - 1
      <4>1. Pointer >= 0
        BY <2>3, HomeRange DEF Addresses
      <4>2. Pointer + call.count - 1 \in 0..(Modulus - 1)
        BY <2>1, <2>3, <3>1, <4>1
      <4>3. \A n \in 0..(Modulus - 1) : n % Modulus = n
        OBVIOUS
      <4> QED BY <3>2, <4>2, <4>3 DEF Wrap
    <3>4. \A a \in HomeMemory : a < Pointer + call.count - 1
      BY <2>1, <2>3, <2>4, <3>3 DEF HomeMemory
    <3> QED BY <2>3, <2>6, <3>1, <3>4 DEF HomeMemory
  <2> QED BY <2>5, <2>6
<1> QED BY <1>1, <1>2, <1>3, <1>4, <1>5 DEF Next, Copying

(* A process that is ended was asked for memory that the sandbox does not    *)
(* have, unless library code wrote to the sandbox during the call.           *)
THEOREM EndsJustified == Spec => []EndIsJustified
<1>1. Init => StartKept /\ Ended /\ StraysOnlyIfTakenAway /\ EndIsJustified
  BY DEF Init, StartKept, Ended, StraysOnlyIfTakenAway, EndIsJustified
<1> QED BY <1>1, QuietInit, InvHolds, QuietStep, StartKeptStep, StraysStep, EndStep, PTL DEF Spec
=============================================================================
