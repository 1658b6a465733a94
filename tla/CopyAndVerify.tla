---------------------------- MODULE CopyAndVerify ----------------------------
(***************************************************************************)
(* The copy_and_verify family of rlbox.hpp: an application thread copies   *)
(* data out of sandbox memory, step by step, and hands the copy to a       *)
(* verifier, while library code goes on writing to that memory. The        *)
(* pointer to the data is the application's own (tainted), or is in        *)
(* sandbox memory itself (tainted_volatile) and is read anew at each use.  *)
(*                                                                         *)
(* Memory is made of cells, each an integer as the sandbox lays it out: a  *)
(* char, an int or a long. The application's long may be wider.            *)
(***************************************************************************)
EXTENDS AddressSpace, IntConversion, Sequences

CONSTANTS
  CellValues,    \* number of values of a cell
  LibraryBits,   \* cell contents that library code writes
  Targets,       \* where pointers that library code or the application has point to
  ElementCells,  \* sizes of the application's elements, in cells
  Counts,        \* numbers of elements that are asked for
  StoreTargets,  \* cells that the application assigns to,
  StoreValues,   \* and the values it assigns
  NoValue        \* no value that the application assigned

ASSUME CellsAssumption ==
  /\ CellValues \in Nat \ {0} /\ CellValues % 2 = 0
  /\ LibraryBits \subseteq 0..(CellValues - 1)
  /\ Targets \subseteq HomeMemory /\ StoreTargets \subseteq HomeMemory
  /\ ElementCells \subseteq {1, 2}
  /\ Counts \subseteq Sizes
  /\ StoreValues \subseteq Int /\ NoValue \notin Int

VARIABLES
  mem,     \* sandbox memory: the bits of each cell
  slot,    \* the pointer in sandbox memory
  pc,      \* where the application thread is in its call
  call,    \* the call in progress, or the last one
  copy,    \* the copy it makes
  outcome, \* how the call ended
  dirty,   \* history: what was overwritten since the call began
  stored   \* history: what an assignment left in a cell, until overwritten

vars == <<mem, slot, pc, call, copy, outcome, dirty, stored>>

-----------------------------------------------------------------------------
(* long on each side *)
SandboxLong == [signed |-> TRUE, values |-> CellValues]
AppLong == [signed |-> TRUE, values |-> CellValues * CellValues]

(* The integer types of values that are assigned. *)
AssignedTypes == [signed : BOOLEAN, values : {CellValues, CellValues * CellValues}]

Kinds == {"pointee", "range", "unique", "string", "load"}
Steps == {"idle", "strlen", "check", "copy", "over"}
Outcomes == {"none", "null", "copy", "refused", "aborted", "strayed", "overrun"}

Calls == [kind : Kinds, volatile : BOOLEAN, ptr : Addresses, count : Sizes,
          cells : ElementCells \union {1}, start : Addresses]

NoCall == [kind |-> "load", volatile |-> FALSE, ptr |-> Null, count |-> 0,
           cells |-> 1, start |-> Null]

Strings == {"unique", "string"}

(* impl().get_raw_value() *)
PointerOf(c) == IF c.volatile THEN slot ELSE c.ptr
Pointer == PointerOf(call)

Init ==
  /\ mem \in [HomeMemory -> LibraryBits]
  /\ slot \in Targets \union {Null}
  /\ pc = "idle" /\ call = NoCall /\ copy = << >> /\ outcome = "none"
  /\ dirty = {}
  /\ stored = [a \in StoreTargets |-> NoValue]

-----------------------------------------------------------------------------
(* Library code, until the process has ended *)

LibraryWrites(a, bits) ==
  /\ pc # "over"
  /\ mem' = [mem EXCEPT ![a] = bits]
  /\ stored' = IF a \in StoreTargets THEN [stored EXCEPT ![a] = NoValue] ELSE stored
  /\ dirty' = dirty \union {"data"}
  /\ UNCHANGED <<slot, pc, call, copy, outcome>>

(* The pointer is overwritten, by library code or by the application.        *)
PointerMoves(p) ==
  /\ pc # "over"
  /\ slot' = p
  /\ dirty' = dirty \union {"pointer"}
  /\ UNCHANGED <<mem, pc, call, copy, outcome, stored>>

(* The application is done with the result of its last call. *)
Leave ==
  /\ pc = "idle"
  /\ call' = NoCall /\ copy' = << >> /\ outcome' = "none" /\ dirty' = {}
  /\ UNCHANGED <<mem, slot, pc, stored>>

-----------------------------------------------------------------------------
(* *p = n by tainted_volatile::operator=, and a read of the same long *)

Assign(a, type, n) ==
  /\ pc = "idle" /\ n \in ValuesOf(type)
  /\ call' = NoCall /\ copy' = << >> /\ dirty' = {}
  /\ \/ /\ Accepted(SandboxLong, type, n)
        /\ mem' = [mem EXCEPT ![a] = Bits(SandboxLong, Cast(SandboxLong, n))]
        /\ stored' = [stored EXCEPT ![a] = n]
        /\ outcome' = "none"
     \/ /\ ~Accepted(SandboxLong, type, n)
        /\ outcome' = "refused"
        /\ UNCHANGED <<mem, stored>>
  /\ UNCHANGED <<slot, pc>>

(* Mutant: the bits are widened as those of an unsigned number. *)
LoadZeroExtends(a) ==
  /\ pc = "idle"
  /\ call' = [NoCall EXCEPT !.ptr = a]
  /\ copy' = <<Cast(AppLong, mem[a])>>
  /\ outcome' = "copy" /\ dirty' = {}
  /\ UNCHANGED <<mem, slot, pc, stored>>

(* p->copy_and_verify(verifier): a long is widened, and read once. *)
Load(a) ==
  /\ pc = "idle"
  /\ call' = [NoCall EXCEPT !.ptr = a]
  /\ copy' = <<Cast(AppLong, Cast(SandboxLong, mem[a]))>>
  /\ outcome' = "copy" /\ dirty' = {}
  /\ UNCHANGED <<mem, slot, pc, stored>>

-----------------------------------------------------------------------------
(* The steps of the other calls *)

Continue(step) ==
  /\ pc' = step
  /\ UNCHANGED <<mem, slot, outcome, dirty, stored>>

(* The verifier is called, or a check throws. *)
Returns(result) ==
  /\ pc' = "idle" /\ outcome' = result
  /\ UNCHANGED <<mem, slot, call, dirty, stored>>

(* A range check aborts, or memory outside the sandbox is touched: what the  *)
(* process does after that is not modelled.                                  *)
Ends(result) ==
  /\ pc' = "over" /\ outcome' = result
  /\ UNCHANGED <<mem, slot, call, copy, dirty, stored>>

(* copy_and_verify of a pointer, copy_and_verify_range, and                  *)
(* copy_and_verify_string for a verifier of a unique_ptr or of a std::string.*)
(* All but the second read the pointer here, and test it for null.           *)
FirstStep(kind) ==
  CASE kind = "pointee" -> "copy"
    [] kind = "range" -> "check"
    [] kind \in Strings -> "strlen"

Begin(c) ==
  /\ pc = "idle"
  /\ call' = [c EXCEPT !.start = IF c.kind = "range" THEN Null ELSE PointerOf(c)]
  /\ copy' = << >> /\ dirty' = {}
  /\ \/ /\ c.kind = "range" \/ PointerOf(c) # Null
        /\ pc' = FirstStep(c.kind) /\ outcome' = "none"
     \/ /\ c.kind # "range" /\ PointerOf(c) = Null
        /\ outcome' = IF c.kind = "string" THEN "copy" ELSE "null"
        /\ UNCHANGED pc
  /\ UNCHANGED <<mem, slot, stored>>

(* Mutant: the terminator is not counted. *)
StrLenUncounted(cells) == cells

(* std::strlen(start) + 1, having seen that many cells that are not zero. *)
StrLen(cells) == cells + 1

(* strlen of a string without a terminator goes on past the sandbox, until   *)
(* it finds a zero, or memory that cannot be read.                           *)
Strlen ==
  LET a == call.start + call.count
  IN  /\ pc = "strlen" /\ UNCHANGED copy
      /\ \/ /\ a \in HomeMemory => mem[a] = 0
            /\ call' = [call EXCEPT !.count = StrLen(@)]
            /\ Continue("check")
         \/ /\ a \in HomeMemory => mem[a] # 0
            /\ a < Modulus - 1
            /\ call' = [call EXCEPT !.count = @ + 1]
            /\ Continue("strlen")
         \/ a \notin HomeMemory /\ Ends("overrun")

-----------------------------------------------------------------------------
(* verify_range_helper, which reads the pointer again, and the allocation of *)
(* the copy. A null string ends in target[str_len - 1] of a null target.     *)

ByteCount == call.count * call.cells

(* No allocation of half the address space succeeds. *)
Allocatable == ByteCount < Modulus \div 2

CheckNull ==
  /\ pc = "check" /\ call.count # 0 /\ Pointer = Null
  /\ \/ call.kind = "range" /\ Returns("null") /\ UNCHANGED copy
     \/ call.kind = "string" /\ Returns("copy") /\ UNCHANGED copy
     \/ call.kind = "unique" /\ Ends("strayed")

CheckRange ==
  /\ pc = "check" /\ UNCHANGED copy
  /\ \/ call.count = 0 /\ Returns("refused")
     \/ /\ call.count # 0 /\ RangeAborts(Pointer, Wrap(ByteCount))
        /\ Ends("aborted")
     \/ /\ call.count # 0 /\ RangeChecked(Pointer, Wrap(ByteCount))
        /\ \/ Returns("refused")  \* std::bad_alloc
           \/ /\ Allocatable
              /\ call' = [call EXCEPT !.start = Pointer]
              /\ Continue("copy")

-----------------------------------------------------------------------------
(* Mutant: the loop runs once too often. *)
LengthPast == call.count + 1

(* Elements to copy: the std::string is given one character less. *)
Length == IF call.kind = "string" THEN call.count - 1 ELSE call.count

(* copy_and_verify_range_helper reads the pointer for each element. *)
Rereads == call.kind \in {"range", "unique"}

Source == IF Rereads THEN Wrap(Pointer + Len(copy)) ELSE call.start + Len(copy)

(* Mutant: operator[] does not compare the regions. *)
IndexedUnchecked == FALSE

IndexRefused == Rereads /\ ~InSameSandbox(Pointer, Source)

(* The application's element is read through a raw pointer to its type: a    *)
(* long that is wider than the sandbox's takes in the cell that follows.     *)
Element(a) == IF call.cells = 1 THEN mem[a] ELSE mem[a] + CellValues * mem[a + 1]

CopyElement ==
  /\ pc = "copy" /\ Len(copy) < Length
  /\ \/ IndexRefused /\ Returns("refused") /\ UNCHANGED copy
     \/ /\ ~IndexRefused /\ Source..(Source + call.cells - 1) \subseteq HomeMemory
        /\ copy' = Append(copy, Element(Source))
        /\ Continue("copy") /\ UNCHANGED call
     \/ /\ ~IndexRefused /\ ~(Source..(Source + call.cells - 1) \subseteq HomeMemory)
        /\ Ends("strayed")

(* Mutant: a racing write decides whether the string is terminated. *)
TerminateDropped == copy

(* target[str_len - 1] = '\0' *)
Terminate == IF call.kind = "unique" THEN [copy EXCEPT ![Len(copy)] = 0] ELSE copy

Verify ==
  /\ pc = "copy" /\ Len(copy) >= Length
  /\ copy' = Terminate
  /\ Returns("copy")

-----------------------------------------------------------------------------
(* Calls of the application, before their first step. *)
Requests ==
  {c \in [kind : Kinds \ {"load"}, volatile : BOOLEAN, ptr : Targets \union {Null},
          count : Counts \union {0, 1}, cells : ElementCells \union {1}, start : {Null}] :
     /\ c.kind \in Strings => c.count = 0 /\ c.cells = 1
     /\ c.kind = "pointee" => c.count = 1 /\ c.cells \in ElementCells
     /\ c.kind = "range" => c.count \in Counts /\ c.cells \in ElementCells
     /\ c.volatile => c.ptr = Null}

Library ==
  \/ \E a \in HomeMemory, bits \in LibraryBits : LibraryWrites(a, bits)
  \/ \E p \in Targets \union {Null} : PointerMoves(p)

Longs ==
  \E a \in StoreTargets :
    Load(a) \/ \E type \in AssignedTypes, n \in StoreValues : Assign(a, type, n)

Copying ==
  \/ \E c \in Requests : Begin(c)
  \/ Strlen \/ CheckNull \/ CheckRange \/ CopyElement \/ Verify

Next == Library \/ Leave \/ Longs \/ Copying

Spec == Init /\ [][Next]_vars

-----------------------------------------------------------------------------
TypeOK ==
  /\ mem \in [HomeMemory -> 0..(CellValues - 1)]
  /\ slot \in Targets \union {Null}
  /\ pc \in Steps /\ outcome \in Outcomes /\ call \in Calls
  /\ copy \in Seq(Int) /\ (call.kind # "load" => Len(copy) <= call.count)
  /\ dirty \subseteq {"data", "pointer"}
  /\ stored \in [StoreTargets -> Int \union {NoValue}]

(* However library code moves the pointer and overwrites the string, a copy  *)
(* reads only the sandbox's memory, with two exceptions: a pointer in sandbox*)
(* memory that becomes null once it was checked, where it is read again for  *)
(* each element; and an element that is wider than the sandbox's, if it is   *)
(* copied without a range check or the pointer was moved after that.         *)
StraysOnlyIfTakenAway ==
  outcome = "strayed" =>
    \/ call.volatile /\ slot = Null /\ Rereads
    \/ call.cells = 2 /\ (call.kind = "pointee" \/ (call.volatile /\ "pointer" \in dirty))

(* A string that is given as a unique_ptr ends in a null character, even if  *)
(* library code overwrote the terminator after strlen had found it.          *)
AlwaysTerminated ==
  outcome = "copy" /\ call.kind = "unique" => copy # << >> /\ copy[Len(copy)] = 0

(* If library code wrote nothing meanwhile, the verifier is given all of the *)
(* elements that were asked for, or the string up to its first null.         *)
ExactWhenQuiet ==
  outcome = "copy" /\ dirty = {} /\ call.cells = 1 /\ call.kind # "load" /\ Pointer # Null =>
    /\ copy = [i \in 1..Length |-> mem[Pointer + i - 1]]
    /\ call.kind \in Strings =>
         \A i \in 1..call.count : (mem[Pointer + i - 1] = 0) <=> (i = call.count)

(* Unless library code interferes, no call ends the process that asked for   *)
(* elements or a string that the sandbox's memory has, its last cell too.    *)
EndIsJustified ==
  outcome \in {"aborted", "overrun"} /\ dirty = {} =>
    IF call.kind \in Strings
    THEN \A a \in HomeMemory : a >= Pointer => mem[a] # 0
    ELSE ~(Bytes(Pointer, ByteCount) \subseteq HomeMemory)

(* A long that was assigned is read back as the same number, whatever type   *)
(* it had, unless library code overwrote it: the assignment is refused if    *)
(* the sandbox's long does not have the number.                              *)
StoredIsRead ==
  outcome = "copy" /\ call.kind = "load" =>
    stored[call.ptr] = NoValue \/ copy = <<stored[call.ptr]>>
=============================================================================
