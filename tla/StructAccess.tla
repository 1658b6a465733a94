----------------------------- MODULE StructAccess -----------------------------
(***************************************************************************)
(* A struct in sandbox memory, which the application loads and stores as a *)
(* whole (tainted and tainted_volatile of rlbox_struct_support.hpp, with   *)
(* convert_type of rlbox_conversion.hpp) or changes field by field with    *)
(* the operators of rlbox.hpp, beside the calls of CopyAndVerify on the    *)
(* same memory.  Each field is a memory access of its own: library code    *)
(* writes between them, and a field that does not convert ends the store.  *)
(*                                                                         *)
(* The pointer field is the slot of CopyAndVerify; a pointer there is the  *)
(* sandbox's own integer, converted by the plugin of the tests.            *)
(***************************************************************************)
EXTENDS CopyAndVerify

CONSTANTS
  Fields,       \* the struct: its longs (array elements too) and pointer, in order
  Link,         \* names the pointer among the fields
  AppPointers,  \* pointers the application has, into this and other sandboxes
  Operands,     \* the right-hand sides of compound assignments
  NoPointer     \* no pointer that the application stored

VARIABLES
  access,  \* the load, store or compound assignment in progress, or just over
  seen,    \* history: per field of it, the values the field had meanwhile
  noise,   \* history: library code wrote meanwhile
  kept     \* history: the pointer last assigned, until overwritten

structVars == <<access, seen, noise, kept>>
allVars == <<vars, structVars>>

-----------------------------------------------------------------------------
(* Pointers to and from the sandbox's representation *)

(* Mutant: null is not told from an offset. *)
UnsandboxedAlways(r) == RegionSize * Home + r

Sandboxed(p) == IF p = Null THEN 0 ELSE p % RegionSize
Unsandboxed(r) == IF r = 0 THEN Null ELSE RegionSize * Home + r

(* What a pointer that is stored will be when it is loaded. *)
Stored(p) == Unsandboxed(Sandboxed(p))

ASSUME FieldsAssumption ==
  /\ Fields \in Seq(StoreTargets \union {Link}) /\ Fields # << >>
  /\ Link \notin StoreTargets
  /\ \A i, j \in DOMAIN Fields : Fields[i] = Fields[j] => i = j
ASSUME PointersAssumption ==
  /\ AppPointers \subseteq Addresses
  /\ NoPointer \notin Addresses
  /\ \A p \in AppPointers \union {Null} : Stored(p) \in Targets \union {Null}
ASSUME OperandsAssumption ==
  /\ Operands \subseteq Int
  /\ \A n \in ValuesOf(SandboxLong), m \in Operands : n + m \in StoreValues \intersect ValuesOf(AppLong)

-----------------------------------------------------------------------------
(* A field as the application would see it *)
ValueOf(field) ==
  IF field = Link THEN slot ELSE Cast(AppLong, Cast(SandboxLong, mem[field]))

Operations == {"none", "load", "store", "add"}

NoAccess == [op |-> "none", fields |-> << >>, operand |-> 0, next |-> 1,
             data |-> << >>, result |-> "none"]

Busy == access.result = "busy"
Field == access.fields[access.next]

Advanced(a) ==
  [a EXCEPT !.next = @ + 1, !.result = IF a.next = Len(a.fields) THEN "done" ELSE "busy"]

Observe ==
  seen' = [i \in DOMAIN access.fields |-> seen[i] \union {ValueOf(access.fields[i])'}]

StructInit ==
  /\ Init
  /\ access = NoAccess /\ seen = << >> /\ noise = FALSE /\ kept = NoPointer

-----------------------------------------------------------------------------
(* The whole struct, or one field of it *)
Ranges == {Fields} \union {<<Fields[i]>> : i \in DOMAIN Fields}

Storable(field) ==
  IF field = Link THEN AppPointers ELSE StoreValues \intersect ValuesOf(AppLong)

BeginAccess(op, fields, operand, data) ==
  /\ ~Busy /\ Leave
  /\ access' = [op |-> op, fields |-> fields, operand |-> operand, next |-> 1,
                data |-> data, result |-> "busy"]
  /\ seen' = [i \in DOMAIN fields |-> {ValueOf(fields[i])}]
  /\ noise' = FALSE
  /\ UNCHANGED kept

(* tainted<T> val = *p, UNSAFE_unverified, and copy_and_verify of a struct *)
BeginLoad == \E fields \in Ranges : BeginAccess("load", fields, 0, << >>)

(* *p = val, of tainted values *)
BeginStore ==
  \E fields \in Ranges :
    \E data \in [DOMAIN fields -> AppPointers \union StoreValues] :
      /\ \A i \in DOMAIN fields : data[i] \in Storable(fields[i])
      /\ BeginAccess("store", fields, 0, data)

(* ++*p, *p += n and their like: a load, the application's sum, a store. *)
BeginAdd ==
  \E a \in StoreTargets, n \in Operands : BeginAccess("add", <<a>>, n, << >>)

(* Mutant: the pointer is taken as the sandbox has it. *)
LoadFieldRaw ==
  /\ Busy /\ access.op = "load"
  /\ \/ /\ Field = Link
        /\ access' = Advanced([access EXCEPT !.data = Append(@, Sandboxed(slot))])
        /\ UNCHANGED vars
     \/ /\ Field # Link /\ Load(Field)
        /\ access' = Advanced([access EXCEPT !.data = Append(@, copy'[1])])
  /\ UNCHANGED <<seen, noise, kept>>

LoadField ==
  /\ Busy /\ access.op = "load"
  /\ \/ /\ Field = Link
        /\ access' = Advanced([access EXCEPT !.data = Append(@, slot)])
        /\ UNCHANGED vars
     \/ /\ Field # Link /\ Load(Field)
        /\ access' = Advanced([access EXCEPT !.data = Append(@, copy'[1])])
  /\ UNCHANGED <<seen, noise, kept>>

AddReads ==
  /\ Busy /\ access.op = "add" /\ access.data = << >>
  /\ Load(Field)
  /\ access' = [access EXCEPT !.data = <<copy'[1] + access.operand>>]
  /\ UNCHANGED <<seen, noise, kept>>

Storing == Busy /\ access.op \in {"store", "add"} /\ access.data # << >>

(* Mutant: a field that does not convert is passed over. *)
StoreFieldSkips ==
  LET value == access.data[access.next]
  IN  /\ Storing
      /\ \/ /\ Field = Link /\ PointerMoves(Stored(value))
            /\ kept' = value
         \/ /\ Field # Link /\ Assign(Field, AppLong, value)
            /\ UNCHANGED kept
      /\ access' = Advanced(access)
      /\ Observe /\ UNCHANGED noise

(* A number that the sandbox's long does not have throws there and then.     *)
StoreField ==
  LET value == access.data[access.next]
  IN  /\ Storing
      /\ \/ /\ Field = Link /\ PointerMoves(Stored(value))
            /\ kept' = value /\ access' = Advanced(access)
         \/ /\ Field # Link /\ Assign(Field, AppLong, value)
            /\ UNCHANGED kept
            /\ access' = IF outcome' = "refused" THEN [access EXCEPT !.result = "refused"]
                         ELSE Advanced(access)
      /\ Observe /\ UNCHANGED noise

-----------------------------------------------------------------------------
Forget == access' = NoAccess /\ seen' = << >> /\ noise' = FALSE

(* p->link = nullptr; and p->link.assign_raw_pointer(q), which throws for a  *)
(* pointer that is not into this sandbox.                                    *)
AssignPointer(p) ==
  /\ ~Busy /\ pc = "idle"
  /\ p = Null \/ InSandboxMemory(p)
  /\ PointerMoves(Stored(p)) /\ kept' = p
  /\ Forget

LibraryStep ==
  /\ Library
  /\ \/ Busy /\ UNCHANGED access /\ noise' = TRUE /\ Observe
     \/ ~Busy /\ Forget
  /\ kept' = IF slot' = slot THEN kept ELSE NoPointer

(* The other calls of the application on this memory *)
CallStep == ~Busy /\ (Longs \/ Copying) /\ Forget /\ UNCHANGED kept

StructNext ==
  \/ BeginLoad \/ BeginStore \/ BeginAdd
  \/ LoadField \/ AddReads \/ StoreField
  \/ \E p \in AppPointers \union {Null} : AssignPointer(p)
  \/ LibraryStep \/ CallStep

StructSpec == StructInit /\ [][StructNext]_allVars

-----------------------------------------------------------------------------
Results == {"none", "busy", "done", "refused"}

StructTypeOK ==
  /\ TypeOK
  /\ access \in [op : Operations, fields : Ranges \union {<<a>> : a \in StoreTargets} \union {<< >>},
                 operand : Int, next : Nat \ {0}, data : Seq(Int), result : Results]
  /\ access.next \in 1..(Len(access.fields) + 1)
  /\ DOMAIN seen = DOMAIN access.fields
  /\ noise \in BOOLEAN
  /\ kept \in Addresses \union {NoPointer}

(* What the application reads field by field was in each field while it did  *)
(* so, as a number or as a pointer, and all of it at once if the library     *)
(* wrote nothing; and a sum is one more than a number that was there.        *)
ReadsWereThere ==
  /\ access.op = "load" =>
       \A i \in 1..Len(access.data) : access.data[i] \in seen[i]
  /\ access.op = "add" /\ access.data # << >> =>
       access.data[1] - access.operand \in seen[1]

(* A store changes the fields in order, up to the first that the sandbox     *)
(* cannot represent: those before it hold the new values, the others what    *)
(* they held. It is never refused without such a field, nor done with one.   *)
StoresArePrefixes ==
  access.op \in {"store", "add"} /\ access.result \in {"done", "refused"} /\ ~noise =>
    /\ \A i \in DOMAIN access.fields :
         IF i >= access.next THEN seen[i] = {ValueOf(access.fields[i])}
         ELSE ValueOf(access.fields[i]) =
                IF access.fields[i] = Link THEN Stored(access.data[i]) ELSE access.data[i]
    /\ access.result = "refused" <=> access.next <= Len(access.fields)
    /\ access.result = "refused" => access.data[access.next] \notin ValuesOf(SandboxLong)

(* A pointer into the sandbox that was stored in its memory is loaded again  *)
(* as the same pointer, and null as null, until library code overwrites it;  *)
(* only the sandbox's first byte is taken for null. A pointer into another   *)
(* sandbox is never seen again.                                              *)
PointersComeHome ==
  kept # NoPointer =>
    CASE kept = Null \/ kept = RegionSize * Home -> slot = Null
      [] kept \in HomeMemory \ {RegionSize * Home} -> slot = kept
      [] OTHER -> slot # kept
=============================================================================
