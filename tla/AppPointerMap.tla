---------------------------- MODULE AppPointerMap ----------------------------
(***************************************************************************)
(* app_pointer_map of rlbox_app_pointer.hpp, the app_pointer objects of    *)
(* rlbox_policy_types.hpp that own its entries, and get_app_pointer and    *)
(* lookup_app_ptr of rlbox_sandbox.hpp.                                    *)
(*                                                                         *)
(* Every operation on the map is one critical section of map_mutex; the    *)
(* object it fills or clears belongs to the calling thread, so the whole   *)
(* call is one action.                                                     *)
(***************************************************************************)
EXTENDS Integers, FiniteSets

CONSTANTS
  Objects,        \* app_pointer objects
  Pointers, Null, \* application pointers, nullptr among them
  Absent,         \* no entry
  MaxIndex,       \* max_ptr_val: the smaller of the memory's last offset and 4096
  Representable   \* indices whose address the plugin has in sandbox memory

ASSUME PointersAssumption == Null \in Pointers /\ Absent \notin Pointers
ASSUME MaxIndexAssumption == MaxIndex \in Nat \ {0}

VARIABLES
  pointer_map,  \* entries of the std::map, Absent where there is none
  counter,      \* where the search for an index starts
  idx,          \* the index each object owns, 0 for none
  leaked,       \* history: indices whose owner forgot them, or that got none
  outcome       \* how the last call ended

vars == <<pointer_map, counter, idx, leaked, outcome>>

-----------------------------------------------------------------------------
Outcomes == {"none", "registered", "no_free_slot", "unsupported", "unregistered",
             "moved", "found", "not_found"}

IsUnregistered(o) == idx[o] = 0

(* What an assignment to o forgets without removing it from the map. *)
Forgotten(o) == {idx[o]} \ {0}

Init ==
  /\ pointer_map = [i \in 0..MaxIndex |-> IF i = 0 THEN Null ELSE Absent]
  /\ counter = 1
  /\ idx = [o \in Objects |-> 0]
  /\ leaked = {}
  /\ outcome = "none"

-----------------------------------------------------------------------------
(* get_unused_index *)

IsFree(i) == pointer_map[i] = Absent

(* Mutant: the upper bound of the second loop is one too low. *)
WrappedRangeShort == 1..(counter - 2)

(* The two loops: from counter up, then from 1 to below counter. *)
WrappedRange == 1..(counter - 1)
UpperRange == counter..MaxIndex

LeastFree(i, range) ==
  /\ i \in range /\ IsFree(i)
  /\ \A j \in range : IsFree(j) => i <= j

(* Mutant: the search does not ask whether the map has the index. *)
UnusedIndexUnchecked(i) == i = IF counter <= MaxIndex THEN counter ELSE 1

UnusedIndex(i) ==
  \/ LeastFree(i, UpperRange)
  \/ /\ \A j \in UpperRange : ~IsFree(j)
     /\ LeastFree(i, WrappedRange)

NoUnusedIndex == \A j \in UpperRange \union WrappedRange : ~IsFree(j)

-----------------------------------------------------------------------------
(* o = sandbox.get_app_pointer(p) *)

(* Mutant: the counter is advanced by the search and again by the caller. *)
TakeIndexSkips(i, p) ==
  /\ UnusedIndex(i)
  /\ pointer_map' = [pointer_map EXCEPT ![i] = p]
  /\ counter' = i + 2

TakeIndex(i, p) ==
  /\ UnusedIndex(i)
  /\ pointer_map' = [pointer_map EXCEPT ![i] = p]
  /\ counter' = i + 1

GetAppPointer(o, p, i) ==
  /\ i \in Representable
  /\ TakeIndex(i, p)
  /\ idx' = [idx EXCEPT ![o] = i]
  /\ leaked' = leaked \union Forgotten(o)
  /\ outcome' = "registered"

(* The check on the address throws after the index was taken. *)
GetUnsupported(p, i) ==
  /\ i \notin Representable
  /\ TakeIndex(i, p)
  /\ leaked' = leaked \union {i}
  /\ outcome' = "unsupported"
  /\ UNCHANGED idx

(* "Could not find free app pointer slot" *)
GetRefused ==
  /\ NoUnusedIndex
  /\ outcome' = "no_free_slot"
  /\ UNCHANGED <<pointer_map, counter, idx, leaked>>

-----------------------------------------------------------------------------
(* Mutant: move_obj leaves the source's index in place. *)
CopyObject(from, to) ==
  /\ from # to
  /\ idx' = [idx EXCEPT ![to] = idx[from]]
  /\ leaked' = leaked \union Forgotten(to)
  /\ outcome' = "moved"
  /\ UNCHANGED <<pointer_map, counter>>

(* to = std::move(from); an index that to owned is forgotten. *)
MoveObject(from, to) ==
  /\ from # to
  /\ idx' = [idx EXCEPT ![to] = idx[from], ![from] = 0]
  /\ leaked' = leaked \union Forgotten(to)
  /\ outcome' = "moved"
  /\ UNCHANGED <<pointer_map, counter>>

(* Mutant: the object is cleared and its entry stays in the map. *)
UnregisterKeepsEntry(o) ==
  /\ ~IsUnregistered(o)
  /\ idx' = [idx EXCEPT ![o] = 0]
  /\ outcome' = "unregistered"
  /\ UNCHANGED <<pointer_map, counter, leaked>>

(* o.unregister(), or the end of its life, when it owns an index. *)
Unregister(o) ==
  /\ ~IsUnregistered(o)
  /\ pointer_map' = [pointer_map EXCEPT ![idx[o]] = Absent]
  /\ idx' = [idx EXCEPT ![o] = 0]
  /\ outcome' = "unregistered"
  /\ UNCHANGED <<counter, leaked>>

(* Library code hands back any offset below the limit; 0 is always found. *)
LookupIndex(i) ==
  /\ outcome' = IF IsFree(i) THEN "not_found" ELSE "found"
  /\ UNCHANGED <<pointer_map, counter, idx, leaked>>

-----------------------------------------------------------------------------
Next ==
  \/ \E p \in Pointers, i \in 1..MaxIndex :
       GetUnsupported(p, i) \/ \E o \in Objects : GetAppPointer(o, p, i)
  \/ GetRefused
  \/ \E from, to \in Objects : MoveObject(from, to)
  \/ \E o \in Objects : Unregister(o)
  \/ \E i \in 0..MaxIndex : LookupIndex(i)

Spec == Init /\ [][Next]_vars

-----------------------------------------------------------------------------
TypeOK ==
  /\ pointer_map \in [0..MaxIndex -> Pointers \union {Absent}]
  /\ counter \in 1..(MaxIndex + 1)
  /\ idx \in [Objects -> 0..MaxIndex]
  /\ leaked \subseteq 1..MaxIndex
  /\ outcome \in Outcomes

(* Each registered object owns an index of its own, which is in the map, so  *)
(* that its lookup is answered and "removing a non-existing app pointer" is  *)
(* never reported; and index 0 stays null, "as this is sometimes confused as *)
(* null by the sandbox".                                                     *)
OwnIndex ==
  /\ pointer_map[0] = Null
  /\ \A o \in Objects : ~IsFree(idx[o])
  /\ \A o, u \in Objects : idx[o] = idx[u] /\ idx[o] # 0 => o = u

(* Every entry of the map belongs to a registered object, but for those that *)
(* an assignment to a registered object or the failing check of              *)
(* get_app_pointer left behind: there is no other way to lose an index.      *)
EntriesOwned ==
  \A i \in 1..MaxIndex : ~IsFree(i) => i \in leaked \/ \E o \in Objects : idx[o] = i

(* "Could not find free app pointer slot" is reported only when registered   *)
(* objects and lost entries take up every index, wherever the search began.  *)
RefusedOnlyWhenFull ==
  outcome = "no_free_slot" =>
    Cardinality({o \in Objects : ~IsUnregistered(o)}) + Cardinality(leaked) = MaxIndex

-----------------------------------------------------------------------------
Promise == INSTANCE AppPointerPromise
  WITH Nothing <- Absent,
       refers <- [o \in Objects |-> IF IsUnregistered(o) THEN Absent ELSE pointer_map[idx[o]]]

(* Looking up an object's index gives the pointer the object was made from,  *)
(* however indices are freed and given out again.                            *)
ImplementsPromise == Promise!PromiseSpec
=============================================================================
