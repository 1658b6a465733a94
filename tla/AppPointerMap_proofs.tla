------------------------ MODULE AppPointerMap_proofs ------------------------
(***************************************************************************)
(* Proofs about AppPointerMap for any number of objects, pointers and      *)
(* indices.                                                                *)
(***************************************************************************)
EXTENDS AppPointerMap, FiniteSetTheorems, TLAPS

USE MaxIndexAssumption, PointersAssumption

(* An index that is given out is in range, was free, and is not 0. *)
LEMMA TakenIndex ==
  ASSUME TypeOK, NEW i, UnusedIndex(i)
  PROVE  i \in 1..MaxIndex /\ IsFree(i)
BY DEF TypeOK, UnusedIndex, LeastFree, UpperRange, WrappedRange

(* What an assignment forgets is an index. *)
LEMMA ForgottenRange ==
  ASSUME TypeOK, NEW o \in Objects
  PROVE  leaked \union Forgotten(o) \subseteq 1..MaxIndex
<1>1. idx[o] \in 0..MaxIndex /\ leaked \subseteq 1..MaxIndex
  BY DEF TypeOK
<1>2. idx[o] # 0 => idx[o] \in 1..MaxIndex
  BY <1>1
<1> QED BY <1>1, <1>2 DEF Forgotten

MapInv == TypeOK /\ OwnIndex

LEMMA MapInit == Init => MapInv
BY DEF Init, MapInv, TypeOK, OwnIndex, Outcomes, IsFree

LEMMA MapStep == MapInv /\ [Next]_vars => MapInv'
<1> SUFFICES ASSUME MapInv, [Next]_vars PROVE MapInv'
  OBVIOUS
<1> USE DEF MapInv, TypeOK, OwnIndex, Outcomes, IsFree
<1>1. ASSUME NEW p \in Pointers, NEW i \in 1..MaxIndex, GetUnsupported(p, i)
      PROVE  MapInv'
  <2>1. IsFree(i)
    BY <1>1, TakenIndex DEF GetUnsupported, TakeIndex
  <2> QED BY <1>1, <2>1 DEF GetUnsupported, TakeIndex
<1>2. ASSUME NEW p \in Pointers, NEW i \in 1..MaxIndex, NEW o \in Objects, GetAppPointer(o, p, i)
      PROVE  MapInv'
  <2>1. IsFree(i)
    BY <1>2, TakenIndex DEF GetAppPointer, TakeIndex
  <2>2. leaked' \subseteq 1..MaxIndex
    BY <1>2, ForgottenRange DEF GetAppPointer
  <2>3. /\ pointer_map' = [pointer_map EXCEPT ![i] = p]
        /\ counter' = i + 1
        /\ idx' = [idx EXCEPT ![o] = i]
        /\ outcome' = "registered"
    BY <1>2 DEF GetAppPointer, TakeIndex
  <2> QED BY <2>1, <2>2, <2>3
<1>3. CASE GetRefused
  BY <1>3 DEF GetRefused
<1>4. ASSUME NEW from \in Objects, NEW to \in Objects, MoveObject(from, to) PROVE MapInv'
  <2>1. leaked' \subseteq 1..MaxIndex
    BY <1>4, ForgottenRange DEF MoveObject
  <2>2. /\ from # to
        /\ idx' = [idx EXCEPT ![to] = idx[from], ![from] = 0]
        /\ outcome' = "moved"
        /\ UNCHANGED <<pointer_map, counter>>
    BY <1>4 DEF MoveObject
  <2> QED BY <2>1, <2>2
<1>5. ASSUME NEW o \in Objects, Unregister(o) PROVE MapInv'
  BY <1>5 DEF Unregister, IsUnregistered
<1>6. ASSUME NEW i \in 0..MaxIndex, LookupIndex(i) PROVE MapInv'
  BY <1>6 DEF LookupIndex
<1>7. CASE UNCHANGED vars
  BY <1>7 DEF vars
<1> QED BY <1>1, <1>2, <1>3, <1>4, <1>5, <1>6, <1>7 DEF Next

LEMMA MapInvariant == Spec => []MapInv
BY MapInit, MapStep, PTL DEF Spec

(* Type correctness, the range of the counter included. *)
THEOREM TypeCorrect == Spec => []TypeOK
<1>1. MapInv => TypeOK
  BY DEF MapInv
<1> QED BY <1>1, MapInvariant, PTL

(* Registered objects own distinct indices that are in the map. *)
THEOREM IndexIsOwned == Spec => []OwnIndex
<1>1. MapInv => OwnIndex
  BY DEF MapInv
<1> QED BY <1>1, MapInvariant, PTL

-----------------------------------------------------------------------------
(***************************************************************************)
(* Refinement: the pointer an object's index looks up is an abstract       *)
(* reference.                                                              *)
(***************************************************************************)
Refers == [o \in Objects |-> IF IsUnregistered(o) THEN Absent ELSE pointer_map[idx[o]]]

(* The map of indices keeps the promise of AppPointerPromise. *)
THEOREM KeepsPromise == Spec => ImplementsPromise
<1>1. Init => Promise!PromiseInit
  BY DEF Init, Promise!PromiseInit, IsUnregistered
<1>2. ASSUME MapInv, [Next]_vars PROVE [Promise!PromiseNext]_Refers
  <2> USE <1>2 DEF MapInv, TypeOK, OwnIndex, Refers, IsUnregistered, IsFree
  <2>1. ASSUME NEW p \in Pointers, NEW i \in 1..MaxIndex, GetUnsupported(p, i)
        PROVE  UNCHANGED Refers
    <3>1. IsFree(i)
      BY <2>1, TakenIndex DEF GetUnsupported, TakeIndex
    <3> QED BY <2>1, <3>1 DEF GetUnsupported, TakeIndex
  <2>2. ASSUME NEW p \in Pointers, NEW i \in 1..MaxIndex, NEW o \in Objects,
               GetAppPointer(o, p, i)
        PROVE  Promise!Get(o, p)
    <3>1. IsFree(i)
      BY <2>2, TakenIndex DEF GetAppPointer, TakeIndex
    <3>2. /\ idx' = [idx EXCEPT ![o] = i]
          /\ pointer_map' = [pointer_map EXCEPT ![i] = p]
      BY <2>2 DEF GetAppPointer, TakeIndex
    <3>3. ASSUME NEW x \in Objects
          PROVE  (IF idx'[x] = 0 THEN Absent ELSE pointer_map'[idx'[x]]) =
                   IF x = o THEN p ELSE IF idx[x] = 0 THEN Absent ELSE pointer_map[idx[x]]
      <4>1. CASE x = o  BY <4>1, <3>2
      <4>2. CASE x # o
        <5>1. idx'[x] = idx[x] /\ idx[x] # i
          BY <3>1, <3>2, <4>2
        <5> QED BY <3>2, <4>2, <5>1
      <4> QED BY <4>1, <4>2
    <3> QED BY <3>3 DEF Promise!Get
  <2>3. CASE GetRefused
    BY <2>3 DEF GetRefused
  <2>4. ASSUME NEW from \in Objects, NEW to \in Objects, MoveObject(from, to)
        PROVE  Promise!Move(from, to)
    BY <2>4 DEF MoveObject, Promise!Move
  <2>5. ASSUME NEW o \in Objects, Unregister(o) PROVE Promise!Unregister(o)
    BY <2>5 DEF Unregister, Promise!Unregister
  <2>6. ASSUME NEW i \in 0..MaxIndex, LookupIndex(i) PROVE UNCHANGED Refers
    BY <2>6 DEF LookupIndex
  <2>7. CASE UNCHANGED vars
    BY <2>7 DEF vars
  <2> QED BY <2>1, <2>2, <2>3, <2>4, <2>5, <2>6, <2>7 DEF Next, Promise!PromiseNext
<1> QED BY <1>1, <1>2, MapInvariant, PTL
        DEF Spec, ImplementsPromise, Promise!PromiseSpec, Refers
-----------------------------------------------------------------------------
(***************************************************************************)
(* Every index of the map is accounted for: it is owned by one object, or  *)
(* lost for good, and not both.                                            *)
(***************************************************************************)
LostApart == \A i \in leaked : ~IsFree(i) /\ \A o \in Objects : idx[o] # i

(* A search that fails has looked at every index. *)
RefusalInv == outcome = "no_free_slot" => \A i \in 1..MaxIndex : ~IsFree(i)

Account == LostApart /\ EntriesOwned /\ RefusalInv

OwnersInv == MapInv /\ Account

LEMMA OwnersStep == OwnersInv /\ [Next]_vars => OwnersInv'
<1> SUFFICES ASSUME OwnersInv, [Next]_vars PROVE Account'
  BY MapStep DEF OwnersInv
<1> USE DEF OwnersInv, MapInv, TypeOK, OwnIndex, Account, LostApart, EntriesOwned, RefusalInv,
        IsFree, Outcomes
<1>1. ASSUME NEW p \in Pointers, NEW i \in 1..MaxIndex, GetUnsupported(p, i)
      PROVE  Account'
  <2>1. IsFree(i)
    BY <1>1, TakenIndex DEF GetUnsupported, TakeIndex
  <2> QED BY <1>1, <2>1 DEF GetUnsupported, TakeIndex
<1>2. ASSUME NEW p \in Pointers, NEW i \in 1..MaxIndex, NEW o \in Objects, GetAppPointer(o, p, i)
      PROVE  Account'
  <2>1. IsFree(i)
    BY <1>2, TakenIndex DEF GetAppPointer, TakeIndex
  <2>2. LostApart'
    BY <1>2, <2>1 DEF GetAppPointer, TakeIndex, Forgotten
  <2>3. ASSUME NEW j \in 1..MaxIndex, ~IsFree(j)'
        PROVE  j \in leaked' \/ \E u \in Objects : idx'[u] = j
    <3>1. CASE j = i  BY <1>2, <3>1 DEF GetAppPointer
    <3>2. CASE j # i
      <4>1. j \in leaked \/ \E u \in Objects : idx[u] = j
        BY <1>2, <2>3, <3>2 DEF GetAppPointer, TakeIndex
      <4> QED BY <1>2, <4>1 DEF GetAppPointer, Forgotten
    <3> QED BY <3>1, <3>2
  <2> QED BY <1>2, <2>2, <2>3 DEF GetAppPointer
<1>3. CASE GetRefused
  BY <1>3 DEF GetRefused, NoUnusedIndex, UpperRange, WrappedRange
<1>4. ASSUME NEW from \in Objects, NEW to \in Objects, MoveObject(from, to)
      PROVE  Account'
  <2>1. LostApart'
    BY <1>4 DEF MoveObject, Forgotten
  <2>2. ASSUME NEW i \in 1..MaxIndex, ~IsFree(i)
        PROVE  i \in leaked' \/ \E o \in Objects : idx'[o] = i
    <3>1. CASE i \in leaked  BY <1>4, <3>1 DEF MoveObject
    <3>2. ASSUME NEW o \in Objects, idx[o] = i
          PROVE  i \in leaked' \/ \E u \in Objects : idx'[u] = i
      <4>1. CASE o = from  BY <1>4, <3>2, <4>1 DEF MoveObject
      <4>2. CASE o = to    BY <1>4, <2>2, <3>2, <4>2 DEF MoveObject, Forgotten
      <4>3. CASE o \notin {from, to}  BY <1>4, <3>2, <4>3 DEF MoveObject
      <4> QED BY <4>1, <4>2, <4>3
    <3> QED BY <2>2, <3>1, <3>2
  <2> QED BY <1>4, <2>1, <2>2 DEF MoveObject
<1>5. ASSUME NEW o \in Objects, Unregister(o) PROVE Account'
  <2>1. LostApart'
    BY <1>5 DEF Unregister, IsUnregistered
  <2>2. ASSUME NEW i \in 1..MaxIndex, ~IsFree(i)'
        PROVE  i \in leaked' \/ \E u \in Objects : idx'[u] = i
    <3>1. i # idx[o] /\ ~IsFree(i)
      BY <1>5, <2>2 DEF Unregister
    <3>2. i \in leaked \/ \E u \in Objects : idx[u] = i
      BY <3>1
    <3> QED BY <1>5, <3>1, <3>2 DEF Unregister
  <2> QED BY <1>5, <2>1, <2>2 DEF Unregister
<1>6. ASSUME NEW i \in 0..MaxIndex, LookupIndex(i) PROVE Account'
  BY <1>6 DEF LookupIndex
<1>7. CASE UNCHANGED vars
  BY <1>7 DEF vars
<1> QED BY <1>1, <1>2, <1>3, <1>4, <1>5, <1>6, <1>7 DEF Next

LEMMA OwnersInvariant == Spec => []OwnersInv
<1>1. Init => OwnersInv
  BY MapInit DEF Init, OwnersInv, Account, LostApart, EntriesOwned, RefusalInv, IsFree
<1> QED BY <1>1, OwnersStep, PTL DEF Spec

(* No entry is lost but by assigning to a registered object or by the        *)
(* failing check of get_app_pointer.                                         *)
THEOREM NoEntryLeaks == Spec => []EntriesOwned
<1>1. OwnersInv => EntriesOwned
  BY DEF OwnersInv, Account
<1> QED BY <1>1, OwnersInvariant, PTL

(* A request is refused only when every index is owned or lost: the          *)
(* registered objects are then in bijection with the indices not lost.       *)
THEOREM RefusedWhenFull == Spec => []RefusedOnlyWhenFull
<1>1. ASSUME OwnersInv PROVE RefusedOnlyWhenFull
  <2> SUFFICES ASSUME outcome = "no_free_slot"
               PROVE  Cardinality({o \in Objects : ~IsUnregistered(o)}) + Cardinality(leaked)
                        = MaxIndex
    BY DEF RefusedOnlyWhenFull
  <2> DEFINE R == {o \in Objects : ~IsUnregistered(o)}
             held == (1..MaxIndex) \ leaked
             f == [i \in held |-> CHOOSE o \in Objects : idx[o] = i]
  <2>1. \A i \in held : f[i] \in Objects /\ idx[f[i]] = i
    BY <1>1 DEF OwnersInv, Account, RefusalInv, EntriesOwned
  <2>2. f \in [held -> R]
    BY <2>1 DEF IsUnregistered
  <2> HIDE DEF f
  <2>3. \A i, j \in held : f[i] = f[j] => i = j
    BY <2>1
  <2>4. \A o \in R : \E i \in held : f[i] = o
    <3> SUFFICES ASSUME NEW o \in R PROVE \E i \in held : f[i] = o
      OBVIOUS
    <3>1. idx[o] \in held
      BY <1>1 DEF IsUnregistered, OwnersInv, MapInv, TypeOK, Account, LostApart
    <3>2. f[idx[o]] \in Objects /\ idx[f[idx[o]]] = idx[o] /\ idx[o] # 0
      BY <2>1, <3>1
    <3>3. f[idx[o]] = o
      BY <1>1, <3>2 DEF OwnersInv, MapInv, OwnIndex
    <3> QED BY <3>1, <3>3
  <2>5. ExistsBijection(held, R)
    <3> HIDE DEF R, held
    <3>1. f \in Injection(held, R)
      BY <2>2, <2>3 DEF Injection, IsInjective
    <3>2. f \in Surjection(held, R)
      BY <2>2, <2>4 DEF Surjection
    <3> QED BY <3>1, <3>2 DEF ExistsBijection, Bijection
  <2>6. leaked \in SUBSET (1..MaxIndex)
    BY <1>1 DEF OwnersInv, MapInv, TypeOK
  <2>7. IsFiniteSet(1..MaxIndex) /\ Cardinality(1..MaxIndex) = MaxIndex
    BY FS_Interval
  <2>8. IsFiniteSet(leaked) /\ Cardinality(leaked) \in Nat
    BY <2>6, <2>7, FS_Subset, FS_CardinalityType
  <2>9. IsFiniteSet(held) /\ Cardinality(held) = MaxIndex - Cardinality(leaked)
    <3>1. (1..MaxIndex) \cap leaked = leaked
      BY <2>6
    <3> QED BY <2>7, <3>1, FS_Difference
  <2>10. Cardinality(R) = Cardinality(held)
    <3> HIDE DEF R, held
    <3> QED BY <2>5, <2>9, FS_Bijection
  <2> QED BY <2>8, <2>9, <2>10
<1> QED BY <1>1, OwnersInvariant, PTL
=============================================================================
