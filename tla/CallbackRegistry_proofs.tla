----------------------- MODULE CallbackRegistry_proofs -----------------------
(***************************************************************************)
(* Proofs about CallbackRegistry for any number of threads, functions,     *)
(* objects and table entries: first whether or not objects are overwritten *)
(* or outlive the sandbox, then for objects used as owners and for a table *)
(* with room for every function.                                           *)
(***************************************************************************)
EXTENDS CallbackRegistry, FiniteSetTheorems, TLAPS

USE NoKeyAssumption, NoHandleAssumption, MaxCallbacksAssumption

(* The fields of a sandbox_callback object. *)
LEMMA HandleFields ==
  /\ NullHandle \in HandleState /\ NullHandle.key = NoKey /\ NullHandle.trampoline = 0
  /\ \A r \in HandleState : r.key \in Functions \union {NoKey} /\ r.trampoline \in Slots \union {0}
  /\ \A f \in Functions \union {NoKey}, n \in Slots \union {0} :
       LET r == [key |-> f, trampoline |-> n]
       IN r \in HandleState /\ r.key = f /\ r.trampoline = n
  BY DEF NullHandle, HandleState, Slots

LEMMA TypeStep == TypeOK /\ [Next]_vars => TypeOK'
<1> SUFFICES ASSUME TypeOK, [Next]_vars PROVE TypeOK'
  OBVIOUS
<1> USE HandleFields DEF TypeOK, Steps, Registering, Unregistering,
        Outcomes, tables, locals, Begin, Goto, End, Report
<1>1. CASE CreateSandbox   BY <1>1 DEF CreateSandbox
<1>2. CASE DestroySandbox  BY <1>2 DEF DestroySandbox
<1>3. ASSUME NEW from \in Handles, NEW to \in Handles, MoveHandle(from, to) PROVE TypeOK'
  BY <1>3 DEF MoveHandle
<1>4. ASSUME NEW t \in Threads, Call(t) PROVE TypeOK'
  <2>1. CASE RegisterNotCreated(t)  BY <2>1 DEF RegisterNotCreated
  <2>2. ASSUME NEW f \in Functions, RegisterRefused(t, f) PROVE TypeOK'
    BY <2>2 DEF RegisterRefused
  <2>3. ASSUME NEW f \in Functions, NEW h \in Handles, RegisterKey(t, h, f) PROVE TypeOK'
    BY <2>3 DEF RegisterKey
  <2>4. ASSUME NEW h \in Handles, UnregisterSwallowed(t, h) PROVE TypeOK'
    BY <2>4 DEF UnregisterSwallowed
  <2>5. ASSUME NEW h \in Handles, UnregisterBegin(t, h) PROVE TypeOK'
    BY <2>5 DEF UnregisterBegin, IsUnregistered
  <2> QED BY <1>4, <2>1, <2>2, <2>3, <2>4, <2>5 DEF Call
<1>5. ASSUME NEW t \in Threads, Continue(t) PROVE TypeOK'
  <2>1. CASE RegisterImpl(t)     BY <2>1 DEF RegisterImpl
  <2>2. CASE RegisterBuild(t)    BY <2>2 DEF RegisterBuild
  <2>3. CASE UnregisterImpl(t)   BY <2>3 DEF UnregisterImpl
  <2>4. CASE UnregisterErase(t)  BY <2>4 DEF UnregisterErase, Exists
  <2> QED BY <1>5, <2>1, <2>2, <2>3, <2>4 DEF Continue
<1>6. CASE UNCHANGED vars  BY <1>6 DEF vars
<1> QED BY <1>1, <1>2, <1>3, <1>4, <1>5, <1>6 DEF Next

LEMMA InitType == Init => TypeOK
<1> SUFFICES ASSUME Init PROVE TypeOK
  OBVIOUS
<1>1. handle \in [Handles -> HandleState]
  BY HandleFields DEF Init
<1>2. created \in BOOLEAN /\ callback_keys \in [Functions -> Nat]
      /\ callback_unique_keys \in [Slots -> Functions \union {NoKey}]
  BY DEF Init
<1>3. pc \in [Threads -> Steps] /\ outcome \in [Threads -> Outcomes]
  BY DEF Init, Steps, Outcomes
<1>4. /\ target \in [Threads -> Handles \union {NoHandle}]
      /\ key \in [Threads -> Functions \union {NoKey}]
      /\ trampoline \in [Threads -> Slots \union {0}]
  BY DEF Init
<1>5. \A t \in Threads : pc[t] # "idle" => key[t] \in Functions /\ target[t] \in Handles
  BY DEF Init
<1> QED BY <1>1, <1>2, <1>3, <1>4, <1>5 DEF TypeOK

(* Type correctness of the registry, for every size of its tables. *)
THEOREM TypeCorrect == Spec => []TypeOK
BY InitType, TypeStep, PTL DEF Spec

-----------------------------------------------------------------------------
(***************************************************************************)
(* The four properties of this section hold together: an owner, be it an   *)
(* object or a call in progress, holds its key alone, and where the call   *)
(* has got to says which of the two tables still have that key.            *)
(***************************************************************************)
Busy(t) == pc[t] # "idle"

(* Calls in progress are about objects of their own. *)
TargetsApart ==
  \A t, u \in Threads : Busy(t) /\ Busy(u) /\ target[t] = target[u] => t = u

(* Whatever is owned is in callback_keys. *)
OwnedIsKeyed ==
  /\ \A h \in Handles : handle[h].key # NoKey => callback_keys[handle[h].key] = 1
  /\ \A t \in Threads : Busy(t) => callback_keys[key[t]] = 1

(* What the plugin's table says of a key on its way in or out. *)
InProgress ==
  \A t \in Threads :
    /\ pc[t] \in {"reg_impl", "unreg_erase"} =>
         \A n \in Slots : callback_unique_keys[n] # key[t]
    /\ pc[t] = "reg_build" /\ trampoline[t] # 0 =>
         callback_unique_keys[trampoline[t]] = key[t]
    /\ pc[t] \in Unregistering => handle[target[t]].key = key[t]

(* An object with a trampoline owns a key. *)
TrampolineOwned == \A h \in Handles : handle[h].trampoline # 0 => handle[h].key # NoKey

RegistryInv ==
  /\ TypeOK /\ TablesAgree /\ OneOwner /\ TrampolineReachesKey
  /\ TargetsApart /\ OwnedIsKeyed /\ InProgress /\ TrampolineOwned

LEMMA RegistryStep == RegistryInv /\ [Next]_vars => RegistryInv'
<1> SUFFICES ASSUME RegistryInv, [Next]_vars PROVE RegistryInv'
  OBVIOUS
<1>0. TypeOK /\ TypeOK'
  BY TypeStep DEF RegistryInv
<1> USE HandleFields DEF RegistryInv, TablesAgree, OneOwner, TrampolineReachesKey, TargetsApart,
        OwnedIsKeyed, InProgress, TrampolineOwned, Busy, Registering, Unregistering, Exists,
        tables, locals
<1>1. CASE CreateSandbox   BY <1>0, <1>1 DEF CreateSandbox
<1>2. CASE DestroySandbox  BY <1>0, <1>2 DEF DestroySandbox
<1>3. ASSUME NEW from \in Handles, NEW to \in Handles, MoveHandle(from, to) PROVE RegistryInv'
  <2>0. /\ UNCHANGED <<callback_keys, callback_unique_keys, pc, target, key, trampoline>>
        /\ \A t \in Threads : target[t] # from /\ target[t] # to
        /\ \A h \in Handles : handle'[h] = IF h = from THEN NullHandle
                                           ELSE IF h = to THEN handle[from] ELSE handle[h]
    BY <1>0, <1>3 DEF MoveHandle, Assignable, InUse, TypeOK
  <2>1. TablesAgree'
    BY <1>0, <2>0 DEF TypeOK
  <2>2. OneOwner'
    <3> SUFFICES ASSUME NEW f \in Functions
                 PROVE  /\ \A g, h \in Handles :
                             handle'[g].key = f /\ handle'[h].key = f => g = h
                        /\ \A t, u \in Threads :
                             pc[t] # "idle" /\ pc[u] # "idle" /\ key[t] = f /\ key[u] = f => t = u
                        /\ \A t \in Threads, h \in Handles :
                             pc[t] \in Registering /\ key[t] = f => handle'[h].key # f
      BY <2>0 DEF OneOwner
    <3>1. \A h \in Handles : handle'[h].key = f =>
            \/ h = to /\ h # from /\ handle[from].key = f
            \/ h # to /\ h # from /\ handle[h].key = f
      BY <2>0
    <3> QED BY <3>1
  <2>3. TrampolineReachesKey'
    <3> SUFFICES ASSUME NEW h \in Handles, handle'[h].trampoline # 0,
                        \A u \in Threads : target[u] = h => pc[u] # "unreg_erase"
                 PROVE callback_unique_keys[handle'[h].trampoline] = handle'[h].key
      BY <2>0
    <3>1. CASE h = from  BY <2>0, <3>1
    <3>2. CASE h = to /\ h # from  BY <2>0, <3>2
    <3>3. CASE h # to /\ h # from
      <4>1. handle'[h] = handle[h]
        BY <2>0, <3>3
      <4> QED BY <4>1, <2>0
    <3> QED BY <3>1, <3>2, <3>3
  <2>4. TargetsApart'
    BY <1>0, <2>0 DEF TypeOK
  <2>5. OwnedIsKeyed'
    BY <1>0, <2>0 DEF TypeOK
  <2>6. InProgress'
    BY <1>0, <2>0 DEF TypeOK
  <2>7. TrampolineOwned'
    BY <1>0, <2>0 DEF TypeOK
  <2> QED BY <1>0, <2>1, <2>2, <2>3, <2>4, <2>5, <2>6, <2>7
<1>4. ASSUME NEW t \in Threads, Call(t) PROVE RegistryInv'
  <2>1. CASE RegisterNotCreated(t)  BY <1>0, <2>1 DEF RegisterNotCreated, Report
  <2>2. ASSUME NEW f \in Functions, RegisterRefused(t, f) PROVE RegistryInv'
    BY <1>0, <2>2 DEF RegisterRefused, Report
  <2>3. ASSUME NEW f \in Functions, NEW h \in Handles, RegisterKey(t, h, f) PROVE RegistryInv'
    BY <1>0, <2>3 DEF RegisterKey, Assignable, InUse, Begin, TypeOK
  <2>4. ASSUME NEW h \in Handles, UnregisterSwallowed(t, h) PROVE RegistryInv'
    BY <1>0, <2>4 DEF UnregisterSwallowed, InUse, TypeOK
  <2>5. ASSUME NEW h \in Handles, UnregisterBegin(t, h) PROVE RegistryInv'
    <3>1. TablesAgree'
      BY <1>0, <2>5 DEF UnregisterBegin, InUse, IsUnregistered, Begin, TypeOK
    <3>2. OneOwner'
      <4>1. \A u \in Threads : Busy(u) => key[u] # handle[h].key
        BY <1>0, <2>5 DEF UnregisterBegin, InUse, IsUnregistered, TypeOK, Steps
      <4> QED BY <1>0, <2>5, <4>1 DEF UnregisterBegin, Begin, TypeOK
    <3>3. TrampolineReachesKey'
      BY <1>0, <2>5 DEF UnregisterBegin, InUse, IsUnregistered, Begin, TypeOK
    <3>4. TargetsApart'
      BY <1>0, <2>5 DEF UnregisterBegin, InUse, IsUnregistered, Begin, TypeOK
    <3>5. OwnedIsKeyed'
      BY <1>0, <2>5 DEF UnregisterBegin, InUse, IsUnregistered, Begin, TypeOK
    <3>6. InProgress'
      BY <1>0, <2>5 DEF UnregisterBegin, InUse, IsUnregistered, Begin, TypeOK
    <3>7. TrampolineOwned'
      BY <1>0, <2>5 DEF UnregisterBegin, InUse, IsUnregistered, Begin, TypeOK
    <3> QED BY <1>0, <3>1, <3>2, <3>3, <3>4, <3>5, <3>6, <3>7
  <2> QED BY <1>4, <2>1, <2>2, <2>3, <2>4, <2>5 DEF Call
<1>5. ASSUME NEW t \in Threads, Continue(t) PROVE RegistryInv'
  <2>1. CASE RegisterImpl(t)
    BY <1>0, <2>1 DEF RegisterImpl, Chosen, IsFree, Goto, TypeOK
  <2>2. CASE RegisterBuild(t)
    BY <1>0, <2>2 DEF RegisterBuild, End, TypeOK
  <2>3. CASE UnregisterImpl(t)
    <3>0. /\ UNCHANGED <<callback_keys, handle, target, key, trampoline>>
          /\ pc[t] = "unreg_impl" /\ pc' = [pc EXCEPT ![t] = "unreg_erase"]
          /\ \A n \in Slots : callback_unique_keys'[n] =
               IF callback_unique_keys[n] = key[t] THEN NoKey ELSE callback_unique_keys[n]
      BY <1>0, <2>3 DEF UnregisterImpl, IsFirst, Goto, TypeOK, Slots
    <3>1. TablesAgree'
      BY <1>0, <3>0 DEF TypeOK
    <3>2. OneOwner'
      BY <1>0, <3>0 DEF TypeOK
    <3>3. TrampolineReachesKey'
      BY <1>0, <3>0 DEF TypeOK
    <3>4. TargetsApart'
      BY <1>0, <3>0 DEF TypeOK
    <3>5. OwnedIsKeyed'
      BY <1>0, <3>0 DEF TypeOK
    <3>6. InProgress'
      BY <1>0, <3>0 DEF TypeOK
    <3>7. TrampolineOwned'
      BY <1>0, <3>0 DEF TypeOK
    <3> QED BY <1>0, <3>1, <3>2, <3>3, <3>4, <3>5, <3>6, <3>7
  <2>4. CASE UnregisterErase(t)
    <3>0. /\ UNCHANGED callback_unique_keys
          /\ pc[t] = "unreg_erase" /\ pc' = [pc EXCEPT ![t] = "idle"]
          /\ \A u \in Threads : u # t =>
               target'[u] = target[u] /\ key'[u] = key[u] /\ trampoline'[u] = trampoline[u]
          /\ \A f \in Functions :
               callback_keys'[f] = IF f = key[t] THEN 0 ELSE callback_keys[f]
          /\ target[t] \in Handles /\ handle'[target[t]] = NullHandle
          /\ \A h \in Handles : h # target[t] => handle'[h] = handle[h]
      BY <1>0, <2>4 DEF UnregisterErase, End, TypeOK
    <3>1. /\ handle'[target[t]].key = NoKey /\ handle'[target[t]].trampoline = 0
          /\ key[t] \in Functions
          /\ \A h \in Handles : h # target[t] => handle[h].key # key[t]
          /\ \A u \in Threads : u # t /\ Busy(u) => key[u] # key[t] /\ target[u] # target[t]
      BY <1>0, <3>0 DEF TypeOK
    <3>2. TablesAgree'
      BY <1>0, <3>0 DEF TypeOK
    <3>3. OneOwner'
      <4> SUFFICES ASSUME NEW f \in Functions
                   PROVE  /\ \A g, h \in Handles :
                               handle'[g].key = f /\ handle'[h].key = f => g = h
                          /\ \A u, v \in Threads :
                               Busy(u)' /\ Busy(v)' /\ key'[u] = f /\ key'[v] = f => u = v
                          /\ \A u \in Threads, h \in Handles :
                               pc'[u] \in Registering /\ key'[u] = f => handle'[h].key # f
        BY DEF OneOwner
      <4>1. \A u \in Threads : Busy(u)' => u # t /\ Busy(u) /\ key'[u] = key[u] /\ pc'[u] = pc[u]
        BY <1>0, <3>0 DEF TypeOK
      <4>2. \A h \in Handles : handle'[h].key = f => h # target[t] /\ handle[h].key = f
        BY <3>0, <3>1
      <4>3. \A u \in Threads : pc'[u] \in Registering => Busy(u)'
        OBVIOUS
      <4> QED BY <4>1, <4>2, <4>3
    <3>4. TrampolineReachesKey'
      <4> SUFFICES ASSUME NEW h \in Handles, handle'[h].trampoline # 0,
                          \A u \in Threads : target'[u] = h => pc'[u] # "unreg_erase"
                   PROVE callback_unique_keys[handle'[h].trampoline] = handle'[h].key
        BY <3>0
      <4>1. h # target[t] /\ handle'[h] = handle[h]
        BY <3>0, <3>1
      <4>2. \A u \in Threads : target[u] = h => pc[u] # "unreg_erase"
        BY <1>0, <3>0, <4>1 DEF TypeOK
      <4> QED BY <4>1, <4>2
    <3>5. TargetsApart'
      BY <1>0, <3>0 DEF TypeOK
    <3>6. OwnedIsKeyed'
      <4>1. \A h \in Handles : handle'[h].key # NoKey => callback_keys'[handle'[h].key] = 1
        <5> TAKE h \in Handles
        <5> HAVE handle'[h].key # NoKey
        <5>1. h # target[t] /\ handle'[h] = handle[h] /\ handle[h].key # key[t]
          BY <3>0, <3>1
        <5>2. handle[h].key \in Functions
          BY <1>0, <5>1 DEF TypeOK
        <5> QED BY <3>0, <5>1, <5>2
      <4>2. \A u \in Threads : Busy(u)' => callback_keys'[key'[u]] = 1
        <5> TAKE u \in Threads
        <5> HAVE Busy(u)'
        <5>1. u # t /\ Busy(u) /\ key'[u] = key[u] /\ key[u] \in Functions
          BY <1>0, <3>0 DEF TypeOK
        <5> QED BY <3>0, <3>1, <5>1
      <4> QED BY <4>1, <4>2
    <3>7. InProgress'
      BY <1>0, <3>0, <3>1 DEF TypeOK
    <3>8. TrampolineOwned'
      BY <1>0, <3>0, <3>1 DEF TypeOK
    <3> QED BY <1>0, <3>2, <3>3, <3>4, <3>5, <3>6, <3>7, <3>8
  <2> QED BY <1>5, <2>1, <2>2, <2>3, <2>4 DEF Continue
<1>6. CASE UNCHANGED vars  BY <1>0, <1>6 DEF vars
<1> QED BY <1>1, <1>2, <1>3, <1>4, <1>5, <1>6 DEF Next

LEMMA RegistryInvariant == Spec => []RegistryInv
<1>1. Init => RegistryInv
  <2>2. Init => TablesAgree  BY DEF Init, TablesAgree, Exists
  <2>3. Init => OneOwner  BY HandleFields DEF Init, OneOwner, Registering
  <2>4. Init => TrampolineReachesKey  BY HandleFields DEF Init, TrampolineReachesKey
  <2>5. Init => TargetsApart  BY DEF Init, TargetsApart, Busy
  <2>6. Init => OwnedIsKeyed  BY HandleFields DEF Init, OwnedIsKeyed, Busy
  <2>7. Init => InProgress  BY DEF Init, InProgress, Unregistering
  <2>8. Init => TrampolineOwned  BY HandleFields DEF Init, TrampolineOwned
  <2> QED BY InitType, <2>2, <2>3, <2>4, <2>5, <2>6, <2>7, <2>8 DEF RegistryInv
<1> QED BY <1>1, RegistryStep, PTL DEF Spec

(* No callback ever has two owning objects, however registrations, moves,    *)
(* unregistrations and destructions of the sandbox interleave.               *)
THEOREM SingleOwner == Spec => []OneOwner
<1>1. RegistryInv => OneOwner  BY DEF RegistryInv
<1> QED BY <1>1, RegistryInvariant, PTL

(* The core's vector and the plugin's table never disagree. *)
THEOREM TablesConsistent == Spec => []TablesAgree
<1>1. RegistryInv => TablesAgree  BY DEF RegistryInv
<1> QED BY <1>1, RegistryInvariant, PTL

(* unregister_callback never fails its "never registered" check. *)
THEOREM UnregisterSafe == Spec => []UnregisterFindsKey
<1>1. RegistryInv => UnregisterFindsKey
  BY DEF RegistryInv, OwnedIsKeyed, UnregisterFindsKey, Busy, Exists
<1> QED BY <1>1, RegistryInvariant, PTL

(* A trampoline handed to the sandbox stays bound to its owner's function. *)
THEOREM TrampolineBound == Spec => []TrampolineReachesKey
<1>1. RegistryInv => TrampolineReachesKey  BY DEF RegistryInv
<1> QED BY <1>1, RegistryInvariant, PTL

-----------------------------------------------------------------------------
(***************************************************************************)
(* While objects are used as owners - never assigned to when they own a    *)
(* callback, and unregistered before the sandbox is destroyed - no         *)
(* registration is lost; and with a table that has an entry for each       *)
(* function, no registered object is without a trampoline.                 *)
(***************************************************************************)
UsedAsOwners == ~Overwrites /\ ~OutliveSandbox
RoomForAll == IsFiniteSet(Functions) /\ Cardinality(Functions) <= MAX_CALLBACKS

OwnersInv ==
  /\ NoOrphanKeys
  /\ \A t \in Threads : pc[t] \in Registering => IsUnregistered(target[t])
  /\ ~created => /\ \A h \in Handles : IsUnregistered(h)
                 /\ \A t \in Threads : ~Busy(t)

LEMMA OwnersStep ==
  ASSUME UsedAsOwners, RegistryInv, OwnersInv, [Next]_vars
  PROVE  OwnersInv'
<1>0. TypeOK /\ TypeOK'
  BY TypeStep DEF RegistryInv
<1> USE HandleFields DEF UsedAsOwners, OwnersInv, NoOrphanKeys, Owned, IsUnregistered, Exists,
        Busy, Registering, tables, locals
<1>1. CASE CreateSandbox   BY <1>0, <1>1 DEF CreateSandbox
<1>2. CASE DestroySandbox  BY <1>0, <1>2 DEF DestroySandbox
<1>3. ASSUME NEW from \in Handles, NEW to \in Handles, MoveHandle(from, to) PROVE OwnersInv'
  <2>0. /\ UNCHANGED <<created, callback_keys, pc, target, key>>
        /\ \A t \in Threads : target[t] # from /\ target[t] # to
        /\ from # to /\ handle'[to] = handle[from] /\ handle'[from] = NullHandle
        /\ handle[to].key = NoKey
        /\ \A h \in Handles : h # from /\ h # to => handle'[h] = handle[h]
    BY <1>0, <1>3 DEF MoveHandle, Assignable, InUse, TypeOK
  <2>1. NoOrphanKeys'
    <3> SUFFICES ASSUME NEW f \in Functions, callback_keys[f] > 0 PROVE Owned(f)'
      BY <2>0
    <3>1. CASE \E t \in Threads : pc[t] # "idle" /\ key[t] = f  BY <2>0, <3>1
    <3>2. ASSUME NEW h \in Handles, handle[h].key = f PROVE Owned(f)'
      BY <2>0, <3>2
    <3> QED BY <3>1, <3>2
  <2> QED BY <1>0, <2>0, <2>1 DEF TypeOK
<1>4. ASSUME NEW t \in Threads, Call(t) PROVE OwnersInv'
  <2>1. CASE RegisterNotCreated(t)  BY <1>0, <2>1 DEF RegisterNotCreated, Report
  <2>2. ASSUME NEW f \in Functions, RegisterRefused(t, f) PROVE OwnersInv'
    BY <1>0, <2>2 DEF RegisterRefused, Report
  <2>3. ASSUME NEW f \in Functions, NEW h \in Handles, RegisterKey(t, h, f) PROVE OwnersInv'
    BY <1>0, <2>3 DEF RegisterKey, Assignable, Begin, TypeOK
  <2>4. ASSUME NEW h \in Handles, UnregisterSwallowed(t, h) PROVE OwnersInv'
    BY <1>0, <2>4 DEF UnregisterSwallowed
  <2>5. ASSUME NEW h \in Handles, UnregisterBegin(t, h) PROVE OwnersInv'
    BY <1>0, <2>5 DEF UnregisterBegin, Begin, TypeOK
  <2> QED BY <1>4, <2>1, <2>2, <2>3, <2>4, <2>5 DEF Call
<1>5. ASSUME NEW t \in Threads, Continue(t) PROVE OwnersInv'
  <2>1. CASE RegisterImpl(t)
    BY <1>0, <2>1 DEF RegisterImpl, Goto, TypeOK
  <2>2. CASE RegisterBuild(t)
    <3>0. /\ UNCHANGED <<created, callback_keys>>
          /\ pc[t] = "reg_build" /\ pc' = [pc EXCEPT ![t] = "idle"]
          /\ \A u \in Threads : u # t => target'[u] = target[u] /\ key'[u] = key[u]
          /\ target[t] \in Handles /\ handle'[target[t]].key = key[t]
          /\ handle[target[t]].key = NoKey
          /\ \A h \in Handles : h # target[t] => handle'[h] = handle[h]
      BY <1>0, <2>2 DEF RegisterBuild, End, TypeOK
    <3>1. NoOrphanKeys'
      <4> SUFFICES ASSUME NEW f \in Functions, callback_keys[f] > 0 PROVE Owned(f)'
        BY <3>0
      <4>1. ASSUME NEW u \in Threads, pc[u] # "idle", key[u] = f PROVE Owned(f)'
        BY <1>0, <3>0, <4>1 DEF TypeOK
      <4>2. ASSUME NEW h \in Handles, handle[h].key = f PROVE Owned(f)'
        BY <3>0, <4>2
      <4> QED BY <4>1, <4>2
    <3> QED BY <1>0, <3>0, <3>1 DEF TypeOK, RegistryInv, TargetsApart
  <2>3. CASE UnregisterImpl(t)
    BY <1>0, <2>3 DEF UnregisterImpl, Goto, TypeOK
  <2>4. CASE UnregisterErase(t)
    <3>0. /\ UNCHANGED created
          /\ pc[t] = "unreg_erase" /\ pc' = [pc EXCEPT ![t] = "idle"]
          /\ \A u \in Threads : u # t => target'[u] = target[u] /\ key'[u] = key[u]
          /\ callback_keys[key[t]] = 1 /\ handle[target[t]].key = key[t]
          /\ \A f \in Functions :
               callback_keys'[f] = IF f = key[t] THEN 0 ELSE callback_keys[f]
          /\ target[t] \in Handles /\ handle'[target[t]] = NullHandle
          /\ \A h \in Handles : h # target[t] => handle'[h] = handle[h]
      BY <1>0, <2>4 DEF UnregisterErase, End, TypeOK, RegistryInv, OwnedIsKeyed, InProgress,
         Unregistering
    <3>1. NoOrphanKeys'
      <4> SUFFICES ASSUME NEW f \in Functions, callback_keys'[f] > 0 PROVE Owned(f)'
        OBVIOUS
      <4>0. f # key[t] /\ callback_keys[f] > 0
        BY <3>0
      <4>1. ASSUME NEW u \in Threads, pc[u] # "idle", key[u] = f PROVE Owned(f)'
        BY <1>0, <3>0, <4>0, <4>1 DEF TypeOK
      <4>2. ASSUME NEW h \in Handles, handle[h].key = f PROVE Owned(f)'
        BY <3>0, <4>0, <4>2
      <4> QED BY <4>0, <4>1, <4>2
    <3> QED BY <1>0, <3>0, <3>1 DEF TypeOK, RegistryInv, TargetsApart
  <2> QED BY <1>5, <2>1, <2>2, <2>3, <2>4 DEF Continue
<1>6. CASE UNCHANGED vars  BY <1>0, <1>6 DEF vars
<1> QED BY <1>1, <1>2, <1>3, <1>4, <1>5, <1>6 DEF Next

LEMMA OwnersInvariant == ASSUME UsedAsOwners PROVE Spec => [](RegistryInv /\ OwnersInv)
<1>1. Init => OwnersInv
  BY HandleFields DEF Init, OwnersInv, NoOrphanKeys, Exists, IsUnregistered, Registering, Busy
<1>2. RegistryInv /\ OwnersInv /\ [Next]_vars => OwnersInv'
  BY OwnersStep
<1> QED BY <1>1, <1>2, RegistryInvariant, PTL DEF Spec

(* Used as owners, the objects lose no registration: every key has an object *)
(* or a call that will unregister it, for any number of objects and threads. *)
THEOREM KeysOwned == ASSUME UsedAsOwners PROVE Spec => []NoOrphanKeys
<1>1. OwnersInv => NoOrphanKeys  BY DEF OwnersInv
<1> QED BY <1>1, OwnersInvariant, PTL

(* Used as owners, a refused registration has an owner: without objects that *)
(* outlive the sandbox or are assigned to while they own a callback,         *)
(* register_callback throws "already registered" only if that is so.         *)
THEOREM RefusalJustified == ASSUME UsedAsOwners PROVE Spec => RefusalMeansOwned
<1>1. OwnersInv /\ [Next]_vars
      => [\A t \in Threads, f \in Functions : RegisterRefused(t, f) => Owned(f)]_vars
  BY DEF OwnersInv, NoOrphanKeys, RegisterRefused
<1> QED BY <1>1, OwnersInvariant, PTL DEF Spec, RefusalMeansOwned

(* A registered object has a trampoline, and so has one about to be built. *)
TrampolinesGiven ==
  /\ \A h \in Handles : handle[h].key # NoKey => handle[h].trampoline # 0
  /\ \A t \in Threads : pc[t] = "reg_build" => trampoline[t] # 0

(* The loop over the table ends at a free entry: no two entries have the     *)
(* same key and none has the new one.                                        *)
LEMMA EntryIsFree ==
  ASSUME RoomForAll, RegistryInv, NEW t \in Threads, pc[t] = "reg_impl"
  PROVE  \E n \in Slots : IsFree(n)
<1> SUFFICES ASSUME \A n \in Slots : callback_unique_keys[n] # NoKey PROVE FALSE
  BY DEF IsFree
<1> DEFINE Others == Functions \ {key[t]}
<1>1. key[t] \in Functions
  BY DEF RegistryInv, TypeOK
<1>2. IsFiniteSet(Others) /\ Cardinality(Others) = Cardinality(Functions) - 1
  BY <1>1, FS_RemoveElement DEF RoomForAll
<1>3. IsFiniteSet(Slots) /\ Cardinality(Slots) = MAX_CALLBACKS
  BY FS_Interval DEF Slots
<1>4. callback_unique_keys \in [Slots -> Others]
  BY DEF RegistryInv, TypeOK, InProgress
<1>5. Cardinality(Others) < Cardinality(Slots)
  BY <1>2, <1>3, FS_CardinalityType DEF RoomForAll
<1>6. \E m, n \in Slots : m # n /\ callback_unique_keys[m] = callback_unique_keys[n]
  BY ONLY <1>2, <1>3, <1>4, <1>5, FS_PigeonHole
<1> QED BY <1>4, <1>6 DEF RegistryInv, TablesAgree

LEMMA TrampolinesStep ==
  ASSUME RoomForAll, RegistryInv, TrampolinesGiven, [Next]_vars
  PROVE  TrampolinesGiven'
<1>0. TypeOK
  BY DEF RegistryInv
<1> USE HandleFields DEF TrampolinesGiven, tables, locals
<1>1. CASE CreateSandbox   BY <1>1 DEF CreateSandbox
<1>2. CASE DestroySandbox  BY <1>2 DEF DestroySandbox
<1>3. ASSUME NEW from \in Handles, NEW to \in Handles, MoveHandle(from, to)
      PROVE TrampolinesGiven'
  <2>1. /\ UNCHANGED <<pc, trampoline>>
        /\ \A h \in Handles : handle'[h] = IF h = from THEN NullHandle
                                           ELSE IF h = to THEN handle[from] ELSE handle[h]
    BY <1>0, <1>3 DEF MoveHandle, TypeOK
  <2> QED BY <2>1
<1>4. ASSUME NEW t \in Threads, Call(t) PROVE TrampolinesGiven'
  BY <1>0, <1>4 DEF Call, RegisterNotCreated, RegisterRefused, RegisterKey, UnregisterSwallowed,
     UnregisterBegin, Report, Begin, TypeOK
<1>5. ASSUME NEW t \in Threads, Continue(t) PROVE TrampolinesGiven'
  <2>1. CASE RegisterImpl(t)
    <3>1. \E n \in Slots : IsFree(n)
      BY <2>1, EntryIsFree DEF RegisterImpl
    <3>2. trampoline'[t] # 0
      BY <1>0, <2>1, <3>1 DEF RegisterImpl, Chosen, TypeOK
    <3> QED BY <1>0, <2>1, <3>2 DEF RegisterImpl, Goto, TypeOK
  <2>2. CASE RegisterBuild(t)
    <3>1. /\ trampoline[t] # 0 /\ trampoline[t] \in Slots \union {0}
          /\ key[t] \in Functions
          /\ \A h \in Handles : handle'[h] = IF h = target[t]
                 THEN [key |-> key[t], trampoline |-> trampoline[t]] ELSE handle[h]
          /\ \A u \in Threads : u # t => pc'[u] = pc[u] /\ trampoline'[u] = trampoline[u]
          /\ pc'[t] = "idle"
      BY <1>0, <2>2 DEF RegisterBuild, End, TypeOK
    <3> QED BY <3>1
  <2>3. CASE UnregisterImpl(t)   BY <1>0, <2>3 DEF UnregisterImpl, Goto, TypeOK
  <2>4. CASE UnregisterErase(t)  BY <1>0, <2>4 DEF UnregisterErase, End, TypeOK
  <2> QED BY <1>5, <2>1, <2>2, <2>3, <2>4 DEF Continue
<1>6. CASE UNCHANGED vars  BY <1>6 DEF vars
<1> QED BY <1>1, <1>2, <1>3, <1>4, <1>5, <1>6 DEF Next

LEMMA TrampolinesInvariant ==
  ASSUME RoomForAll PROVE Spec => [](RegistryInv /\ TrampolinesGiven)
<1>1. Init => TrampolinesGiven
  BY HandleFields DEF Init, TrampolinesGiven
<1>2. RegistryInv /\ TrampolinesGiven /\ [Next]_vars => TrampolinesGiven'
  BY TrampolinesStep
<1> QED BY <1>1, <1>2, RegistryInvariant, PTL DEF Spec

(* With an entry for each function, every registered object gives the        *)
(* sandbox a trampoline, and it reaches the object's own function.           *)
THEOREM RegisteredCallable == ASSUME RoomForAll PROVE Spec => []RegisteredIsCallable
<1>1. RegistryInv /\ TrampolinesGiven => RegisteredIsCallable
  <2> SUFFICES ASSUME RegistryInv, TrampolinesGiven, NEW h \in Handles, ~IsUnregistered(h),
                      \A t \in Threads : target[t] = h => pc[t] # "unreg_erase"
               PROVE  \E n \in Slots :
                        handle[h].trampoline = n /\ callback_unique_keys[n] = handle[h].key
    BY DEF RegisteredIsCallable
  <2>1. handle[h].trampoline # 0
    BY DEF TrampolinesGiven, IsUnregistered
  <2>2. handle[h].trampoline \in Slots
    BY <2>1, HandleFields DEF RegistryInv, TypeOK
  <2>3. callback_unique_keys[handle[h].trampoline] = handle[h].key
    BY <2>1 DEF RegistryInv, TrampolineReachesKey
  <2> QED BY <2>2, <2>3
<1> QED BY <1>1, TrampolinesInvariant, PTL

-----------------------------------------------------------------------------
(***************************************************************************)
(* With both assumptions the registry implements CallbackOwnership: the    *)
(* plugin's table opens and closes a function, and an object's key says    *)
(* who owns it.                                                            *)
(***************************************************************************)
Keyed(f, h) == h \in Handles /\ handle[h].key = f
InTable(f) == \E n \in Slots : callback_unique_keys[n] = f

abstractOwner == [f \in Functions |-> OwnerOf(f)]
abstractOpen == {f \in Functions : InTable(f)}

LEMMA OwnerIs ==
  ASSUME OneOwner, NEW f \in Functions
  PROVE  /\ \A h : Keyed(f, h) => OwnerOf(f) = h
         /\ (\A h \in Handles : ~Keyed(f, h)) => OwnerOf(f) = NoHandle
  BY DEF OwnerOf, Keyed, OneOwner

LEMMA SameOwnerOf ==
  ASSUME NEW f \in Functions, \A h \in Handles : handle'[h].key = f <=> handle[h].key = f
  PROVE  OwnerOf(f)' = OwnerOf(f)
<1> DEFINE P(h) == handle[h].key = f
           Q(h) == handle'[h].key = f
<1>1. \A h \in Handles : P(h) <=> Q(h)
  OBVIOUS
<1>2. (\E h \in Handles : P(h)) <=> (\E h \in Handles : Q(h))
  BY <1>1
<1>3. (CHOOSE h \in Handles : P(h)) = (CHOOSE h \in Handles : Q(h))
  <2> HIDE DEF P, Q
  <2> QED BY <1>1, Zenon
<1> QED BY <1>2, <1>3 DEF OwnerOf

(* Nothing moves in the abstract state unless a key or an entry does. *)
LEMMA SameOwner ==
  ASSUME \A h \in Handles : handle'[h].key = handle[h].key
  PROVE  abstractOwner' = abstractOwner
BY SameOwnerOf DEF abstractOwner

(* The owner of one function changes and no other. *)
LEMMA NewOwner ==
  ASSUME OneOwner', NEW f \in Functions, NEW h \in Handles, handle'[h].key = f,
         \A g \in Functions \ {f} :
           \A k \in Handles : handle'[k].key = g <=> handle[k].key = g
  PROVE  abstractOwner' = [abstractOwner EXCEPT ![f] = h]
<1>1. OwnerOf(f)' = h
  BY DEF OneOwner, OwnerOf
<1>2. \A g \in Functions \ {f} : OwnerOf(g)' = OwnerOf(g)
  BY SameOwnerOf
<1> QED BY <1>1, <1>2 DEF abstractOwner

LEMMA NoOwner ==
  ASSUME NEW f \in Functions, \A h \in Handles : handle'[h].key # f,
         \A g \in Functions \ {f} :
           \A k \in Handles : handle'[k].key = g <=> handle[k].key = g
  PROVE  abstractOwner' = [abstractOwner EXCEPT ![f] = NoHandle]
<1>1. OwnerOf(f)' = NoHandle
  BY DEF OwnerOf
<1>2. \A g \in Functions \ {f} : OwnerOf(g)' = OwnerOf(g)
  BY SameOwnerOf
<1> QED BY <1>1, <1>2 DEF abstractOwner

(* The steps of CallbackOwnership, in terms of the registry. *)
LEMMA AbstractSteps ==
  ASSUME NEW f \in Functions,
         \/ /\ abstractOwner[f] = NoHandle /\ ~InTable(f)
            /\ abstractOpen' = abstractOpen \union {f} /\ abstractOwner' = abstractOwner
         \/ /\ abstractOwner[f] # NoHandle /\ InTable(f)
            /\ abstractOpen' = abstractOpen \ {f} /\ abstractOwner' = abstractOwner
         \/ /\ abstractOwner[f] # NoHandle /\ ~InTable(f)
            /\ abstractOwner' = [abstractOwner EXCEPT ![f] = NoHandle]
            /\ abstractOpen' = abstractOpen
         \/ \E h \in Handles :
              /\ abstractOwner[f] # NoHandle \/ InTable(f)
              /\ \A g \in Functions : abstractOwner[g] # h
              /\ abstractOwner' = [abstractOwner EXCEPT ![f] = h]
              /\ abstractOpen' = abstractOpen
  PROVE  Ownership!OwnershipNext
<1> USE DEF Ownership!OwnershipNext, abstractOwner, abstractOpen, InTable
<1>1. CASE /\ abstractOwner[f] = NoHandle /\ ~InTable(f)
           /\ abstractOpen' = abstractOpen \union {f} /\ abstractOwner' = abstractOwner
  BY <1>1 DEF Ownership!Open
<1>2. CASE /\ abstractOwner[f] # NoHandle /\ InTable(f)
           /\ abstractOpen' = abstractOpen \ {f} /\ abstractOwner' = abstractOwner
  BY <1>2 DEF Ownership!Close
<1>3. CASE /\ abstractOwner[f] # NoHandle /\ ~InTable(f)
           /\ abstractOwner' = [abstractOwner EXCEPT ![f] = NoHandle]
           /\ abstractOpen' = abstractOpen
  BY <1>3 DEF Ownership!Disown
<1>4. ASSUME NEW h \in Handles,
             abstractOwner[f] # NoHandle \/ InTable(f),
             \A g \in Functions : abstractOwner[g] # h,
             abstractOwner' = [abstractOwner EXCEPT ![f] = h],
             abstractOpen' = abstractOpen
      PROVE  Ownership!OwnershipNext
  BY <1>4 DEF Ownership!Own, Ownership!Transfer, Ownership!OwnsNothing
<1> QED BY <1>1, <1>2, <1>3, <1>4

LEMMA OwnershipStep ==
  ASSUME UsedAsOwners, RoomForAll, RegistryInv, OwnersInv, TrampolinesGiven, [Next]_vars
  PROVE  [Ownership!OwnershipNext]_(Ownership!ownershipVars)
<1>0. TypeOK /\ OneOwner /\ OneOwner'
  BY RegistryStep DEF RegistryInv
<1>s. abstractOwner' = abstractOwner /\ abstractOpen' = abstractOpen
      => UNCHANGED Ownership!ownershipVars
  BY DEF Ownership!ownershipVars, abstractOwner, abstractOpen, InTable
<1>u. UNCHANGED handle => abstractOwner' = abstractOwner
  BY SameOwner
<1>t. UNCHANGED callback_unique_keys => abstractOpen' = abstractOpen
  BY DEF abstractOpen, InTable
<1>k. \A f \in Functions, h \in Handles : handle[h].key = f => abstractOwner[f] = h
  BY <1>0, OwnerIs DEF Keyed, abstractOwner
<1>n. \A f \in Functions : (\A h \in Handles : handle[h].key # f) => abstractOwner[f] = NoHandle
  BY <1>0, OwnerIs DEF Keyed, abstractOwner
<1>e. \A h \in Handles : handle[h].key = NoKey => \A f \in Functions : abstractOwner[f] # h
  BY DEF abstractOwner, OwnerOf
<1>2. CASE CreateSandbox \/ DestroySandbox
  BY <1>2, <1>s, <1>u, <1>t DEF CreateSandbox, DestroySandbox, tables
<1>3. ASSUME NEW from \in Handles, NEW to \in Handles, MoveHandle(from, to)
      PROVE  [Ownership!OwnershipNext]_(Ownership!ownershipVars)
  <2>0. /\ from # to /\ UNCHANGED callback_unique_keys /\ handle[to].key = NoKey
        /\ \A h \in Handles : handle'[h] = IF h = from THEN NullHandle
                                           ELSE IF h = to THEN handle[from] ELSE handle[h]
    BY <1>0, <1>3 DEF MoveHandle, Assignable, IsUnregistered, UsedAsOwners, tables, TypeOK
  <2>1. CASE handle[from].key = NoKey
    BY <2>0, <2>1, <1>s, <1>t, SameOwner, HandleFields
  <2>2. CASE handle[from].key # NoKey
    <3>1. PICK f \in Functions : f = handle[from].key
      BY <1>0, <2>2, HandleFields DEF TypeOK
    <3>2. abstractOwner' = [abstractOwner EXCEPT ![f] = to]
      BY <1>0, <2>0, <3>1, NewOwner, HandleFields
    <3> QED BY <1>t, <1>k, <1>e, <2>0, <3>1, <3>2, AbstractSteps
  <2> QED BY <2>1, <2>2
<1>4. ASSUME NEW t \in Threads, Call(t)
      PROVE  [Ownership!OwnershipNext]_(Ownership!ownershipVars)
  <2>1. \A h \in Handles : ~UnregisterSwallowed(t, h)
    BY DEF UnregisterSwallowed, OwnersInv
  <2> QED BY <1>4, <2>1, <1>s, <1>u, <1>t DEF Call, RegisterNotCreated, RegisterRefused,
             RegisterKey, UnregisterBegin, Report, tables
<1>5. ASSUME NEW t \in Threads, Continue(t)
      PROVE  [Ownership!OwnershipNext]_(Ownership!ownershipVars)
  <2>0. PICK f \in Functions, h \in Handles : key[t] = f /\ target[t] = h /\ Busy(t)
    BY <1>0, <1>5 DEF Continue, RegisterImpl, RegisterBuild, UnregisterImpl, UnregisterErase,
       TypeOK, Busy
  <2>1. CASE RegisterImpl(t)
    <3>1. PICK n \in Slots : IsFree(n) /\ \A m \in Slots :
            callback_unique_keys'[m] = IF m = n THEN f ELSE callback_unique_keys[m]
      BY <1>0, <2>0, <2>1, EntryIsFree DEF RegisterImpl, Chosen
    <3>2. ~InTable(f) /\ (\A k \in Handles : handle[k].key # f)
      BY <2>0, <2>1 DEF RegisterImpl, InTable, RegistryInv, InProgress, OneOwner, Registering
    <3>3. abstractOpen' = abstractOpen \union {f}
      BY <3>1 DEF abstractOpen, InTable, IsFree
    <3> QED BY <1>u, <1>n, <2>1, <3>2, <3>3, AbstractSteps DEF RegisterImpl
  <2>2. CASE RegisterBuild(t)
    <3>1. handle[h].key = NoKey /\ InTable(f) /\ UNCHANGED callback_unique_keys
      BY <1>0, <2>0, <2>2 DEF RegisterBuild, OwnersInv, Registering, IsUnregistered, InTable,
         RegistryInv, InProgress, TrampolinesGiven, TypeOK, tables
    <3>2. \A k \in Handles : handle'[k] = IF k = h
            THEN [key |-> f, trampoline |-> trampoline[t]] ELSE handle[k]
      BY <1>0, <2>0, <2>2 DEF RegisterBuild, TypeOK
    <3>3. abstractOwner' = [abstractOwner EXCEPT ![f] = h]
      <4>1. handle'[h].key = f
        BY <3>2
      <4>2. \A g \in Functions \ {f} :
              \A k \in Handles : handle'[k].key = g <=> handle[k].key = g
        BY <3>1, <3>2
      <4> QED BY <1>0, <4>1, <4>2, NewOwner
    <3> QED BY <1>t, <1>e, <3>1, <3>3, AbstractSteps
  <2>3. CASE UnregisterImpl(t)
    <3>1. handle[h].key = f /\ \A u \in Threads : target[u] = h => pc[u] # "unreg_erase"
      BY <1>0, <2>0, <2>3 DEF UnregisterImpl, RegistryInv, InProgress, TargetsApart, Busy,
         Unregistering, TypeOK
    <3>2. InTable(f)
      <4>1. handle[h].trampoline # 0 /\ handle[h].trampoline \in Slots \union {0}
        BY <1>0, <3>1, HandleFields DEF TrampolinesGiven, TypeOK
      <4>2. callback_unique_keys[handle[h].trampoline] = f
        BY <3>1, <4>1 DEF RegistryInv, TrampolineReachesKey
      <4> QED BY <4>1, <4>2 DEF InTable
    <3>3. \A n \in Slots : callback_unique_keys'[n] =
            IF callback_unique_keys[n] = f THEN NoKey ELSE callback_unique_keys[n]
      BY <1>0, <2>0, <2>3 DEF UnregisterImpl, IsFirst, RegistryInv, TablesAgree, TypeOK, Slots
    <3>4. abstractOpen' = abstractOpen \ {f}
      BY <3>3 DEF abstractOpen, InTable
    <3> QED BY <1>u, <1>k, <2>3, <3>1, <3>2, <3>4, AbstractSteps DEF UnregisterImpl
  <2>4. CASE UnregisterErase(t)
    <3>1. /\ handle[h].key = f /\ ~InTable(f) /\ UNCHANGED callback_unique_keys
          /\ \A k \in Handles : handle'[k] = IF k = h THEN NullHandle ELSE handle[k]
      BY <1>0, <2>0, <2>4 DEF UnregisterErase, InTable, RegistryInv, InProgress, OwnedIsKeyed,
         Exists, Unregistering, Busy, TypeOK
    <3>2. \A k \in Handles : handle'[k].key # f
      BY <1>0, <3>1, HandleFields DEF OneOwner
    <3>3. abstractOwner' = [abstractOwner EXCEPT ![f] = NoHandle]
      <4>1. \A g \in Functions \ {f} :
              \A k \in Handles : handle'[k].key = g <=> handle[k].key = g
        BY <3>1, HandleFields
      <4> QED BY <3>2, <4>1, NoOwner
    <3> QED BY <1>t, <1>k, <3>1, <3>3, AbstractSteps
  <2> QED BY <1>5, <2>1, <2>2, <2>3, <2>4 DEF Continue
<1>6. CASE UNCHANGED vars  BY <1>6, <1>s, <1>u, <1>t DEF vars
<1> QED BY <1>2, <1>3, <1>4, <1>5, <1>6 DEF Next

(* Used as owners and with an entry for each function, the objects keep the  *)
(* promise of CallbackOwnership: a function is opened before it is owned,    *)
(* has one owner at a time and is closed before it is owned by nobody. (That *)
(* each opening and closing ends is the part of ImplementsOwnership that     *)
(* only TLC checks.)                                                         *)
THEOREM OwnershipKept ==
  ASSUME UsedAsOwners, RoomForAll
  PROVE  Spec => Ownership!OwnershipInit /\ [][Ownership!OwnershipNext]_(Ownership!ownershipVars)
<1>1. Init => Ownership!OwnershipInit
  <2> SUFFICES ASSUME Init PROVE Ownership!OwnershipInit
    OBVIOUS
  <2>1. \A f \in Functions : OwnerOf(f) = NoHandle
    BY HandleFields DEF Init, OwnerOf
  <2>2. abstractOpen = {}
    BY DEF Init, abstractOpen, InTable
  <2> QED BY <2>1, <2>2 DEF Ownership!OwnershipInit, abstractOpen, InTable
<1>2. RegistryInv /\ OwnersInv /\ TrampolinesGiven /\ [Next]_vars
      => [Ownership!OwnershipNext]_(Ownership!ownershipVars)
  BY OwnershipStep
<1> QED BY <1>1, <1>2, OwnersInvariant, TrampolinesInvariant, PTL DEF Spec

-----------------------------------------------------------------------------
(***************************************************************************)
(* CallbackDispatch takes the plugin's table to change by whole            *)
(* registrations and unregistrations: a function that is not there gets    *)
(* the first free entry, or one entry is freed.  The registry changes it   *)
(* in steps of calls that overlap, and must come to the same.  The one     *)
(* sandbox below has the registry's table; no thread is in its code.       *)
(***************************************************************************)
Here == "sandbox"
dispatchTable == [s \in {Here} |-> callback_unique_keys]

Dispatch == INSTANCE CallbackDispatch
  WITH Sandboxes <- {Here}, NoSandbox <- "none", MaxDepth <- 0,
       callback_unique_keys <- dispatchTable,
       thread_data <- [t \in Threads |-> [sandbox |-> "none", last_callback_invoked |-> 0]],
       stack       <- [t \in Threads |-> <<>>],
       unwinding   <- [t \in Threads |-> FALSE],
       entered     <- [t \in Threads |-> [s \in {Here} |-> 0]]

LEMMA NobodyCalls ==
  \A t \in Threads : Dispatch!InApplication(t) /\ \A n : ~Dispatch!InFlight(t, Here, n)
BY DEF Dispatch!InApplication, Dispatch!InFlight, Dispatch!In, Dispatch!Depth

(* Only the table can move. *)
LEMMA SameTable ==
  ASSUME UNCHANGED callback_unique_keys PROVE UNCHANGED Dispatch!vars
BY DEF Dispatch!vars, dispatchTable

LEMMA TableEntry ==
  ASSUME TypeOK, NEW n \in Slots, NEW f,
         callback_unique_keys' = [m \in Slots |-> IF m = n THEN f ELSE callback_unique_keys[m]]
  PROVE  dispatchTable' = [dispatchTable EXCEPT ![Here][n] = f]
<1>1. callback_unique_keys' = [callback_unique_keys EXCEPT ![n] = f]
  BY DEF TypeOK
<1> QED BY <1>1 DEF dispatchTable

LEMMA TableStep == RegistryInv /\ [Next]_vars => [Dispatch!Next]_(Dispatch!vars)
<1> SUFFICES ASSUME RegistryInv, [Next]_vars PROVE [Dispatch!Next]_(Dispatch!vars)
  OBVIOUS
<1>0. TypeOK /\ dispatchTable[Here] = callback_unique_keys /\ Slots = Dispatch!Slots
  BY DEF RegistryInv, dispatchTable, Slots, Dispatch!Slots
<1>1. CASE UNCHANGED callback_unique_keys
  BY <1>1, SameTable
<1>2. ASSUME NEW t \in Threads, RegisterImpl(t) PROVE [Dispatch!Next]_(Dispatch!vars)
  <2>1. PICK n \in Slots \union {0} :
          /\ Chosen(n)
          /\ callback_unique_keys' =
               [m \in Slots |-> IF m = n THEN key[t] ELSE callback_unique_keys[m]]
    BY <1>2 DEF RegisterImpl
  <2>2. CASE n = 0
    <3>1. callback_unique_keys' = callback_unique_keys
      BY <1>0, <2>1, <2>2 DEF TypeOK, Slots
    <3> QED BY <3>1, SameTable
  <2>3. CASE n \in Slots
    <3>1. key[t] \in Functions /\ \A m \in Slots : callback_unique_keys[m] # key[t]
      BY <1>2 DEF RegisterImpl, RegistryInv, InProgress, TypeOK
    <3>2. IsFree(n) /\ \A m \in Slots : IsFree(m) => n <= m
      BY <2>1, <2>3 DEF Chosen, Slots
    <3>3. dispatchTable' = [dispatchTable EXCEPT ![Here][n] = key[t]]
      BY <1>0, <2>1, <2>3, TableEntry
    <3>4. Dispatch!Register(t, Here, key[t])
      BY <1>0, <2>3, <3>1, <3>2, <3>3, NobodyCalls DEF Dispatch!Register, IsFree
    <3> QED BY <3>1, <3>4 DEF Dispatch!Next
  <2> QED BY <2>1, <2>2, <2>3
<1>3. ASSUME NEW t \in Threads, UnregisterImpl(t) PROVE [Dispatch!Next]_(Dispatch!vars)
  <2>1. /\ key[t] \in Functions
        /\ callback_unique_keys' =
             [n \in Slots |-> IF IsFirst(n, key[t]) THEN NoKey ELSE callback_unique_keys[n]]
    BY <1>3 DEF UnregisterImpl, RegistryInv, TypeOK
  <2>2. CASE \A n \in Slots : ~IsFirst(n, key[t])
    <3>1. callback_unique_keys' = callback_unique_keys
      BY <1>0, <2>1, <2>2 DEF TypeOK
    <3> QED BY <3>1, SameTable
  <2>3. ASSUME NEW n \in Slots, IsFirst(n, key[t]) PROVE [Dispatch!Next]_(Dispatch!vars)
    <3>1. \A m \in Slots : IsFirst(m, key[t]) <=> m = n
      BY <2>3 DEF IsFirst, Slots
    <3>2. callback_unique_keys' =
            [m \in Slots |-> IF m = n THEN NoKey ELSE callback_unique_keys[m]]
      BY <2>1, <3>1
    <3>3. dispatchTable' = [dispatchTable EXCEPT ![Here][n] = NoKey]
      BY <1>0, <3>2, TableEntry
    <3>4. Dispatch!Unregister(t, Here, n)
      BY <1>0, <2>1, <2>3, <3>3, NobodyCalls DEF Dispatch!Unregister, IsFirst
    <3> QED BY <1>0, <3>4 DEF Dispatch!Next
  <2> QED BY <2>2, <2>3
<1>4. \/ UNCHANGED callback_unique_keys
      \/ \E t \in Threads : RegisterImpl(t) \/ UnregisterImpl(t)
  BY DEF Next, CreateSandbox, DestroySandbox, MoveHandle, Call, RegisterNotCreated,
     RegisterRefused, RegisterKey, UnregisterSwallowed, UnregisterBegin, Report, Continue,
     RegisterBuild, UnregisterErase, tables, vars
<1> QED BY <1>1, <1>2, <1>3, <1>4

(* Whatever calls overlap and however objects are used, the registry changes *)
(* the plugin's table only in the ways that CallbackDispatch takes it to     *)
(* change: what it assumes of register_callback and unregister_callback, but *)
(* for when the application calls them, is so.                               *)
THEOREM TableAsDispatched == Spec => Dispatch!Spec
<1>1. Init => Dispatch!Init
  BY DEF Init, Dispatch!Init, dispatchTable, Slots, Dispatch!Slots
<1>2. RegistryInv /\ [Next]_vars => [Dispatch!Next]_(Dispatch!vars)
  BY TableStep
<1> QED BY <1>1, <1>2, RegistryInvariant, PTL DEF Spec, Dispatch!Spec
=============================================================================
