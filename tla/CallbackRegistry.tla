-------------------------- MODULE CallbackRegistry --------------------------
(***************************************************************************)
(* Registration of callbacks with one sandbox: register_callback and       *)
(* unregister_callback of rlbox_sandbox.hpp, the sandbox_callback objects  *)
(* of rlbox_policy_types.hpp that own a registration, and the trampoline   *)
(* table of the no-op and dynamic-library plugins.                         *)
(*                                                                         *)
(* Two tables record a registration, each under a lock of its own:         *)
(* callback_keys (callback_lock) and the plugin's callback_unique_keys     *)
(* with callbacks (callback_mutex).  Each critical section is one action;  *)
(* between two of them other threads run.                                  *)
(*                                                                         *)
(* As the comments in the code ask, no two threads use one sandbox_callback*)
(* object at once, and create_sandbox and destroy_sandbox run while no     *)
(* call about the sandbox is in progress.                                  *)
(***************************************************************************)
EXTENDS Integers, FiniteSets

CONSTANTS
  Threads, Functions, Handles,
  MAX_CALLBACKS,     \* entries of the plugin's table
  NoKey,             \* nullptr as a key
  NoHandle,          \* no object
  Overwrites,        \* TRUE: an object that owns a callback may be assigned to
  OutliveSandbox     \* TRUE: objects may own callbacks across destroy_sandbox

ASSUME MaxCallbacksAssumption == MAX_CALLBACKS \in Nat \ {0}
ASSUME NoKeyAssumption == NoKey \notin Functions
ASSUME NoHandleAssumption == NoHandle \notin Handles
ASSUME RulesAssumption == Overwrites \in BOOLEAN /\ OutliveSandbox \in BOOLEAN

VARIABLES
  created,               \* sandbox_created = CREATED
  callback_keys,         \* how often each key occurs in the vector
  callback_unique_keys,  \* the plugin's table, trampoline number to key
  handle,                \* the fields of each sandbox_callback object
  pc,                    \* where each thread is
  target,                \* the object its operation is about
  key,                   \* the key its operation is about
  trampoline,            \* what impl_register_callback returned to it
  outcome                \* how its last call ended

vars == <<created, callback_keys, callback_unique_keys, handle, pc, target, key,
          trampoline, outcome>>
tables == <<callback_keys, callback_unique_keys>>
locals == <<pc, target, key, trampoline>>

-----------------------------------------------------------------------------
Slots == 1..MAX_CALLBACKS

(* Trampoline 0 stands for the null function pointer. *)
NullHandle == [key |-> NoKey, trampoline |-> 0]
HandleState == [key : Functions \union {NoKey}, trampoline : Slots \union {0}]

Registering == {"reg_impl", "reg_build"}
Unregistering == {"unreg_impl", "unreg_erase"}
Steps == Registering \union Unregistering \union {"idle"}
Outcomes == {"none", "registered", "already_registered", "not_created",
             "unregistered", "never_registered"}

InUse(h) == \E t \in Threads : target[t] = h
IsUnregistered(h) == handle[h].key = NoKey

(* An object that may be moved into. *)
Assignable(h) == ~InUse(h) /\ (Overwrites \/ IsUnregistered(h))

Begin(t, h, f, step) ==
  /\ pc' = [pc EXCEPT ![t] = step]
  /\ target' = [target EXCEPT ![t] = h]
  /\ key' = [key EXCEPT ![t] = f]
  /\ UNCHANGED <<trampoline, outcome>>

Goto(t, step) ==
  /\ pc' = [pc EXCEPT ![t] = step]
  /\ UNCHANGED <<target, key, outcome>>

End(t, result) ==
  /\ pc' = [pc EXCEPT ![t] = "idle"]
  /\ target' = [target EXCEPT ![t] = NoHandle]
  /\ key' = [key EXCEPT ![t] = NoKey]
  /\ trampoline' = [trampoline EXCEPT ![t] = 0]
  /\ outcome' = [outcome EXCEPT ![t] = result]

Report(t, result) ==
  /\ outcome' = [outcome EXCEPT ![t] = result]
  /\ UNCHANGED <<created, tables, handle, locals>>

Init ==
  /\ created = FALSE
  /\ callback_keys = [f \in Functions |-> 0]
  /\ callback_unique_keys = [n \in Slots |-> NoKey]
  /\ handle = [h \in Handles |-> NullHandle]
  /\ pc = [t \in Threads |-> "idle"]
  /\ target = [t \in Threads |-> NoHandle]
  /\ key = [t \in Threads |-> NoKey]
  /\ trampoline = [t \in Threads |-> 0]
  /\ outcome = [t \in Threads |-> "none"]

-----------------------------------------------------------------------------
(* create_sandbox and destroy_sandbox, of which only the status is seen here. *)
(* Neither touches callback_keys or the plugin's table.                       *)

CreateSandbox ==
  /\ ~created
  /\ \A t \in Threads : pc[t] = "idle"
  /\ created' = TRUE
  /\ UNCHANGED <<tables, handle, locals, outcome>>

DestroySandbox ==
  /\ created
  /\ \A t \in Threads : pc[t] = "idle"
  /\ OutliveSandbox \/ \A h \in Handles : IsUnregistered(h)
  /\ created' = FALSE
  /\ UNCHANGED <<tables, handle, locals, outcome>>

-----------------------------------------------------------------------------
(* h = sandbox.register_callback(f) *)

RegisterNotCreated(t) ==
  /\ pc[t] = "idle"
  /\ ~created
  /\ Report(t, "not_created")

Exists(f) == callback_keys[f] > 0

RegisterRefused(t, f) ==
  /\ pc[t] = "idle"
  /\ created
  /\ Exists(f)
  /\ Report(t, "already_registered")

(* Mutant: the vector is not searched before the key is pushed. *)
RegisterKeyUnchecked(t, h, f) ==
  /\ pc[t] = "idle"
  /\ created
  /\ Assignable(h)
  /\ callback_keys' = [callback_keys EXCEPT ![f] = @ + 1]
  /\ Begin(t, h, f, "reg_impl")
  /\ UNCHANGED <<created, callback_unique_keys, handle>>

(* Under callback_lock: the key is not there yet and is pushed. *)
RegisterKey(t, h, f) ==
  /\ pc[t] = "idle"
  /\ created
  /\ Assignable(h)
  /\ ~Exists(f)
  /\ callback_keys' = [callback_keys EXCEPT ![f] = @ + 1]
  /\ Begin(t, h, f, "reg_impl")
  /\ UNCHANGED <<created, callback_unique_keys, handle>>

IsFree(n) == callback_unique_keys[n] = NoKey

(* Mutant: the loop stops one entry early. *)
ChosenStopsEarly(n) ==
  /\ n # 0 => n # MAX_CALLBACKS /\ IsFree(n)
  /\ \A m \in Slots : IsFree(m) => m = MAX_CALLBACKS \/ (n # 0 /\ n <= m)

(* Mutant: the loop ignores which entries are taken. *)
ChosenTakesFirst(n) == n = 1

(* The loop over the table takes the first free entry n; with none free it   *)
(* returns the null trampoline.                                              *)
Chosen(n) ==
  /\ n # 0 => IsFree(n)
  /\ \A m \in Slots : IsFree(m) => n # 0 /\ n <= m

(* Under callback_mutex the entry chosen gets the key and the interceptor. *)
RegisterImpl(t) ==
  /\ pc[t] = "reg_impl"
  /\ \E n \in Slots \union {0} :
       /\ Chosen(n)
       /\ trampoline' = [trampoline EXCEPT ![t] = n]
       /\ callback_unique_keys' =
            [m \in Slots |-> IF m = n THEN key[t] ELSE callback_unique_keys[m]]
  /\ Goto(t, "reg_build")
  /\ UNCHANGED <<created, callback_keys, handle>>

(* The new object is built and moved into h; what h owned is forgotten. *)
RegisterBuild(t) ==
  /\ pc[t] = "reg_build"
  /\ handle' = [handle EXCEPT ![target[t]] =
                  [key |-> key[t], trampoline |-> trampoline[t]]]
  /\ End(t, "registered")
  /\ UNCHANGED <<created, tables>>

-----------------------------------------------------------------------------
(* Mutant: the source of the move keeps its fields. *)
CopyHandle(from, to) ==
  /\ from # to
  /\ ~InUse(from)
  /\ Assignable(to)
  /\ handle' = [handle EXCEPT ![to] = handle[from]]
  /\ UNCHANGED <<created, tables, locals, outcome>>

(* to = std::move(from), or construction of to from from. *)
MoveHandle(from, to) ==
  /\ from # to
  /\ ~InUse(from)
  /\ Assignable(to)
  /\ handle' = [handle EXCEPT ![to] = handle[from], ![from] = NullHandle]
  /\ UNCHANGED <<created, tables, locals, outcome>>

-----------------------------------------------------------------------------
(* h.unregister(), or the end of h's life *)

(* unregister_callback returns at once when the sandbox is not created. *)
UnregisterSwallowed(t, h) ==
  /\ pc[t] = "idle"
  /\ ~InUse(h) /\ ~IsUnregistered(h)
  /\ ~created
  /\ handle' = [handle EXCEPT ![h] = NullHandle]
  /\ outcome' = [outcome EXCEPT ![t] = "unregistered"]
  /\ UNCHANGED <<created, tables, locals>>

(* Mutant: unregister_helper does not ask whether the object owns anything. *)
UnregisterBeginUnowned(t, h) ==
  /\ pc[t] = "idle"
  /\ ~InUse(h)
  /\ created
  /\ Begin(t, h, handle[h].key, "unreg_impl")
  /\ UNCHANGED <<created, tables, handle>>

(* Mutant: the plugin is not told of the unregistration. *)
UnregisterBeginWithoutImpl(t, h) ==
  /\ pc[t] = "idle"
  /\ ~InUse(h) /\ ~IsUnregistered(h)
  /\ created
  /\ Begin(t, h, handle[h].key, "unreg_erase")
  /\ UNCHANGED <<created, tables, handle>>

UnregisterBegin(t, h) ==
  /\ pc[t] = "idle"
  /\ ~InUse(h) /\ ~IsUnregistered(h)
  /\ created
  /\ Begin(t, h, handle[h].key, "unreg_impl")
  /\ UNCHANGED <<created, tables, handle>>

(* The first entry with the key is cleared, under callback_mutex. *)
IsFirst(n, f) ==
  /\ callback_unique_keys[n] = f
  /\ \A m \in Slots : callback_unique_keys[m] = f => n <= m

UnregisterImpl(t) ==
  /\ pc[t] = "unreg_impl"
  /\ callback_unique_keys' =
       [n \in Slots |-> IF IsFirst(n, key[t]) THEN NoKey ELSE callback_unique_keys[n]]
  /\ Goto(t, "unreg_erase")
  /\ UNCHANGED <<created, callback_keys, handle, trampoline>>

(* Mutant: the key is found and left in the vector. *)
UnregisterKeepsKey(t) ==
  /\ pc[t] = "unreg_erase"
  /\ handle' = [handle EXCEPT ![target[t]] = NullHandle]
  /\ End(t, "unregistered")
  /\ UNCHANGED <<created, tables>>

(* Mutant: unregister_helper does not reset the object's fields. *)
UnregisterKeepsHandle(t) ==
  /\ pc[t] = "unreg_erase"
  /\ IF Exists(key[t])
       THEN callback_keys' = [callback_keys EXCEPT ![key[t]] = @ - 1]
       ELSE UNCHANGED callback_keys
  /\ End(t, "unregistered")
  /\ UNCHANGED <<created, callback_unique_keys, handle>>

(* Under callback_lock the key is found and erased, then h is cleared; were  *)
(* it not found the check would throw and leave h as it is.                  *)
UnregisterErase(t) ==
  /\ pc[t] = "unreg_erase"
  /\ IF Exists(key[t])
       THEN /\ callback_keys' = [callback_keys EXCEPT ![key[t]] = @ - 1]
            /\ handle' = [handle EXCEPT ![target[t]] = NullHandle]
            /\ End(t, "unregistered")
       ELSE /\ UNCHANGED <<callback_keys, handle>>
            /\ End(t, "never_registered")
  /\ UNCHANGED <<created, callback_unique_keys>>

-----------------------------------------------------------------------------
Call(t) ==
  \/ RegisterNotCreated(t)
  \/ \E f \in Functions :
       RegisterRefused(t, f) \/ \E h \in Handles : RegisterKey(t, h, f)
  \/ \E h \in Handles : UnregisterSwallowed(t, h) \/ UnregisterBegin(t, h)

Continue(t) ==
  RegisterImpl(t) \/ RegisterBuild(t) \/ UnregisterImpl(t) \/ UnregisterErase(t)

Next ==
  \/ CreateSandbox \/ DestroySandbox
  \/ \E from, to \in Handles : MoveHandle(from, to)
  \/ \E t \in Threads : Call(t) \/ Continue(t)

Spec == Init /\ [][Next]_vars

(* A thread inside a call keeps being scheduled. *)
FairSpec == Spec /\ \A t \in Threads : WF_vars(Continue(t))

-----------------------------------------------------------------------------
TypeOK ==
  /\ created \in BOOLEAN
  /\ callback_keys \in [Functions -> Nat]
  /\ callback_unique_keys \in [Slots -> Functions \union {NoKey}]
  /\ handle \in [Handles -> HandleState]
  /\ pc \in [Threads -> Steps]
  /\ target \in [Threads -> Handles \union {NoHandle}]
  /\ key \in [Threads -> Functions \union {NoKey}]
  /\ trampoline \in [Threads -> Slots \union {0}]
  /\ outcome \in [Threads -> Outcomes]
  /\ \A t \in Threads : pc[t] # "idle" => key[t] \in Functions /\ target[t] \in Handles

(* The two tables agree although they are changed under different locks: a   *)
(* key is in each at most once, and one the sandbox can be dispatched to is  *)
(* always in callback_keys, so registering it a second time is refused.      *)
TablesAgree ==
  \A f \in Functions :
    /\ callback_keys[f] <= 1
    /\ \A m, n \in Slots :
         callback_unique_keys[m] = f /\ callback_unique_keys[n] = f => m = n
    /\ \A n \in Slots : callback_unique_keys[n] = f => Exists(f)

(* "We would [be] returning 2 owning types to the same callback which would  *)
(* be bad": no key has two owners, counting the registrations in progress.   *)
OneOwner ==
  \A f \in Functions :
    /\ \A g, h \in Handles : handle[g].key = f /\ handle[h].key = f => g = h
    /\ \A t, u \in Threads : pc[t] # "idle" /\ pc[u] # "idle" /\ key[t] = f /\ key[u] = f
                             => t = u
    /\ \A t \in Threads, h \in Handles :
         pc[t] \in Registering /\ key[t] = f => handle[h].key # f

(* The check "Unregistering a callback that was never registered" never      *)
(* fires, whatever was moved, overwritten or destroyed before.               *)
UnregisterFindsKey ==
  \A t \in Threads : pc[t] = "unreg_erase" => Exists(key[t])

(* The trampoline an object gives the sandbox stays bound to the object's    *)
(* own function for as long as the object owns it, however entries are freed *)
(* and taken again by others.                                                *)
TrampolineReachesKey ==
  \A h \in Handles :
    /\ handle[h].trampoline # 0
    /\ \A t \in Threads : target[t] = h => pc[t] # "unreg_erase"
    => callback_unique_keys[handle[h].trampoline] = handle[h].key

(* Every key that is registered has an object, or a call in progress, that   *)
(* will pass it to unregister_callback.                                      *)
Owned(f) ==
  \/ \E h \in Handles : handle[h].key = f
  \/ \E t \in Threads : pc[t] # "idle" /\ key[t] = f

NoOrphanKeys == \A f \in Functions : Exists(f) => Owned(f)

(* An object that is_unregistered() says is registered has a trampoline that *)
(* reaches its function.                                                     *)
RegisteredIsCallable ==
  \A h \in Handles :
    /\ ~IsUnregistered(h)
    /\ \A t \in Threads : target[t] = h => pc[t] # "unreg_erase"
    => \E n \in Slots : handle[h].trampoline = n /\ callback_unique_keys[n] = handle[h].key

(* register_callback is refused only when the user has "previously already   *)
(* registered this callback" and something still owns that registration.     *)
RefusalMeansOwned ==
  [][\A t \in Threads, f \in Functions : RegisterRefused(t, f) => Owned(f)]_vars

-----------------------------------------------------------------------------
OwnerOf(f) ==
  IF \E h \in Handles : handle[h].key = f
    THEN CHOOSE h \in Handles : handle[h].key = f
    ELSE NoHandle

Ownership == INSTANCE CallbackOwnership
  WITH owner <- [f \in Functions |-> OwnerOf(f)],
       open  <- {f \in Functions : \E n \in Slots : callback_unique_keys[n] = f}

(* The registry keeps the promise of CallbackOwnership while the objects are *)
(* used as owners and the plugin's table has room for every function.        *)
ImplementsOwnership == Ownership!OwnershipSpec
=============================================================================
