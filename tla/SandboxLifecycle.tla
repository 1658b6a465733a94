-------------------------- MODULE SandboxLifecycle --------------------------
(***************************************************************************)
(* create_sandbox, destroy_sandbox and find_sandbox_from_example of        *)
(* rlbox_sandbox.hpp, one action per atomic step of the code: the          *)
(* compare-and-swap on sandbox_created, the call into the plugin, the      *)
(* store that publishes the new status, and the critical section on the    *)
(* static sandbox_list.  Any number of threads run them on any number of   *)
(* sandboxes that share the list.                                          *)
(*                                                                         *)
(* A failed dynamic_check throws (RLBOX_USE_EXCEPTIONS): the operation     *)
(* ends there and leaves what it had already written.                      *)
(***************************************************************************)
EXTENDS Integers, FiniteSets

CONSTANTS Sandboxes,     \* rlbox_sandbox objects of one plugin type
          Threads,       \* application threads
          NoSandbox,     \* nullptr
          Serialized     \* those for which the application keeps the rules below

ASSUME NoSandboxAssumption == NoSandbox \notin Sandboxes
ASSUME SerializedAssumption == Serialized \subseteq Sandboxes

VARIABLES
  sandbox_created,  \* the atomic status word of each sandbox
  sandbox_list,     \* how often each sandbox occurs in the static vector
  backend,          \* whether the plugin's own resource is held (dlopen'ed)
  pc,               \* where each thread is
  on,               \* the sandbox its operation is about
  found,            \* what find_sandbox_from_example returned to it
  outcome           \* how its last operation ended

vars == <<sandbox_created, sandbox_list, backend, pc, on, found, outcome>>

-----------------------------------------------------------------------------
Sandbox_Status == {"NOT_CREATED", "INITIALIZING", "CREATED", "CLEANING_UP"}

CreateSteps  == {"create_impl", "create_store", "create_push"}
DestroySteps == {"destroy_erase", "destroy_store", "destroy_impl"}
Steps        == CreateSteps \union DestroySteps \union {"idle", "use_found"}

Outcomes == {"none", "created", "create_failed", "create_refused", "destroyed",
             "destroy_refused", "never_initialized"}

At(t, s, steps) == on[t] = s /\ pc[t] \in steps

(***************************************************************************)
(* What "we leave it up to the user" asks of the application: it does not  *)
(* overlap create or destroy of a sandbox with another call about it, and  *)
(* converts pointers only with a sandbox that create_sandbox returned.     *)
(* Calls about different sandboxes overlap freely.                         *)
(***************************************************************************)
MayCall(s) == s \in Serialized => \A u \in Threads : on[u] # s

MayFind(s) ==
  s \in Serialized =>
    /\ sandbox_created[s] = "CREATED"
    /\ \A u \in Threads : ~At(u, s, CreateSteps \union DestroySteps)

Begin(t, s, step) ==
  /\ pc' = [pc EXCEPT ![t] = step]
  /\ on' = [on EXCEPT ![t] = s]

Goto(t, step) ==
  /\ pc' = [pc EXCEPT ![t] = step]
  /\ UNCHANGED <<on, outcome>>

End(t, result) ==
  /\ pc' = [pc EXCEPT ![t] = "idle"]
  /\ on' = [on EXCEPT ![t] = NoSandbox]
  /\ outcome' = [outcome EXCEPT ![t] = result]

Init ==
  /\ sandbox_created = [s \in Sandboxes |-> "NOT_CREATED"]
  /\ sandbox_list = [s \in Sandboxes |-> 0]
  /\ backend = [s \in Sandboxes |-> FALSE]
  /\ pc = [t \in Threads |-> "idle"]
  /\ on = [t \in Threads |-> NoSandbox]
  /\ found = [t \in Threads |-> NoSandbox]
  /\ outcome = [t \in Threads |-> "none"]

-----------------------------------------------------------------------------
(* create_sandbox *)

(* Mutant: a plain store in place of the compare-and-swap. *)
BeginCreateUnchecked(t, s) ==
  /\ pc[t] = "idle"
  /\ MayCall(s)
  /\ sandbox_created' = [sandbox_created EXCEPT ![s] = "INITIALIZING"]
  /\ Begin(t, s, "create_impl")
  /\ UNCHANGED <<sandbox_list, backend, found, outcome>>

(* The compare-and-swap NOT_CREATED -> INITIALIZING succeeds. *)
BeginCreate(t, s) ==
  /\ pc[t] = "idle"
  /\ MayCall(s)
  /\ sandbox_created[s] = "NOT_CREATED"
  /\ sandbox_created' = [sandbox_created EXCEPT ![s] = "INITIALIZING"]
  /\ Begin(t, s, "create_impl")
  /\ UNCHANGED <<sandbox_list, backend, found, outcome>>

(* It fails, and the dynamic_check on its result throws. *)
RefuseCreate(t, s) ==
  /\ pc[t] = "idle"
  /\ MayCall(s)
  /\ sandbox_created[s] # "NOT_CREATED"
  /\ outcome' = [outcome EXCEPT ![t] = "create_refused"]
  /\ UNCHANGED <<sandbox_created, sandbox_list, backend, pc, on, found>>

ImplCreate(t) ==
  /\ pc[t] = "create_impl"
  /\ backend' = [backend EXCEPT ![on[t]] = TRUE]
  /\ Goto(t, "create_store")
  /\ UNCHANGED <<sandbox_created, sandbox_list, found>>

(* Mutant: the plugin's answer is ignored. *)
ImplCreateFailureIgnored(t) ==
  /\ pc[t] = "create_impl"
  /\ backend' = [backend EXCEPT ![on[t]] = FALSE]
  /\ Goto(t, "create_store")
  /\ UNCHANGED <<sandbox_created, sandbox_list, found>>

(* The plugin returns false, or throws because the library cannot be loaded. *)
(* dlopen has then stored a null handle; nothing resets the status.          *)
ImplCreateFails(t) ==
  /\ pc[t] = "create_impl"
  /\ backend' = [backend EXCEPT ![on[t]] = FALSE]
  /\ End(t, "create_failed")
  /\ UNCHANGED <<sandbox_created, sandbox_list, found>>

StoreCreated(t) ==
  /\ pc[t] = "create_store"
  /\ sandbox_created' = [sandbox_created EXCEPT ![on[t]] = "CREATED"]
  /\ Goto(t, "create_push")
  /\ UNCHANGED <<sandbox_list, backend, found>>

(* Mutant: the sandbox is never added to the list. *)
PushBackForgotten(t) ==
  /\ pc[t] = "create_push"
  /\ End(t, "created")
  /\ UNCHANGED <<sandbox_created, sandbox_list, backend, found>>

PushBack(t) ==
  /\ pc[t] = "create_push"
  /\ sandbox_list' = [sandbox_list EXCEPT ![on[t]] = @ + 1]
  /\ End(t, "created")
  /\ UNCHANGED <<sandbox_created, backend, found>>

-----------------------------------------------------------------------------
(* destroy_sandbox *)

BeginDestroy(t, s) ==
  /\ pc[t] = "idle"
  /\ MayCall(s)
  /\ sandbox_created[s] = "CREATED"
  /\ sandbox_created' = [sandbox_created EXCEPT ![s] = "CLEANING_UP"]
  /\ Begin(t, s, "destroy_erase")
  /\ UNCHANGED <<sandbox_list, backend, found, outcome>>

RefuseDestroy(t, s) ==
  /\ pc[t] = "idle"
  /\ MayCall(s)
  /\ sandbox_created[s] # "CREATED"
  /\ outcome' = [outcome EXCEPT ![t] = "destroy_refused"]
  /\ UNCHANGED <<sandbox_created, sandbox_list, backend, pc, on, found>>

(* Mutant: the search is taken to have succeeded. *)
ListedAssumed(s) == s \in Sandboxes

Listed(s) == sandbox_list[s] > 0

EraseFromList(t) ==
  /\ pc[t] = "destroy_erase"
  /\ Listed(on[t])
  /\ sandbox_list' = [sandbox_list EXCEPT ![on[t]] = @ - 1]
  /\ Goto(t, "destroy_store")
  /\ UNCHANGED <<sandbox_created, backend, found>>

(* Mutant: a failed search goes on as if the entry had been erased. *)
EraseFailureIgnored(t) ==
  /\ pc[t] = "destroy_erase"
  /\ ~Listed(on[t])
  /\ Goto(t, "destroy_store")
  /\ UNCHANGED <<sandbox_created, sandbox_list, backend, found>>

(* "Unexpected state. Destroying a sandbox that was never initialized." *)
EraseFails(t) ==
  /\ pc[t] = "destroy_erase"
  /\ ~Listed(on[t])
  /\ End(t, "never_initialized")
  /\ UNCHANGED <<sandbox_created, sandbox_list, backend, found>>

(* Mutant: destroy_sandbox returns without calling impl_destroy_sandbox. *)
StoreNotCreatedAndReturn(t) ==
  /\ pc[t] = "destroy_store"
  /\ sandbox_created' = [sandbox_created EXCEPT ![on[t]] = "NOT_CREATED"]
  /\ End(t, "destroyed")
  /\ UNCHANGED <<sandbox_list, backend, found>>

StoreNotCreated(t) ==
  /\ pc[t] = "destroy_store"
  /\ sandbox_created' = [sandbox_created EXCEPT ![on[t]] = "NOT_CREATED"]
  /\ Goto(t, "destroy_impl")
  /\ UNCHANGED <<sandbox_list, backend, found>>

ImplDestroy(t) ==
  /\ pc[t] = "destroy_impl"
  /\ backend' = [backend EXCEPT ![on[t]] = FALSE]
  /\ End(t, "destroyed")
  /\ UNCHANGED <<sandbox_created, sandbox_list, found>>

-----------------------------------------------------------------------------
(* find_sandbox_from_example: a pointer into the memory of s; the list is    *)
(* read under the shared lock, and the raw sandbox pointer used without it.  *)

FindSandbox(t, s) ==
  /\ pc[t] = "idle"
  /\ MayFind(s)
  /\ found' = [found EXCEPT ![t] = IF Listed(s) THEN s ELSE NoSandbox]
  /\ Begin(t, s, "use_found")
  /\ UNCHANGED <<sandbox_created, sandbox_list, backend, outcome>>

UseFound(t) ==
  /\ pc[t] = "use_found"
  /\ found' = [found EXCEPT ![t] = NoSandbox]
  /\ End(t, "none")
  /\ UNCHANGED <<sandbox_created, sandbox_list, backend>>

-----------------------------------------------------------------------------
Call(t, s) ==
  \/ BeginCreate(t, s) \/ RefuseCreate(t, s)
  \/ BeginDestroy(t, s) \/ RefuseDestroy(t, s)
  \/ FindSandbox(t, s)

(* The rest of an operation that has begun. *)
Continue(t) ==
  \/ ImplCreate(t) \/ ImplCreateFails(t) \/ StoreCreated(t) \/ PushBack(t)
  \/ EraseFromList(t) \/ EraseFails(t) \/ StoreNotCreated(t) \/ ImplDestroy(t)
  \/ UseFound(t)

Next == \E t \in Threads : Continue(t) \/ \E s \in Sandboxes : Call(t, s)

Spec == Init /\ [][Next]_vars

(* A thread inside an operation keeps being scheduled; nothing makes it call. *)
FairSpec == Spec /\ \A t \in Threads : WF_vars(Continue(t))

-----------------------------------------------------------------------------
TypeOK ==
  /\ sandbox_created \in [Sandboxes -> Sandbox_Status]
  /\ sandbox_list \in [Sandboxes -> Nat]
  /\ backend \in [Sandboxes -> BOOLEAN]
  /\ pc \in [Threads -> Steps]
  /\ on \in [Threads -> Sandboxes \union {NoSandbox}]
  /\ found \in [Threads -> Sandboxes \union {NoSandbox}]
  /\ outcome \in [Threads -> Outcomes]
  /\ \A t \in Threads : pc[t] # "idle" => on[t] \in Sandboxes

(* The steps whose thread has claimed the sandbox by a compare-and-swap and  *)
(* has not yet published the outcome.                                        *)
Claimed == {"create_impl", "create_store", "destroy_erase", "destroy_store"}

(* However calls overlap, at most one thread is between the compare-and-swap *)
(* of create_sandbox or destroy_sandbox and the store that ends its claim.   *)
OneClaimant ==
  \A s \in Sandboxes : \A t, u \in Threads :
    At(t, s, Claimed) /\ At(u, s, Claimed) => t = u

(* However calls overlap, a sandbox is in the list at most once, counting    *)
(* the push_back a thread still has to do after publishing CREATED; and one  *)
(* that is not created has no entry and no pending push, so destroy_sandbox  *)
(* never leaves an entry behind for find_sandbox_from_example to return.     *)
ListedOnce ==
  \A s \in Sandboxes :
    /\ sandbox_list[s] <= 1
    /\ \A t \in Threads : At(t, s, {"create_push"}) => sandbox_list[s] = 0
    /\ Listed(s) => sandbox_created[s] \in {"CREATED", "CLEANING_UP"}

(* find_sandbox_from_example gives a thread that holds a pointer into a      *)
(* created sandbox that sandbox, never null, and it stays ready while used,  *)
(* with its plugin's resource held.                                          *)
FindReturnsReady ==
  \A t \in Threads : pc[t] = "use_found" /\ on[t] \in Serialized =>
    /\ found[t] = on[t]
    /\ sandbox_created[on[t]] = "CREATED" /\ backend[on[t]]

DestroyFinds(s) == \A t \in Threads : At(t, s, {"destroy_erase"}) => Listed(s)

(* The check at the end of the list search says the sandbox "was never       *)
(* initialized": a destroy that claimed a created sandbox finds its entry.   *)
DestroyFindsSandbox == \A s \in Sandboxes : DestroyFinds(s)

(* The same for a sandbox whose create and destroy calls do not overlap:     *)
(* whatever create_sandbox published is there for destroy_sandbox to take    *)
(* out, in every incarnation, with other sandboxes changing the same list.   *)
SerialDestroyFinds == \A s \in Serialized : DestroyFinds(s)

(* create_sandbox is refused only for a sandbox that is "already created" or *)
(* "is being created concurrently", as the message of its check says.        *)
RefusalIsTruthful ==
  [][\A t \in Threads, s \in Sandboxes :
       RefuseCreate(t, s) =>
         \/ sandbox_created[s] = "CREATED"
         \/ \E u \in Threads : At(u, s, CreateSteps)]_vars
=============================================================================
