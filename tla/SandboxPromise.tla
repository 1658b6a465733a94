--------------------------- MODULE SandboxPromise ---------------------------
(***************************************************************************)
(* What rlbox_sandbox promises the application about the life of its       *)
(* sandboxes, without the status word, the global list or any lock: a      *)
(* sandbox comes up, is ready, goes away, and can come up again; a sandbox *)
(* whose plugin could not start stays failed.  A thread converts pointers  *)
(* with a sandbox only while that sandbox is ready.                        *)
(***************************************************************************)
CONSTANTS Sandboxes,   \* rlbox_sandbox objects
          Threads,     \* application threads
          NoSandbox    \* the null sandbox pointer

VARIABLES phase,       \* where each sandbox is in its life
          user         \* the sandbox each thread is converting a pointer with

promiseVars == <<phase, user>>

Phases == {"absent", "coming", "ready", "going", "failed"}

PromiseInit ==
  /\ phase = [s \in Sandboxes |-> "absent"]
  /\ user = [t \in Threads |-> NoSandbox]

Move(s, from, to) ==
  /\ phase[s] = from
  /\ phase' = [phase EXCEPT ![s] = to]
  /\ UNCHANGED user

Start(s) == Move(s, "absent", "coming")
Ready(s) == Move(s, "coming", "ready")
Fail(s)  == Move(s, "coming", "failed")
Gone(s)  == Move(s, "going", "absent")

(* A sandbox goes away only when no thread is still using it. *)
Stop(s) ==
  /\ \A t \in Threads : user[t] # s
  /\ Move(s, "ready", "going")

Acquire(t, s) ==
  /\ user[t] = NoSandbox
  /\ phase[s] = "ready"
  /\ user' = [user EXCEPT ![t] = s]
  /\ UNCHANGED phase

Release(t) ==
  /\ user[t] # NoSandbox
  /\ user' = [user EXCEPT ![t] = NoSandbox]
  /\ UNCHANGED phase

PromiseNext ==
  \/ \E s \in Sandboxes : Start(s) \/ Ready(s) \/ Fail(s) \/ Stop(s) \/ Gone(s)
  \/ \E t \in Threads : Release(t) \/ \E s \in Sandboxes : Acquire(t, s)

(* Coming up and going away end: they are calls the application waits for. *)
PromiseFairness ==
  \A s \in Sandboxes : WF_promiseVars(Ready(s) \/ Fail(s)) /\ WF_promiseVars(Gone(s))

PromiseSpec == PromiseInit /\ [][PromiseNext]_promiseVars /\ PromiseFairness
=============================================================================
