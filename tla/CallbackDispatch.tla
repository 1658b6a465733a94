-------------------------- MODULE CallbackDispatch --------------------------
(***************************************************************************)
(* How a call made by sandbox code reaches the right application function  *)
(* of the right sandbox: the invocation and interceptor code of            *)
(* rlbox_sandbox.hpp with the thread-local thread_data and the trampolines *)
(* of the no-op and dynamic-library plugins.  Threads nest invocations and *)
(* callbacks across sandboxes, leave them by returning or by an exception, *)
(* and register and unregister callbacks, also from inside a callback.     *)
(*                                                                         *)
(* stack[t] is the thread's call stack, innermost call last; the last      *)
(* frame says which code the thread is executing.                          *)
(***************************************************************************)
EXTENDS Integers, Sequences

CONSTANTS
  Threads, Sandboxes, Functions,
  MAX_CALLBACKS,   \* entries of a plugin's table
  NoSandbox,       \* nullptr as a sandbox
  NoKey,           \* nullptr as a key
  MaxDepth         \* bound on the calls a thread nests

ASSUME SlotsAssumption == MAX_CALLBACKS \in Nat \ {0}
ASSUME NoSandboxAssumption == NoSandbox \notin Sandboxes
ASSUME NoFunctionAssumption == NoKey \notin Functions
ASSUME DepthAssumption == MaxDepth \in Nat

VARIABLES
  callback_unique_keys,  \* per sandbox, trampoline number to key
  thread_data,           \* the plugin's thread-local variable
  stack,                 \* the calls each thread is in
  unwinding,             \* an exception is leaving the innermost call
  entered                \* transition hooks run: IN minus OUT, per sandbox

vars == <<callback_unique_keys, thread_data, stack, unwinding, entered>>

-----------------------------------------------------------------------------
Slots == 1..MAX_CALLBACKS

(* The code a frame executes: the library, the plugin's trampoline, the      *)
(* interceptor before it has read its key, or the application's callback.    *)
Kinds == {"sandbox", "trampoline", "interceptor", "callback"}

Frame ==
  [kind    : Kinds,
   sandbox : Sandboxes \union {NoSandbox},  \* invoked, or given to the callback
   saved   : Sandboxes \union {NoSandbox},  \* old_sandbox of an invocation
   slot    : Slots \union {0},              \* N of a trampoline
   key     : Functions \union {NoKey}]

InvokeFrame(s, old) ==
  [kind |-> "sandbox", sandbox |-> s, saved |-> old, slot |-> 0, key |-> NoKey]
TrampolineFrame(n) ==
  [kind |-> "trampoline", sandbox |-> NoSandbox, saved |-> NoSandbox, slot |-> n,
   key |-> NoKey]
InterceptorFrame(frame) == [frame EXCEPT !.kind = "interceptor"]
CallbackFrame(frame, s, f) ==
  [frame EXCEPT !.kind = "callback", !.sandbox = s, !.key = f]

Depth(t) == Len(stack[t])
Running(t) == stack[t][Depth(t)]
Caller(t) == stack[t][Depth(t) - 1]

In(t, kinds) == Depth(t) > 0 /\ Running(t).kind \in kinds
InApplication(t) == Depth(t) = 0 \/ In(t, {"callback"})
InCode(t, s) == In(t, {"sandbox"}) /\ Running(t).sandbox = s

(* The call through trampoline n of s has not yet read its key. *)
InFlight(t, s, n) ==
  /\ In(t, {"trampoline", "interceptor"})
  /\ Running(t).slot = n /\ Caller(t).sandbox = s

Push(t, frame) == stack' = [stack EXCEPT ![t] = Append(@, frame)]
Pop(t) == stack' = [stack EXCEPT ![t] = SubSeq(@, 1, Len(@) - 1)]
Replace(t, frame) == stack' = [stack EXCEPT ![t][Depth(t)] = frame]

HookIn(t, s) == entered' = [entered EXCEPT ![t][s] = @ + 1]
HookOut(t, s) == entered' = [entered EXCEPT ![t][s] = @ - 1]

Init ==
  /\ callback_unique_keys = [s \in Sandboxes |-> [n \in Slots |-> NoKey]]
  /\ thread_data = [t \in Threads |-> [sandbox |-> NoSandbox, last_callback_invoked |-> 0]]
  /\ stack = [t \in Threads |-> <<>>]
  /\ unwinding = [t \in Threads |-> FALSE]
  /\ entered = [t \in Threads |-> [s \in Sandboxes |-> 0]]

-----------------------------------------------------------------------------
(* The plugin's table, changed by application code under callback_mutex. *)

Register(t, s, f) ==
  /\ InApplication(t)
  /\ \A n \in Slots : callback_unique_keys[s][n] # f
  /\ \E n \in Slots :
       /\ callback_unique_keys[s][n] = NoKey
       /\ \A m \in Slots : callback_unique_keys[s][m] = NoKey => n <= m
       /\ callback_unique_keys' = [callback_unique_keys EXCEPT ![s][n] = f]
  /\ UNCHANGED <<thread_data, stack, unwinding, entered>>

(* The application unregisters a callback when no thread is on its way to    *)
(* it; it may be running, and may be the one that unregisters itself.        *)
Unregister(t, s, n) ==
  /\ InApplication(t)
  /\ callback_unique_keys[s][n] # NoKey
  /\ \A u \in Threads : ~InFlight(u, s, n)
  /\ callback_unique_keys' = [callback_unique_keys EXCEPT ![s][n] = NoKey]
  /\ UNCHANGED <<thread_data, stack, unwinding, entered>>

-----------------------------------------------------------------------------
(* Mutant: the hook of an invocation is run on the sandbox left behind. *)
InvokeHooksOuter(t, s) ==
  LET old == thread_data[t].sandbox
  IN /\ InApplication(t)
     /\ Depth(t) < MaxDepth
     /\ HookIn(t, IF old = NoSandbox THEN s ELSE old)
     /\ thread_data' = [thread_data EXCEPT ![t].sandbox = s]
     /\ Push(t, InvokeFrame(s, old))
     /\ UNCHANGED <<callback_unique_keys, unwinding>>

(* Application code calls a function of sandbox s. *)
Invoke(t, s) ==
  /\ InApplication(t)
  /\ Depth(t) < MaxDepth
  /\ HookIn(t, s)
  /\ thread_data' = [thread_data EXCEPT ![t].sandbox = s]
  /\ Push(t, InvokeFrame(s, thread_data[t].sandbox))
  /\ UNCHANGED <<callback_unique_keys, unwinding>>

(* Mutant: thread_data.sandbox is restored after the call, not on scope exit. *)
InvokeEndsAfterCall(t) ==
  /\ In(t, {"sandbox"})
  /\ IF unwinding[t]
       THEN UNCHANGED thread_data
       ELSE thread_data' = [thread_data EXCEPT ![t].sandbox = Running(t).saved]
  /\ HookOut(t, Running(t).sandbox)
  /\ Pop(t)
  /\ unwinding' = [unwinding EXCEPT ![t] = FALSE]
  /\ UNCHANGED callback_unique_keys

(* The library function returns, its result does not convert, or the         *)
(* exception that reached it leaves it; the scope guards run in every case.  *)
(* The application catches the exception, or throws it on (CallbackThrows).  *)
InvokeEnds(t) ==
  /\ In(t, {"sandbox"})
  /\ thread_data' = [thread_data EXCEPT ![t].sandbox = Running(t).saved]
  /\ HookOut(t, Running(t).sandbox)
  /\ Pop(t)
  /\ unwinding' = [unwinding EXCEPT ![t] = FALSE]
  /\ UNCHANGED callback_unique_keys

-----------------------------------------------------------------------------
(* Mutant: the trampoline leaves last_callback_invoked as it was once set. *)
CallTrampolineSetsOnce(t, n) ==
  /\ In(t, {"sandbox"}) /\ ~unwinding[t]
  /\ Depth(t) < MaxDepth
  /\ callback_unique_keys[Running(t).sandbox][n] # NoKey
  /\ thread_data' = [thread_data EXCEPT ![t].last_callback_invoked = IF @ = 0 THEN n ELSE @]
  /\ Push(t, TrampolineFrame(n))
  /\ UNCHANGED <<callback_unique_keys, unwinding, entered>>

(* Mutant: the trampoline reports the entry after its own. *)
CallTrampolineOffByOne(t, n) ==
  /\ In(t, {"sandbox"}) /\ ~unwinding[t]
  /\ Depth(t) < MaxDepth
  /\ callback_unique_keys[Running(t).sandbox][n] # NoKey
  /\ thread_data' = [thread_data EXCEPT ![t].last_callback_invoked = n + 1]
  /\ Push(t, TrampolineFrame(n))
  /\ UNCHANGED <<callback_unique_keys, unwinding, entered>>

(* Library code calls trampoline n of its sandbox, which is registered. *)
CallTrampoline(t, n) ==
  /\ In(t, {"sandbox"}) /\ ~unwinding[t]
  /\ Depth(t) < MaxDepth
  /\ callback_unique_keys[Running(t).sandbox][n] # NoKey
  /\ thread_data' = [thread_data EXCEPT ![t].last_callback_invoked = n]
  /\ Push(t, TrampolineFrame(n))
  /\ UNCHANGED <<callback_unique_keys, unwinding, entered>>

(* Under the shared lock the trampoline reads the interceptor, which is      *)
(* there exactly when the entry has a key, and calls it without the lock.    *)
EnterInterceptor(t) ==
  /\ In(t, {"trampoline"})
  /\ callback_unique_keys[thread_data[t].sandbox][Running(t).slot] # NoKey
  /\ Replace(t, InterceptorFrame(Running(t)))
  /\ UNCHANGED <<callback_unique_keys, thread_data, unwinding, entered>>

(* The interceptor asks the plugin, which reads thread_data and the table    *)
(* without a lock, runs the hook and calls the function that is the key.     *)
StartCallback(t) ==
  LET s == thread_data[t].sandbox
      f == callback_unique_keys[s][thread_data[t].last_callback_invoked]
  IN /\ In(t, {"interceptor"})
     /\ HookOut(t, s)
     /\ Replace(t, CallbackFrame(Running(t), s, f))
     /\ UNCHANGED <<callback_unique_keys, thread_data, unwinding>>

(* An argument does not convert to the application's type: dynamic_check     *)
(* throws after the hook OUT, and the scope guard runs IN again.             *)
CallbackParamFails(t) ==
  /\ In(t, {"interceptor"})
  /\ Pop(t)
  /\ unwinding' = [unwinding EXCEPT ![t] = TRUE]
  /\ UNCHANGED <<callback_unique_keys, thread_data, entered>>

CallbackReturns(t) ==
  /\ In(t, {"callback"})
  /\ HookIn(t, Running(t).sandbox)
  /\ Pop(t)
  /\ UNCHANGED <<callback_unique_keys, thread_data, unwinding>>

(* An exception leaves the callback, or its result does not convert to the   *)
(* sandbox's type; the guards of the interceptor run.                        *)
CallbackThrows(t) ==
  /\ In(t, {"callback"})
  /\ HookIn(t, Running(t).sandbox)
  /\ Pop(t)
  /\ unwinding' = [unwinding EXCEPT ![t] = TRUE]
  /\ UNCHANGED <<callback_unique_keys, thread_data>>

-----------------------------------------------------------------------------
Next ==
  \E t \in Threads :
    \/ \E s \in Sandboxes :
         \/ Invoke(t, s)
         \/ \E f \in Functions : Register(t, s, f)
         \/ \E n \in Slots : Unregister(t, s, n)
    \/ \E n \in Slots : CallTrampoline(t, n)
    \/ EnterInterceptor(t) \/ CallbackParamFails(t) \/ StartCallback(t)
    \/ CallbackReturns(t) \/ CallbackThrows(t) \/ InvokeEnds(t)

Spec == Init /\ [][Next]_vars

-----------------------------------------------------------------------------
TypeOK ==
  /\ callback_unique_keys \in [Sandboxes -> [Slots -> Functions \union {NoKey}]]
  /\ thread_data \in [Threads -> [sandbox : Sandboxes \union {NoSandbox},
                                  last_callback_invoked : Slots \union {0}]]
  /\ stack \in [Threads -> Seq(Frame)]
  /\ unwinding \in [Threads -> BOOLEAN]
  /\ entered \in [Threads -> [Sandboxes -> Int]]

(* A callback is given the sandbox whose code called it, on every thread and *)
(* at every depth, whatever other sandboxes were entered, left or unwound on *)
(* that thread in between.                                                   *)
RightSandbox ==
  \A t \in Threads : \A i \in 2..Depth(t) :
    stack[t][i].kind = "callback" => stack[t][i].sandbox = stack[t][i - 1].sandbox

(* The function an interceptor calls is the one registered, with the sandbox *)
(* whose code is calling, for the trampoline that code called.               *)
RightFunction ==
  [][\A t \in Threads :
       StartCallback(t) =>
         /\ stack'[t][Depth(t)].key = callback_unique_keys[Caller(t).sandbox][Running(t).slot]
         /\ stack'[t][Depth(t)].key # NoKey]_vars

(* The transition hooks always tell which side of the boundary a thread is   *)
(* on: for each sandbox IN was run once more than OUT exactly while the      *)
(* thread executes code on behalf of that sandbox, after returns and         *)
(* exceptions alike.                                                         *)
HooksMatchStack ==
  \A t \in Threads, s \in Sandboxes :
    entered[t][s] = IF InCode(t, s) \/ \E n \in Slots : InFlight(t, s, n) THEN 1 ELSE 0
=============================================================================
