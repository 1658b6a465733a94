-------------------------- MODULE TransitionTimes --------------------------
(***************************************************************************)
(* The transition timing of rlbox_sandbox.hpp (RLBOX_MEASURE_TRANSITION_   *)
(* TIMES) beside the calls it measures, those of CallbackDispatch.  A      *)
(* scope guard of each invocation and each callback appends a record with  *)
(* its duration to the sandbox's vector when the call ends, normally or by *)
(* an exception; the total adds invocations and subtracts callbacks.       *)
(*                                                                         *)
(* RLBOX_ACQUIRE_UNIQUE_GUARD(transition_times_lock) names no mutex: it    *)
(* declares a function, so nothing is locked and an append is a read of    *)
(* the vector's end and a write there.  Two appends that overlap lose a    *)
(* record here; the build may do worse, and the properties claim nothing   *)
(* of a vector to which that has happened.                                 *)
(***************************************************************************)
EXTENDS CallbackDispatch, FiniteSetsExt

CONSTANTS MaxTime,     \* bound on the clock
          MaxRecords   \* bound on the records with which a call still starts

ASSUME TimeBounds == MaxTime \in Nat /\ MaxRecords \in Nat
ASSUME ThreadsAssumption == IsFiniteSet(Threads)

VARIABLES
  now,               \* the clock
  enter_time,        \* per thread and call of its stack, when it was timed from
  append,            \* per thread, the append its last call ended with
  transition_times,  \* per sandbox, its vector
  inside,            \* history: time since the last clear that threads were in it
  spoiled            \* history: what happened to its records since then

timeVars == <<now, enter_time, append, transition_times, inside, spoiled>>
allVars == <<vars, timeVars>>

-----------------------------------------------------------------------------
NoAppend == [step |-> "none"]
Appending(t) == append[t].step # "none"
AppendingTo(t, s) == Appending(t) /\ append[t].sandbox = s
Writing(t, s) == AppendingTo(t, s) /\ append[t].step = "write"

BeginAppendOf(t, s, kind, time) ==
  /\ append' = [append EXCEPT ![t] =
       [step |-> "size", sandbox |-> s, record |-> [invoke |-> kind, time |-> time], at |-> 0]]
  /\ enter_time' = [enter_time EXCEPT ![t] = SubSeq(@, 1, Len(@) - 1)]
  /\ UNCHANGED <<now, transition_times, inside, spoiled>>
BeginAppend(t, s, kind) == BeginAppendOf(t, s, kind, now - enter_time[t][Depth(t)])

StartTimer(t) ==
  /\ enter_time' = [enter_time EXCEPT ![t] = Append(@, now)]
  /\ UNCHANGED <<now, append, transition_times, inside, spoiled>>

(* Thread t executes on behalf of s, or is a caller of code that does. *)
InsideOf(t, s) == InCode(t, s) \/ \E n \in Slots : InFlight(t, s, n)
CallsIn(t, s) == \E i \in 1..Depth(t) : stack[t][i].kind = "sandbox" /\ stack[t][i].sandbox = s
NoCallIn(s) == \A t \in Threads : ~CallsIn(t, s) /\ ~AppendingTo(t, s)

TimesInit ==
  /\ Init
  /\ now = 0
  /\ enter_time = [t \in Threads |-> <<>>]
  /\ append = [t \in Threads |-> NoAppend]
  /\ transition_times = [s \in Sandboxes |-> <<>>]
  /\ inside = [s \in Sandboxes |-> 0]
  /\ spoiled = [s \in Sandboxes |-> "no"]

-----------------------------------------------------------------------------
Tick ==
  /\ now < MaxTime
  /\ now' = now + 1
  /\ inside' = [s \in Sandboxes |->
       inside[s] + Cardinality({t \in Threads : InsideOf(t, s)})]
  /\ UNCHANGED <<vars, enter_time, append, transition_times, spoiled>>

Room(s) == Len(transition_times[s]) < MaxRecords

(* The invocation reads the clock before its hook IN. *)
TimedInvoke(t, s) == Room(s) /\ Invoke(t, s) /\ StartTimer(t)

(* The call of a trampoline; its callback is not timed before it starts. *)
TimedTrampoline(t, n) ==
  /\ CallTrampoline(t, n)
  /\ Room(Running(t).sandbox)
  /\ StartTimer(t)

(* Mutant: the interceptor's clock is read when the trampoline is called. *)
TimedCallbackEarly(t) ==
  /\ StartCallback(t)
  /\ UNCHANGED timeVars

(* The interceptor reads the clock before its hook OUT. *)
TimedCallback(t) ==
  /\ StartCallback(t)
  /\ enter_time' = [enter_time EXCEPT ![t][Depth(t)] = now]
  /\ UNCHANGED <<now, append, transition_times, inside, spoiled>>

Forget(t) ==
  /\ enter_time' = [enter_time EXCEPT ![t] = SubSeq(@, 1, Len(@) - 1)]
  /\ UNCHANGED <<now, append, transition_times, inside, spoiled>>

(* Mutant: an invocation is recorded after the call, not on scope exit. *)
TimedEndsAfterCall(t) ==
  \/ /\ InvokeEnds(t)
     /\ IF unwinding[t] THEN Forget(t) ELSE BeginAppend(t, Running(t).sandbox, "INVOKE")
  \/ /\ CallbackReturns(t) \/ CallbackThrows(t)
     /\ BeginAppend(t, Running(t).sandbox, "CALLBACK")

(* The guards append after the other hook has run; a callback whose          *)
(* argument does not convert had only just been timed.                       *)
TimedEnds(t) ==
  \/ InvokeEnds(t) /\ BeginAppend(t, Running(t).sandbox, "INVOKE")
  \/ /\ CallbackReturns(t) \/ CallbackThrows(t)
     /\ BeginAppend(t, Running(t).sandbox, "CALLBACK")
  \/ CallbackParamFails(t) /\ BeginAppendOf(t, thread_data[t].sandbox, "CALLBACK", 0)

(* push_back without a lock: where the vector ends, and the write there. *)
ReadSize(t) ==
  LET s == append[t].sandbox
  IN /\ append[t].step = "size"
     /\ append' = [append EXCEPT ![t].step = "write",
                                 ![t].at = Len(transition_times[s]) + 1]
     /\ spoiled' = [spoiled EXCEPT ![s] =
          IF \E u \in Threads : Writing(u, s) THEN "raced" ELSE @]
     /\ UNCHANGED <<vars, now, enter_time, transition_times, inside>>

WriteRecord(t) ==
  LET s == append[t].sandbox
      n == append[t].at
  IN /\ append[t].step = "write"
     /\ transition_times' = [transition_times EXCEPT ![s] =
          Append(SubSeq(@, 1, Min({n - 1, Len(@)})), append[t].record)]
     /\ append' = [append EXCEPT ![t] = NoAppend]
     /\ UNCHANGED <<vars, now, enter_time, inside, spoiled>>

(* clear_transition_times, by the application at any time. *)
Clear(t, s) ==
  /\ InApplication(t)
  /\ transition_times' = [transition_times EXCEPT ![s] = <<>>]
  /\ inside' = [inside EXCEPT ![s] = 0]
  /\ spoiled' = [spoiled EXCEPT ![s] =
       CASE \E u \in Threads : Writing(u, s) -> "raced"
         [] NoCallIn(s)                      -> "no"
         [] OTHER                            -> "cleared"]
  /\ UNCHANGED <<vars, now, enter_time, append>>

Untimed(t) ==
  /\ \/ EnterInterceptor(t)
     \/ \E s \in Sandboxes, f \in Functions : Register(t, s, f)
     \/ \E s \in Sandboxes, n \in Slots : Unregister(t, s, n)
  /\ UNCHANGED timeVars

TimesNext ==
  \/ Tick
  \/ \E t \in Threads :
       \/ ReadSize(t) \/ WriteRecord(t)
       \/ /\ ~Appending(t)
          /\ \/ TimedCallback(t) \/ TimedEnds(t) \/ Untimed(t)
             \/ \E n \in Slots : TimedTrampoline(t, n)
             \/ \E s \in Sandboxes : TimedInvoke(t, s) \/ Clear(t, s)

TimesSpec == TimesInit /\ [][TimesNext]_allVars

-----------------------------------------------------------------------------
(* get_total_ns_time_in_sandbox_and_transitions. *)
Signed(record) == IF record.invoke = "INVOKE" THEN record.time ELSE -record.time

(* f[1] + ... + f[n], as the loop adds it up. *)
SumTo(f, n) == LET sum[i \in 0..n] == IF i = 0 THEN 0 ELSE sum[i - 1] + f[i] IN sum[n]

Total(s) ==
  LET times == transition_times[s]
  IN SumTo([i \in 1..Len(times) |-> Signed(times[i])], Len(times))

(* Once no call about a sandbox is in progress its total is the time threads *)
(* executed its code since the records were cleared, whatever callbacks,     *)
(* invocations of other sandboxes and exceptions those calls went through -  *)
(* if the clear came between calls and no two threads appended at once.      *)
TotalIsTimeInside ==
  \A s \in Sandboxes : NoCallIn(s) /\ spoiled[s] = "no" => Total(s) = inside[s]

(* A clear in the middle of calls only makes the total count time from       *)
(* before it or spent in callbacks: it is never too small, nor negative.     *)
TotalNeverShort ==
  \A s \in Sandboxes : NoCallIn(s) /\ spoiled[s] # "raced" => Total(s) >= inside[s]
=============================================================================
