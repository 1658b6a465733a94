----------------------- MODULE CallbackDispatch_proofs -----------------------
(***************************************************************************)
(* Proofs about CallbackDispatch for any number of threads, sandboxes,     *)
(* functions and table entries, and nesting of any depth.                  *)
(***************************************************************************)
EXTENDS CallbackDispatch, SequenceTheorems, TLAPS

USE SlotsAssumption, NoSandboxAssumption, NoFunctionAssumption, DepthAssumption

(* What pushing, popping and replacing the last frame do to a stack. *)
LEMMA PushFacts ==
  ASSUME NEW q \in Seq(Frame), NEW f \in Frame
  PROVE  /\ Append(q, f) \in Seq(Frame)
         /\ Len(Append(q, f)) = Len(q) + 1
         /\ \A i \in 1..Len(q) : Append(q, f)[i] = q[i]
         /\ Append(q, f)[Len(q) + 1] = f
  BY AppendProperties

LEMMA PopAny ==
  ASSUME NEW S, NEW q \in Seq(S), Len(q) > 0
  PROVE  LET r == SubSeq(q, 1, Len(q) - 1)
         IN /\ r \in Seq(S)
            /\ Len(r) = Len(q) - 1
            /\ \A i \in 1..(Len(q) - 1) : r[i] = q[i]
<1>1. Len(q) \in Nat
  BY LenProperties
<1>2. \A i \in 1..(Len(q) - 1) : q[i] \in S
  BY <1>1, ElementOfSeq
<1>3. 1 \in Int /\ Len(q) - 1 \in Int
  BY <1>1
<1> DEFINE r == SubSeq(q, 1, Len(q) - 1)
<1>4. /\ r \in Seq(S)
      /\ Len(r) = IF 1 <= Len(q) - 1 THEN (Len(q) - 1) - 1 + 1 ELSE 0
      /\ \A i \in 1..((Len(q) - 1) - 1 + 1) : r[i] = q[1 + i - 1]
  BY <1>2, <1>3, SubSeqProperties
<1> HIDE DEF r
<1>5. Len(r) = Len(q) - 1
  <2>1. CASE 1 <= Len(q) - 1  BY <1>1, <1>4, <2>1
  <2>2. CASE ~(1 <= Len(q) - 1)
    <3>1. Len(r) = 0
      BY <1>4, <2>2
    <3>2. \A n \in Nat : n > 0 /\ ~(1 <= n - 1) => 0 = n - 1
      OBVIOUS
    <3> QED BY <1>1, <2>2, <3>1, <3>2
  <2> QED BY <2>1, <2>2
<1>6. ASSUME NEW i \in 1..(Len(q) - 1) PROVE r[i] = q[i]
  <2>1. i \in 1..((Len(q) - 1) - 1 + 1) /\ 1 + i - 1 = i
    BY <1>1
  <2> QED BY <2>1, <1>4
<1> QED BY <1>4, <1>5, <1>6 DEF r

LEMMA PopFacts ==
  ASSUME NEW q \in Seq(Frame), Len(q) > 0
  PROVE  LET r == SubSeq(q, 1, Len(q) - 1)
         IN /\ r \in Seq(Frame)
            /\ Len(r) = Len(q) - 1
            /\ \A i \in 1..(Len(q) - 1) : r[i] = q[i]
  BY PopAny

LEMMA ReplaceFacts ==
  ASSUME NEW q \in Seq(Frame), NEW f \in Frame, Len(q) > 0
  PROVE  LET r == [q EXCEPT ![Len(q)] = f]
         IN /\ r \in Seq(Frame)
            /\ Len(r) = Len(q)
            /\ \A i \in 1..(Len(q) - 1) : r[i] = q[i]
            /\ r[Len(q)] = f
<1>1. Len(q) \in Nat /\ Len(q) \in 1..Len(q)
  BY LenProperties
<1> QED BY <1>1, ExceptSeq

(* The frames the actions build. *)
LEMMA FrameFields ==
  ASSUME NEW g \in Frame
  PROVE  /\ g.kind \in Kinds
         /\ g.sandbox \in Sandboxes \union {NoSandbox}
         /\ g.saved \in Sandboxes \union {NoSandbox}
         /\ g.slot \in Slots \union {0} /\ g.key \in Functions \union {NoKey}
  BY DEF Frame

LEMMA FrameFacts ==
  /\ \A s \in Sandboxes, old \in Sandboxes \union {NoSandbox} :
       LET f == InvokeFrame(s, old)
       IN f \in Frame /\ f.kind = "sandbox" /\ f.sandbox = s /\ f.saved = old
  /\ \A n \in Slots :
       LET f == TrampolineFrame(n)
       IN f \in Frame /\ f.kind = "trampoline" /\ f.slot = n
  /\ \A g \in Frame :
       LET f == InterceptorFrame(g)
       IN f \in Frame /\ f.kind = "interceptor" /\ f.slot = g.slot
  /\ \A g \in Frame, s \in Sandboxes, k \in Functions \union {NoKey} :
       LET f == CallbackFrame(g, s, k)
       IN f \in Frame /\ f.kind = "callback" /\ f.sandbox = s /\ f.slot = g.slot /\ f.key = k
  BY DEF Frame, Kinds, InvokeFrame, TrampolineFrame, InterceptorFrame, CallbackFrame, Slots

-----------------------------------------------------------------------------
(***************************************************************************)
(* What every call stack looks like: invocations and calls back alternate, *)
(* a callback has the sandbox that called it, and an invocation saved the  *)
(* sandbox of the callback that made it.                                   *)
(***************************************************************************)
WellNested(q) ==
  \A i \in 1..Len(q) :
    /\ q[i].kind = "sandbox" => q[i].sandbox \in Sandboxes
    /\ q[i].kind # "sandbox" => q[i].slot \in Slots
    /\ i = 1 => q[i].kind = "sandbox" /\ q[i].saved = NoSandbox
    /\ i > 1 /\ q[i].kind = "sandbox" => /\ q[i - 1].kind = "callback"
                                         /\ q[i].saved = q[i - 1].sandbox
    /\ i > 1 /\ q[i].kind # "sandbox" => q[i - 1].kind = "sandbox"
    /\ i > 1 /\ q[i].kind = "callback" => q[i].sandbox = q[i - 1].sandbox

Dispatching(q) == Len(q) > 0 /\ q[Len(q)].kind \in {"trampoline", "interceptor"}

(* The sandbox a thread with stack q works for. *)
Owner(q) ==
  IF Len(q) = 0 THEN NoSandbox
  ELSE IF Dispatching(q) THEN q[Len(q) - 1].sandbox
  ELSE q[Len(q)].sandbox

LEMMA PushInvoke ==
  ASSUME NEW q \in Seq(Frame), WellNested(q), NEW s \in Sandboxes,
         Len(q) > 0 => q[Len(q)].kind = "callback"
  PROVE  LET r == Append(q, InvokeFrame(s, Owner(q)))
         IN r \in Seq(Frame) /\ WellNested(r) /\ Owner(r) = s /\ r[Len(r)].kind = "sandbox"
<1>1. Len(q) \in Nat
  BY LenProperties
<1>2. Owner(q) \in Sandboxes \union {NoSandbox}
  <2>1. CASE Len(q) = 0  BY <2>1 DEF Owner
  <2>2. CASE Len(q) > 0
    <3>1. Len(q) \in 1..Len(q) /\ q[Len(q)].kind = "callback"
      BY <1>1, <2>2
    <3>2. q[Len(q)].sandbox \in Sandboxes \union {NoSandbox}
      BY <3>1, ElementOfSeq, FrameFields
    <3> QED BY <2>2, <3>1, <3>2 DEF Owner, Dispatching
  <2> QED BY <1>1, <2>1, <2>2
<1> DEFINE f == InvokeFrame(s, Owner(q))
           r == Append(q, f)
<1>3. f \in Frame /\ f.kind = "sandbox" /\ f.sandbox = s /\ f.saved = Owner(q)
  BY <1>2, FrameFacts DEF f
<1>4. /\ r \in Seq(Frame) /\ Len(r) = Len(q) + 1
      /\ \A i \in 1..Len(q) : r[i] = q[i]
      /\ r[Len(q) + 1] = f
  BY <1>3, PushFacts
<1> HIDE DEF f, r
<1>5. WellNested(r)
  BY <1>1, <1>3, <1>4 DEF WellNested, Owner, Dispatching
<1> QED BY <1>1, <1>3, <1>4, <1>5 DEF r, f, Owner, Dispatching

LEMMA PushTrampoline ==
  ASSUME NEW q \in Seq(Frame), WellNested(q), NEW n \in Slots,
         Len(q) > 0, q[Len(q)].kind = "sandbox"
  PROVE  LET r == Append(q, TrampolineFrame(n))
         IN /\ r \in Seq(Frame) /\ WellNested(r) /\ Owner(r) = Owner(q)
            /\ r[Len(r)].kind = "trampoline" /\ r[Len(r)].slot = n
<1>1. Len(q) \in Nat
  BY LenProperties
<1> DEFINE f == TrampolineFrame(n)
           r == Append(q, f)
<1>2. f \in Frame /\ f.kind = "trampoline" /\ f.slot = n
  BY FrameFacts
<1>3. /\ r \in Seq(Frame) /\ Len(r) = Len(q) + 1
      /\ \A i \in 1..Len(q) : r[i] = q[i]
      /\ r[Len(q) + 1] = f
  BY <1>2, PushFacts
<1> HIDE DEF f, r
<1>4. WellNested(r)
  BY <1>1, <1>2, <1>3 DEF WellNested
<1> QED BY <1>1, <1>2, <1>3, <1>4 DEF r, f, Owner, Dispatching

LEMMA PopFrame ==
  ASSUME NEW q \in Seq(Frame), WellNested(q), Len(q) > 0, ~Dispatching(q)
  PROVE  LET r == SubSeq(q, 1, Len(q) - 1)
             f == q[Len(q)]
         IN /\ r \in Seq(Frame) /\ WellNested(r)
            /\ Owner(r) = IF f.kind = "sandbox" THEN f.saved ELSE f.sandbox
            /\ Len(r) > 0 => r[Len(r)].kind = IF f.kind = "sandbox" THEN "callback" ELSE "sandbox"
            /\ f.kind # "sandbox" => Len(r) > 0
<1>1. Len(q) \in Nat /\ q[Len(q)].kind \in Kinds
  <2>1. Len(q) \in 1..Len(q)
    BY LenProperties
  <2> QED BY <2>1, ElementOfSeq, FrameFields
<1> DEFINE r == SubSeq(q, 1, Len(q) - 1)
<1>2. /\ r \in Seq(Frame) /\ Len(r) = Len(q) - 1
      /\ \A i \in 1..(Len(q) - 1) : r[i] = q[i]
  BY PopFacts
<1> HIDE DEF r
<1>3. WellNested(r)
  BY <1>1, <1>2 DEF WellNested
<1>4. q[Len(q)].kind \in {"sandbox", "callback"}
  BY <1>1 DEF Dispatching, Kinds
<1>5. /\ Len(r) > 0 => r[Len(r)].kind = IF q[Len(q)].kind = "sandbox" THEN "callback" ELSE "sandbox"
      /\ q[Len(q)].kind # "sandbox" => Len(r) > 0
  BY <1>1, <1>2, <1>4 DEF WellNested
<1>6. Owner(r) = IF q[Len(q)].kind = "sandbox" THEN q[Len(q)].saved ELSE q[Len(q)].sandbox
  BY <1>1, <1>2, <1>4, <1>5 DEF WellNested, Owner, Dispatching
<1> QED BY <1>2, <1>3, <1>5, <1>6 DEF r

LEMMA PopDispatching ==
  ASSUME NEW q \in Seq(Frame), WellNested(q), Dispatching(q)
  PROVE  LET r == SubSeq(q, 1, Len(q) - 1)
         IN /\ r \in Seq(Frame) /\ WellNested(r) /\ Owner(r) = Owner(q)
            /\ Len(r) > 0 /\ r[Len(r)].kind = "sandbox"
<1>1. Len(q) \in Nat /\ Len(q) > 1
  BY LenProperties DEF Dispatching, WellNested
<1> DEFINE r == SubSeq(q, 1, Len(q) - 1)
<1>2. /\ r \in Seq(Frame) /\ Len(r) = Len(q) - 1
      /\ \A i \in 1..(Len(q) - 1) : r[i] = q[i]
  BY <1>1, PopFacts
<1> HIDE DEF r
<1>3. WellNested(r)
  BY <1>1, <1>2 DEF WellNested
<1>4. Len(r) > 0 /\ r[Len(r)].kind = "sandbox"
  BY <1>1, <1>2 DEF WellNested, Dispatching
<1>5. Owner(r) = Owner(q)
  BY <1>1, <1>2, <1>4 DEF Owner, Dispatching
<1> QED BY <1>2, <1>3, <1>4, <1>5 DEF r

LEMMA ReplaceFrame ==
  ASSUME NEW q \in Seq(Frame), WellNested(q), Dispatching(q),
         NEW f \in Frame, f.slot = q[Len(q)].slot,
         \/ f.kind \in {"trampoline", "interceptor"}
         \/ f.kind = "callback" /\ f.sandbox = Owner(q)
  PROVE  LET r == [q EXCEPT ![Len(q)] = f]
         IN /\ r \in Seq(Frame) /\ WellNested(r) /\ Owner(r) = Owner(q)
            /\ Len(r) = Len(q) /\ r[Len(q)] = f
<1>1. Len(q) \in Nat /\ Len(q) > 1
  BY LenProperties DEF Dispatching, WellNested
<1> DEFINE r == [q EXCEPT ![Len(q)] = f]
<1>2. /\ r \in Seq(Frame) /\ Len(r) = Len(q)
      /\ \A i \in 1..(Len(q) - 1) : r[i] = q[i]
      /\ r[Len(q)] = f
  BY <1>1, ReplaceFacts
<1> HIDE DEF r
<1>3. WellNested(r)
  BY <1>1, <1>2 DEF WellNested, Owner, Dispatching
<1>4. Owner(r) = Owner(q)
  BY <1>1, <1>2 DEF Owner, Dispatching
<1> QED BY <1>2, <1>3, <1>4 DEF r
-----------------------------------------------------------------------------
(***************************************************************************)
(* The inductive invariant: the thread-local variable of the plugin is a   *)
(* function of the call stack.  Its sandbox is the one the thread works    *)
(* for, its last_callback_invoked the trampoline on its way to a bound     *)
(* function, and the hooks have entered just that sandbox.                 *)
(***************************************************************************)
ThreadData ==
  [sandbox : Sandboxes \union {NoSandbox}, last_callback_invoked : Slots \union {0}]

OnSandboxSide(q) == Len(q) > 0 /\ q[Len(q)].kind # "callback"

HooksOf(q, e) ==
  \A s \in Sandboxes : e[s] = IF OnSandboxSide(q) /\ Owner(q) = s THEN 1 ELSE 0

ThreadOK(q, d, e) ==
  /\ WellNested(q)
  /\ d.sandbox = Owner(q)
  /\ Dispatching(q) => /\ d.last_callback_invoked = q[Len(q)].slot
                       /\ callback_unique_keys[Owner(q)][q[Len(q)].slot] # NoKey
  /\ HooksOf(q, e)

DispatchInv ==
  TypeOK /\ \A t \in Threads : ThreadOK(stack[t], thread_data[t], entered[t])

(* A step of one thread has to be checked for that thread only. *)
LEMMA OneThread ==
  ASSUME DispatchInv, NEW t \in Threads,
         NEW q \in Seq(Frame), NEW d \in ThreadData, NEW e \in [Sandboxes -> Int],
         stack' = [stack EXCEPT ![t] = q],
         thread_data' = [thread_data EXCEPT ![t] = d],
         entered' = [entered EXCEPT ![t] = e],
         unwinding' \in [Threads -> BOOLEAN],
         UNCHANGED callback_unique_keys,
         ThreadOK(q, d, e)
  PROVE  DispatchInv'
<1>1. TypeOK'
  BY DEF DispatchInv, TypeOK, ThreadData
<1>2. ASSUME NEW u \in Threads PROVE ThreadOK(stack[u], thread_data[u], entered[u])'
  <2>1. CASE u = t
    <3>1. stack'[u] = q /\ thread_data'[u] = d /\ entered'[u] = e
      BY <2>1 DEF DispatchInv, TypeOK
    <3> QED BY <3>1 DEF ThreadOK, HooksOf
  <2>2. CASE u # t
    <3>1. stack'[u] = stack[u] /\ thread_data'[u] = thread_data[u] /\ entered'[u] = entered[u]
      BY <2>2 DEF DispatchInv, TypeOK
    <3> QED BY <3>1 DEF DispatchInv, ThreadOK, HooksOf
  <2> QED BY <2>1, <2>2
<1> QED BY <1>1, <1>2 DEF DispatchInv

(* What the invariant says of one thread's values. *)
LEMMA Values ==
  ASSUME DispatchInv, NEW t \in Threads
  PROVE  /\ stack[t] \in Seq(Frame) /\ Depth(t) = Len(stack[t]) /\ Depth(t) \in Nat
         /\ thread_data[t] \in ThreadData /\ entered[t] \in [Sandboxes -> Int]
         /\ ThreadOK(stack[t], thread_data[t], entered[t])
         /\ Depth(t) > 0 => Running(t) \in Frame /\ Running(t) = stack[t][Len(stack[t])]
  <1>1. stack[t] \in Seq(Frame) /\ Depth(t) = Len(stack[t]) /\ Depth(t) \in Nat
    BY LenProperties DEF DispatchInv, TypeOK, Depth
  <1>2. /\ thread_data[t] \in ThreadData /\ entered[t] \in [Sandboxes -> Int]
        /\ ThreadOK(stack[t], thread_data[t], entered[t])
    BY DEF DispatchInv, TypeOK, ThreadData
  <1>3. Depth(t) > 0 => Running(t) \in Frame /\ Running(t) = stack[t][Len(stack[t])]
    <2>1. Depth(t) > 0 => Depth(t) \in 1..Len(stack[t])
      BY <1>1
    <2> QED BY <1>1, <2>1, ElementOfSeq DEF Running
  <1> QED BY <1>1, <1>2, <1>3

(* The assignments to thread_data, one field at a time. *)
LEMMA DataFacts ==
  ASSUME NEW d \in ThreadData
  PROVE  /\ \A s \in Sandboxes \union {NoSandbox} :
              LET c == [d EXCEPT !.sandbox = s]
              IN /\ c \in ThreadData /\ c.sandbox = s
                 /\ c.last_callback_invoked = d.last_callback_invoked
         /\ \A n \in Slots :
              LET c == [d EXCEPT !.last_callback_invoked = n]
              IN c \in ThreadData /\ c.sandbox = d.sandbox /\ c.last_callback_invoked = n
         /\ d.sandbox \in Sandboxes \union {NoSandbox}
         /\ d.last_callback_invoked \in Slots \union {0}
  BY DEF ThreadData
LEMMA InvokeStep ==
  ASSUME DispatchInv, NEW t \in Threads, NEW s \in Sandboxes, Invoke(t, s)
  PROVE  DispatchInv'
<1> DEFINE old == thread_data[t].sandbox
           q == Append(stack[t], InvokeFrame(s, old))
           d == [thread_data[t] EXCEPT !.sandbox = s]
           e == [entered[t] EXCEPT ![s] = @ + 1]
<1>1. /\ stack' = [stack EXCEPT ![t] = q]
      /\ thread_data' = [thread_data EXCEPT ![t] = d]
      /\ entered' = [entered EXCEPT ![t] = e]
      /\ UNCHANGED <<callback_unique_keys, unwinding>>
  BY DEF Invoke, Push, HookIn
<1>2. /\ stack[t] \in Seq(Frame) /\ WellNested(stack[t]) /\ old = Owner(stack[t])
      /\ Len(stack[t]) > 0 => stack[t][Len(stack[t])].kind = "callback"
      /\ Len(stack[t]) \in Nat
  BY Values DEF Invoke, InApplication, In, ThreadOK
<1>3. q \in Seq(Frame) /\ WellNested(q) /\ Owner(q) = s /\ q[Len(q)].kind = "sandbox" /\ Len(q) > 0
  <2>1. q \in Seq(Frame) /\ WellNested(q) /\ Owner(q) = s /\ q[Len(q)].kind = "sandbox"
    BY <1>2, PushInvoke
  <2>2. q # <<>>
    BY <1>2, AppendProperties, FrameFacts, Values, DataFacts
  <2> QED BY <2>1, <2>2, EmptySeq
<1>4. d \in ThreadData /\ d.sandbox = s
  BY Values, DataFacts
<1>5. e \in [Sandboxes -> Int] /\ HooksOf(q, e)
  <2> HIDE DEF q
  <2>1. \A r \in Sandboxes : entered[t][r] = 0
    BY <1>2, Values DEF ThreadOK, HooksOf, OnSandboxSide
  <2>2. entered[t] \in [Sandboxes -> Int]
    BY Values
  <2> QED BY <1>3, <2>1, <2>2 DEF HooksOf, OnSandboxSide
<1>6. unwinding' \in [Threads -> BOOLEAN]
  BY <1>1 DEF DispatchInv, TypeOK
<1> HIDE DEF q, d, e
<1>7. ThreadOK(q, d, e)
  BY <1>3, <1>4, <1>5 DEF ThreadOK, Dispatching
<1> QED BY <1>1, <1>3, <1>4, <1>5, <1>6, <1>7, OneThread

LEMMA CallTrampolineStep ==
  ASSUME DispatchInv, NEW t \in Threads, NEW n \in Slots, CallTrampoline(t, n)
  PROVE  DispatchInv'
<1> DEFINE q == Append(stack[t], TrampolineFrame(n))
           d == [thread_data[t] EXCEPT !.last_callback_invoked = n]
           e == entered[t]
<1>1. /\ stack' = [stack EXCEPT ![t] = q]
      /\ thread_data' = [thread_data EXCEPT ![t] = d]
      /\ UNCHANGED <<callback_unique_keys, unwinding, entered>>
  BY DEF CallTrampoline, Push
<1>2. /\ stack[t] \in Seq(Frame) /\ WellNested(stack[t]) /\ Len(stack[t]) > 0
      /\ stack[t][Len(stack[t])].kind = "sandbox"
      /\ callback_unique_keys[stack[t][Len(stack[t])].sandbox][n] # NoKey
  BY Values DEF CallTrampoline, In, ThreadOK
<1>3. /\ q \in Seq(Frame) /\ WellNested(q) /\ Owner(q) = Owner(stack[t])
      /\ q[Len(q)].kind = "trampoline" /\ q[Len(q)].slot = n /\ Len(q) > 0
  <2>1. /\ q \in Seq(Frame) /\ WellNested(q) /\ Owner(q) = Owner(stack[t])
        /\ q[Len(q)].kind = "trampoline" /\ q[Len(q)].slot = n
    BY <1>2, PushTrampoline
  <2>2. q # <<>>
    BY <1>2, AppendProperties, FrameFacts
  <2> QED BY <2>1, <2>2, EmptySeq
<1>4. Owner(stack[t]) = stack[t][Len(stack[t])].sandbox
  BY <1>2, Values DEF Owner, Dispatching
<1>5. d \in ThreadData /\ d.sandbox = Owner(stack[t]) /\ d.last_callback_invoked = n
  BY Values, DataFacts DEF ThreadOK
<1>6. e \in [Sandboxes -> Int] /\ HooksOf(q, e)
  <2> HIDE DEF q
  <2> QED BY <1>2, <1>3, Values DEF ThreadOK, HooksOf, OnSandboxSide
<1>7. unwinding' \in [Threads -> BOOLEAN]
  BY <1>1 DEF DispatchInv, TypeOK
<1>8. entered' = [entered EXCEPT ![t] = e]
  BY <1>1 DEF DispatchInv, TypeOK
<1> HIDE DEF q, d, e
<1>9. ThreadOK(q, d, e)
  BY <1>2, <1>3, <1>4, <1>5, <1>6 DEF ThreadOK
<1> QED BY <1>1, <1>3, <1>5, <1>6, <1>7, <1>8, <1>9, OneThread
LEMMA EnterInterceptorStep ==
  ASSUME DispatchInv, NEW t \in Threads, EnterInterceptor(t)
  PROVE  DispatchInv'
<1> DEFINE f == InterceptorFrame(Running(t))
           q == [stack[t] EXCEPT ![Len(stack[t])] = f]
           d == thread_data[t]
           e == entered[t]
<1>1. /\ Running(t) \in Frame /\ Running(t) = stack[t][Len(stack[t])]
      /\ Dispatching(stack[t]) /\ stack[t] \in Seq(Frame) /\ WellNested(stack[t])
      /\ Depth(t) = Len(stack[t])
  BY Values DEF EnterInterceptor, In, Dispatching, ThreadOK
<1>2. stack' = [stack EXCEPT ![t] = q] /\ UNCHANGED <<callback_unique_keys, thread_data, unwinding, entered>>
  BY <1>1 DEF EnterInterceptor, Replace, DispatchInv, TypeOK
<1>3. f \in Frame /\ f.kind = "interceptor" /\ f.slot = Running(t).slot
  BY <1>1, FrameFacts
<1>4. /\ q \in Seq(Frame) /\ WellNested(q) /\ Owner(q) = Owner(stack[t])
      /\ Len(q) = Len(stack[t]) /\ q[Len(stack[t])] = f
  <2> HIDE DEF f
  <2> QED BY <1>1, <1>3, ReplaceFrame
<1>5. thread_data' = [thread_data EXCEPT ![t] = d] /\ entered' = [entered EXCEPT ![t] = e]
      /\ unwinding' \in [Threads -> BOOLEAN]
  BY <1>2 DEF DispatchInv, TypeOK
<1>6. d \in ThreadData /\ e \in [Sandboxes -> Int] /\ ThreadOK(stack[t], d, e)
  BY Values
<1> HIDE DEF f, q, d, e
<1>7. HooksOf(q, e)
  BY <1>1, <1>3, <1>4, <1>6 DEF ThreadOK, HooksOf, OnSandboxSide, Dispatching
<1>8. ThreadOK(q, d, e)
  BY <1>1, <1>3, <1>4, <1>6, <1>7 DEF ThreadOK, Dispatching
<1> QED BY <1>2, <1>4, <1>5, <1>6, <1>8, OneThread

(* An interceptor reads the function its own trampoline is bound to. *)
LEMMA StartCallbackReads ==
  ASSUME DispatchInv, NEW t \in Threads, StartCallback(t)
  PROVE  LET s == Owner(stack[t])
             f == callback_unique_keys[s][Running(t).slot]
         IN /\ s \in Sandboxes /\ f \in Functions /\ s = Caller(t).sandbox
            /\ stack' = [stack EXCEPT ![t] = [stack[t] EXCEPT
                           ![Len(stack[t])] = CallbackFrame(Running(t), s, f)]]
            /\ entered' = [entered EXCEPT ![t] = [entered[t] EXCEPT ![s] = @ - 1]]
            /\ Running(t) \in Frame /\ Running(t) = stack[t][Len(stack[t])]
            /\ Dispatching(stack[t]) /\ Depth(t) = Len(stack[t])
<1> DEFINE s == Owner(stack[t])
           n == Running(t).slot
           f == callback_unique_keys[s][n]
<1>1. /\ Running(t) \in Frame /\ Running(t) = stack[t][Len(stack[t])]
      /\ Dispatching(stack[t]) /\ stack[t] \in Seq(Frame) /\ WellNested(stack[t])
      /\ Depth(t) = Len(stack[t]) /\ Depth(t) \in Nat /\ Depth(t) > 0
  BY Values DEF StartCallback, In, Dispatching, ThreadOK
<1>2. thread_data[t].sandbox = s /\ thread_data[t].last_callback_invoked = n /\ f # NoKey
  BY <1>1, Values DEF ThreadOK
<1>3. Depth(t) > 1 /\ s = Caller(t).sandbox /\ s \in Sandboxes /\ n \in Slots
  BY <1>1 DEF Owner, Dispatching, WellNested, Caller
<1>4. f \in Functions
  BY <1>2, <1>3 DEF DispatchInv, TypeOK
<1>5. /\ stack' = [stack EXCEPT ![t] = [stack[t] EXCEPT
                    ![Len(stack[t])] = CallbackFrame(Running(t), s, f)]]
      /\ entered' = [entered EXCEPT ![t] = [entered[t] EXCEPT ![s] = @ - 1]]
  BY <1>1, <1>2 DEF StartCallback, HookOut, Replace, DispatchInv, TypeOK
<1> HIDE DEF f, s, n
<1> QED BY <1>1, <1>3, <1>4, <1>5 DEF f, s, n

LEMMA StartCallbackStep ==
  ASSUME DispatchInv, NEW t \in Threads, StartCallback(t)
  PROVE  DispatchInv'
<1> DEFINE s == Owner(stack[t])
           k == callback_unique_keys[s][Running(t).slot]
           f == CallbackFrame(Running(t), s, k)
           q == [stack[t] EXCEPT ![Len(stack[t])] = f]
           d == thread_data[t]
           e == [entered[t] EXCEPT ![s] = @ - 1]
<1>1. /\ s \in Sandboxes /\ k \in Functions
      /\ stack' = [stack EXCEPT ![t] = q] /\ entered' = [entered EXCEPT ![t] = e]
      /\ Running(t) \in Frame /\ Running(t) = stack[t][Len(stack[t])]
      /\ Dispatching(stack[t])
  BY StartCallbackReads
<1>2. UNCHANGED <<callback_unique_keys, thread_data, unwinding>>
  BY DEF StartCallback
<1>3. f \in Frame /\ f.kind = "callback" /\ f.slot = Running(t).slot /\ f.sandbox = s
  <2> HIDE DEF s, k
  <2> QED BY <1>1, FrameFacts
<1>4. /\ stack[t] \in Seq(Frame) /\ d \in ThreadData /\ entered[t] \in [Sandboxes -> Int]
      /\ ThreadOK(stack[t], d, entered[t])
  BY Values
<1>5. /\ q \in Seq(Frame) /\ WellNested(q) /\ Owner(q) = s
      /\ Len(q) = Len(stack[t]) /\ q[Len(stack[t])] = f
  <2> HIDE DEF f
  <2> QED BY <1>1, <1>3, <1>4, ReplaceFrame DEF ThreadOK
<1>6. thread_data' = [thread_data EXCEPT ![t] = d] /\ unwinding' \in [Threads -> BOOLEAN]
  BY <1>2 DEF DispatchInv, TypeOK
<1>7. e \in [Sandboxes -> Int] /\ HooksOf(q, e)
  <2>1. \A r \in Sandboxes : entered[t][r] = IF s = r THEN 1 ELSE 0
    BY <1>1, <1>4 DEF ThreadOK, HooksOf, OnSandboxSide, Dispatching
  <2> HIDE DEF f, q, s, d
  <2> QED BY <1>1, <1>3, <1>4, <1>5, <2>1 DEF HooksOf, OnSandboxSide
<1>8. d.sandbox = s
  BY <1>4 DEF ThreadOK
<1> HIDE DEF f, q, d, e, s
<1>9. ThreadOK(q, d, e)
  BY <1>3, <1>5, <1>7, <1>8 DEF ThreadOK, Dispatching
<1> QED BY <1>1, <1>2, <1>4, <1>5, <1>6, <1>7, <1>9, OneThread
(* What running a transition hook does to the counts. *)
LEMMA HookFacts ==
  ASSUME NEW e \in [Sandboxes -> Int], NEW x
  PROVE  /\ [e EXCEPT ![x] = @ + 1] \in [Sandboxes -> Int]
         /\ [e EXCEPT ![x] = @ - 1] \in [Sandboxes -> Int]
         /\ \A r \in Sandboxes :
              /\ [e EXCEPT ![x] = @ + 1][r] = IF x = r THEN e[r] + 1 ELSE e[r]
              /\ [e EXCEPT ![x] = @ - 1][r] = IF x = r THEN e[r] - 1 ELSE e[r]
<1>1. CASE x \in Sandboxes
  <2>1. e[x] \in Int /\ e[x] + 1 \in Int /\ e[x] - 1 \in Int
    BY <1>1
  <2> QED BY <1>1, <2>1
<1>2. CASE x \notin Sandboxes
  <2>1. /\ [e EXCEPT ![x] = @ + 1] = e
        /\ [e EXCEPT ![x] = @ - 1] = e
    BY <1>2
  <2> QED BY <1>2, <2>1
<1> QED BY <1>1, <1>2

LEMMA InvokeEndsStep ==
  ASSUME DispatchInv, NEW t \in Threads, InvokeEnds(t)
  PROVE  DispatchInv'
<1> DEFINE f == Running(t)
           q == SubSeq(stack[t], 1, Len(stack[t]) - 1)
           d == [thread_data[t] EXCEPT !.sandbox = f.saved]
           e == [entered[t] EXCEPT ![f.sandbox] = @ - 1]
<1>1. /\ stack' = [stack EXCEPT ![t] = q]
      /\ thread_data' = [thread_data EXCEPT ![t] = d]
      /\ entered' = [entered EXCEPT ![t] = e]
      /\ unwinding' = [unwinding EXCEPT ![t] = FALSE]
      /\ UNCHANGED callback_unique_keys
  BY DEF InvokeEnds, Pop, HookOut
<1>2. /\ f \in Frame /\ f = stack[t][Len(stack[t])] /\ f.kind = "sandbox"
      /\ stack[t] \in Seq(Frame) /\ Len(stack[t]) \in Nat /\ Len(stack[t]) > 0
      /\ ThreadOK(stack[t], thread_data[t], entered[t])
      /\ thread_data[t] \in ThreadData /\ entered[t] \in [Sandboxes -> Int]
  BY Values DEF InvokeEnds, In
<1>3. ~Dispatching(stack[t]) /\ WellNested(stack[t])
  BY <1>2 DEF Dispatching, ThreadOK
<1>4. /\ q \in Seq(Frame) /\ WellNested(q) /\ Owner(q) = f.saved
      /\ Len(q) > 0 => q[Len(q)].kind = "callback"
  <2> HIDE DEF q, f
  <2> QED BY <1>2, <1>3, PopFrame DEF q
<1>5. d \in ThreadData /\ d.sandbox = f.saved
  BY <1>2, DataFacts, FrameFields
<1>6. e \in [Sandboxes -> Int] /\ HooksOf(q, e)
  <2> HIDE DEF q, f
  <2>1. \A r \in Sandboxes : entered[t][r] = IF f.sandbox = r THEN 1 ELSE 0
    BY <1>2, <1>3 DEF ThreadOK, HooksOf, OnSandboxSide, Owner
  <2>2. ~OnSandboxSide(q)
    BY <1>4 DEF OnSandboxSide
  <2>3. /\ e \in [Sandboxes -> Int]
        /\ \A r \in Sandboxes : e[r] = IF f.sandbox = r THEN entered[t][r] - 1 ELSE entered[t][r]
    BY <1>2, HookFacts
  <2>4. \A r \in Sandboxes : e[r] = 0
    <3> HIDE DEF e
    <3> QED BY <2>1, <2>3
  <2> HIDE DEF e
  <2> QED BY <2>2, <2>3, <2>4 DEF HooksOf
<1>7. unwinding' \in [Threads -> BOOLEAN]
  BY <1>1 DEF DispatchInv, TypeOK
<1> HIDE DEF f, q, d, e
<1>8. ThreadOK(q, d, e)
  BY <1>4, <1>5, <1>6 DEF ThreadOK, Dispatching
<1> QED BY <1>1, <1>4, <1>5, <1>6, <1>7, <1>8, OneThread

LEMMA CallbackEndsStep ==
  ASSUME DispatchInv, NEW t \in Threads, CallbackReturns(t) \/ CallbackThrows(t)
  PROVE  DispatchInv'
<1> DEFINE f == Running(t)
           q == SubSeq(stack[t], 1, Len(stack[t]) - 1)
           d == thread_data[t]
           e == [entered[t] EXCEPT ![f.sandbox] = @ + 1]
<1>1. /\ stack' = [stack EXCEPT ![t] = q]
      /\ entered' = [entered EXCEPT ![t] = e]
      /\ UNCHANGED <<callback_unique_keys, thread_data>>
  BY DEF CallbackReturns, CallbackThrows, Pop, HookIn
<1>2. /\ f \in Frame /\ f = stack[t][Len(stack[t])] /\ f.kind = "callback"
      /\ stack[t] \in Seq(Frame) /\ Len(stack[t]) \in Nat /\ Len(stack[t]) > 0
      /\ ThreadOK(stack[t], d, entered[t])
      /\ d \in ThreadData /\ entered[t] \in [Sandboxes -> Int]
  BY Values DEF CallbackReturns, CallbackThrows, In
<1>3. ~Dispatching(stack[t]) /\ WellNested(stack[t])
  BY <1>2 DEF Dispatching, ThreadOK
<1>4. /\ q \in Seq(Frame) /\ WellNested(q) /\ Owner(q) = f.sandbox
      /\ Len(q) > 0 /\ q[Len(q)].kind = "sandbox"
  <2> HIDE DEF q, f
  <2> QED BY <1>2, <1>3, PopFrame DEF q
<1>5. d.sandbox = Owner(q)
  <2> HIDE DEF q, f
  <2>1. Owner(stack[t]) = f.sandbox
    BY <1>2, <1>3 DEF Owner
  <2> QED BY <1>2, <1>4, <2>1 DEF ThreadOK
<1>6. e \in [Sandboxes -> Int] /\ HooksOf(q, e)
  <2> HIDE DEF q, f
  <2>1. \A r \in Sandboxes : entered[t][r] = 0
    BY <1>2 DEF ThreadOK, HooksOf, OnSandboxSide
  <2>2. OnSandboxSide(q)
    BY <1>4 DEF OnSandboxSide
  <2>3. /\ e \in [Sandboxes -> Int]
        /\ \A r \in Sandboxes : e[r] = IF f.sandbox = r THEN entered[t][r] + 1 ELSE entered[t][r]
    BY <1>2, HookFacts
  <2>4. \A r \in Sandboxes : e[r] = IF f.sandbox = r THEN 1 ELSE 0
    <3> HIDE DEF e
    <3> QED BY <2>1, <2>3
  <2> HIDE DEF e
  <2> QED BY <1>4, <2>2, <2>3, <2>4 DEF HooksOf
<1>7. unwinding' \in [Threads -> BOOLEAN] /\ thread_data' = [thread_data EXCEPT ![t] = d]
  BY <1>1 DEF DispatchInv, TypeOK, CallbackReturns, CallbackThrows
<1> HIDE DEF f, q, d, e
<1>8. ThreadOK(q, d, e)
  BY <1>4, <1>5, <1>6 DEF ThreadOK, Dispatching
<1> QED BY <1>1, <1>2, <1>4, <1>6, <1>7, <1>8, OneThread

LEMMA CallbackParamFailsStep ==
  ASSUME DispatchInv, NEW t \in Threads, CallbackParamFails(t)
  PROVE  DispatchInv'
<1> DEFINE q == SubSeq(stack[t], 1, Len(stack[t]) - 1)
           d == thread_data[t]
           e == entered[t]
<1>1. /\ stack' = [stack EXCEPT ![t] = q]
      /\ unwinding' = [unwinding EXCEPT ![t] = TRUE]
      /\ UNCHANGED <<callback_unique_keys, thread_data, entered>>
  BY DEF CallbackParamFails, Pop
<1>2. /\ stack[t] \in Seq(Frame) /\ Dispatching(stack[t]) /\ WellNested(stack[t])
      /\ ThreadOK(stack[t], d, e)
      /\ d \in ThreadData /\ e \in [Sandboxes -> Int]
  BY Values DEF CallbackParamFails, In, Dispatching, ThreadOK
<1>3. /\ q \in Seq(Frame) /\ WellNested(q) /\ Owner(q) = Owner(stack[t])
      /\ Len(q) > 0 /\ q[Len(q)].kind = "sandbox"
  BY <1>2, PopDispatching
<1>4. /\ thread_data' = [thread_data EXCEPT ![t] = d]
      /\ entered' = [entered EXCEPT ![t] = e]
      /\ unwinding' \in [Threads -> BOOLEAN]
  BY <1>1 DEF DispatchInv, TypeOK
<1> HIDE DEF q, d, e
<1>5. HooksOf(q, e)
  BY <1>2, <1>3 DEF ThreadOK, HooksOf, OnSandboxSide, Dispatching
<1>6. ThreadOK(q, d, e)
  BY <1>2, <1>3, <1>5 DEF ThreadOK, Dispatching
<1> QED BY <1>1, <1>2, <1>3, <1>4, <1>6, OneThread

(* The tables change only where no call is on its way. *)
LEMMA TableStep ==
  ASSUME DispatchInv,
         UNCHANGED <<thread_data, stack, unwinding, entered>>,
         NEW s \in Sandboxes, NEW n \in Slots, NEW k \in Functions \union {NoKey},
         callback_unique_keys' = [callback_unique_keys EXCEPT ![s][n] = k],
         k = NoKey => \A u \in Threads : ~InFlight(u, s, n)
  PROVE  DispatchInv'
<1>1. TypeOK'
  BY DEF DispatchInv, TypeOK
<1>2. ASSUME NEW u \in Threads PROVE ThreadOK(stack[u], thread_data[u], entered[u])'
  <2> DEFINE q == stack[u]
  <2>1. ThreadOK(q, thread_data[u], entered[u]) /\ Len(q) \in Nat /\ Depth(u) = Len(q)
    BY Values
  <2>2. ASSUME Dispatching(q)
        PROVE  callback_unique_keys'[Owner(q)][q[Len(q)].slot] # NoKey
    <3>1. /\ callback_unique_keys[Owner(q)][q[Len(q)].slot] # NoKey
          /\ Owner(q) \in Sandboxes /\ q[Len(q)].slot \in Slots
      BY <2>1, <2>2 DEF ThreadOK, WellNested, Owner, Dispatching
    <3>2. Owner(q) = s /\ q[Len(q)].slot = n => InFlight(u, s, n)
      BY <2>1, <2>2 DEF InFlight, In, Running, Caller, Owner, Dispatching
    <3> HIDE DEF q
    <3>3. CASE Owner(q) = s /\ q[Len(q)].slot = n
      BY <3>1, <3>2, <3>3 DEF DispatchInv, TypeOK
    <3>4. CASE ~(Owner(q) = s /\ q[Len(q)].slot = n)
      BY <3>1, <3>4 DEF DispatchInv, TypeOK
    <3> QED BY <3>3, <3>4
  <2>3. stack'[u] = q /\ thread_data'[u] = thread_data[u] /\ entered'[u] = entered[u]
    OBVIOUS
  <2> HIDE DEF q
  <2> QED BY <2>1, <2>2, <2>3 DEF ThreadOK, HooksOf
<1> QED BY <1>1, <1>2 DEF DispatchInv
LEMMA DispatchInit == Init => DispatchInv
<1> SUFFICES ASSUME Init PROVE DispatchInv
  OBVIOUS
<1>1. TypeOK
  BY EmptySeq DEF Init, TypeOK
<1>2. ASSUME NEW t \in Threads PROVE ThreadOK(stack[t], thread_data[t], entered[t])
  <2>1. /\ stack[t] = <<>> /\ Len(stack[t]) = 0
        /\ thread_data[t].sandbox = NoSandbox
        /\ \A s \in Sandboxes : entered[t][s] = 0
    BY EmptySeq DEF Init
  <2>2. ~Dispatching(stack[t]) /\ ~OnSandboxSide(stack[t]) /\ Owner(stack[t]) = NoSandbox
    BY <2>1 DEF Dispatching, OnSandboxSide, Owner
  <2>3. WellNested(stack[t])
    BY <2>1 DEF WellNested
  <2> QED BY <2>1, <2>2, <2>3 DEF ThreadOK, HooksOf
<1> QED BY <1>1, <1>2 DEF DispatchInv

LEMMA DispatchStep == DispatchInv /\ [Next]_vars => DispatchInv'
<1> SUFFICES ASSUME DispatchInv, [Next]_vars PROVE DispatchInv'
  OBVIOUS
<1>1. ASSUME NEW t \in Threads, NEW s \in Sandboxes, Invoke(t, s) PROVE DispatchInv'
  BY <1>1, InvokeStep
<1>2. ASSUME NEW t \in Threads, NEW s \in Sandboxes, NEW f \in Functions, Register(t, s, f)
      PROVE  DispatchInv'
  <2>1. PICK n \in Slots :
          callback_unique_keys' = [callback_unique_keys EXCEPT ![s][n] = f]
    BY <1>2 DEF Register
  <2>2. UNCHANGED <<thread_data, stack, unwinding, entered>> /\ f # NoKey
    BY <1>2 DEF Register
  <2> QED BY <2>1, <2>2, TableStep
<1>3. ASSUME NEW t \in Threads, NEW s \in Sandboxes, NEW n \in Slots, Unregister(t, s, n)
      PROVE  DispatchInv'
  <2>1. /\ callback_unique_keys' = [callback_unique_keys EXCEPT ![s][n] = NoKey]
        /\ UNCHANGED <<thread_data, stack, unwinding, entered>>
        /\ \A u \in Threads : ~InFlight(u, s, n)
    BY <1>3 DEF Unregister
  <2> QED BY <2>1, TableStep
<1>4. ASSUME NEW t \in Threads, NEW n \in Slots, CallTrampoline(t, n) PROVE DispatchInv'
  BY <1>4, CallTrampolineStep
<1>5. ASSUME NEW t \in Threads, EnterInterceptor(t) PROVE DispatchInv'
  BY <1>5, EnterInterceptorStep
<1>6. ASSUME NEW t \in Threads, StartCallback(t) PROVE DispatchInv'
  BY <1>6, StartCallbackStep
<1>7. ASSUME NEW t \in Threads, CallbackReturns(t) \/ CallbackThrows(t) PROVE DispatchInv'
  BY <1>7, CallbackEndsStep
<1>8. ASSUME NEW t \in Threads, InvokeEnds(t) PROVE DispatchInv'
  BY <1>8, InvokeEndsStep
<1>9. ASSUME NEW t \in Threads, CallbackParamFails(t) PROVE DispatchInv'
  BY <1>9, CallbackParamFailsStep
<1>10. CASE UNCHANGED vars
  <2>1. TypeOK'
    BY <1>10 DEF DispatchInv, TypeOK, vars
  <2>2. ASSUME NEW t \in Threads PROVE ThreadOK(stack[t], thread_data[t], entered[t])'
    BY <1>10 DEF DispatchInv, ThreadOK, HooksOf, vars
  <2> QED BY <2>1, <2>2 DEF DispatchInv
<1> QED BY <1>1, <1>2, <1>3, <1>4, <1>5, <1>6, <1>7, <1>8, <1>9, <1>10 DEF Next

LEMMA DispatchInvariant == Spec => []DispatchInv
BY DispatchInit, DispatchStep, PTL DEF Spec

-----------------------------------------------------------------------------
(* Type correctness of the tables, the thread-local data and the stacks. *)
THEOREM TypeCorrect == Spec => []TypeOK
<1>1. DispatchInv => TypeOK
  BY DEF DispatchInv
<1> QED BY <1>1, DispatchInvariant, PTL

(* Every callback gets the sandbox that called it, at any depth. *)
THEOREM SandboxIsRight == Spec => []RightSandbox
<1>1. ASSUME DispatchInv PROVE RightSandbox
  <2> SUFFICES ASSUME NEW t \in Threads, NEW i \in 2..Depth(t), stack[t][i].kind = "callback"
               PROVE  stack[t][i].sandbox = stack[t][i - 1].sandbox
    BY DEF RightSandbox
  <2>1. WellNested(stack[t]) /\ Depth(t) = Len(stack[t]) /\ Depth(t) \in Nat
    BY <1>1, Values DEF ThreadOK
  <2>2. i \in 1..Len(stack[t]) /\ i > 1
    BY <2>1
  <2> QED BY <2>1, <2>2 DEF WellNested
<1> QED BY <1>1, DispatchInvariant, PTL

(* Every callback that starts is the function bound to the trampoline that   *)
(* the library called.                                                       *)
THEOREM FunctionIsRight == Spec => RightFunction
<1>1. ASSUME DispatchInv, [Next]_vars
      PROVE  [\A t \in Threads :
                StartCallback(t) =>
                  /\ stack'[t][Depth(t)].key = callback_unique_keys[Caller(t).sandbox][Running(t).slot]
                  /\ stack'[t][Depth(t)].key # NoKey]_vars
  <2> SUFFICES ASSUME NEW t \in Threads, StartCallback(t)
               PROVE  /\ stack'[t][Depth(t)].key = callback_unique_keys[Caller(t).sandbox][Running(t).slot]
                      /\ stack'[t][Depth(t)].key # NoKey
    OBVIOUS
  <2> DEFINE s == Caller(t).sandbox
             f == callback_unique_keys[s][Running(t).slot]
             g == CallbackFrame(Running(t), s, f)
  <2>1. /\ s \in Sandboxes /\ f \in Functions
        /\ stack' = [stack EXCEPT ![t] = [stack[t] EXCEPT ![Len(stack[t])] = g]]
        /\ Running(t) \in Frame /\ Depth(t) = Len(stack[t]) /\ Len(stack[t]) > 0
    BY <1>1, StartCallbackReads DEF Dispatching
  <2>2. g \in Frame /\ g.key = f
    <3> HIDE DEF s, f
    <3> QED BY <2>1, FrameFacts
  <2>3. stack[t] \in Seq(Frame) /\ stack \in [Threads -> Seq(Frame)]
    BY <1>1 DEF DispatchInv, TypeOK
  <2>4. stack'[t][Depth(t)] = g
    <3> HIDE DEF g
    <3>1. [stack[t] EXCEPT ![Len(stack[t])] = g][Len(stack[t])] = g
      BY <2>1, <2>2, <2>3, ReplaceFacts
    <3> QED BY <2>1, <2>3, <3>1
  <2> QED BY <2>1, <2>2, <2>4
<1> QED BY <1>1, DispatchInvariant, PTL DEF Spec, RightFunction

(* Which side of the boundary a stack puts a thread on. *)
LEMMA WhereStackIs ==
  ASSUME DispatchInv, NEW t \in Threads, NEW s \in Sandboxes
  PROVE  (InCode(t, s) \/ \E n \in Slots : InFlight(t, s, n))
           <=> OnSandboxSide(stack[t]) /\ Owner(stack[t]) = s
<1> DEFINE q == stack[t]
<1>1. /\ ThreadOK(q, thread_data[t], entered[t]) /\ Depth(t) = Len(q) /\ Len(q) \in Nat
      /\ Len(q) > 0 => Running(t) \in Frame /\ Running(t) = q[Len(q)]
  BY Values
<1>2. CASE Len(q) = 0
  BY <1>1, <1>2 DEF OnSandboxSide, InCode, InFlight, In
<1>3. CASE Len(q) > 0 /\ Dispatching(q)
  <2>1. Running(t).slot \in Slots /\ Caller(t).sandbox = Owner(q)
    BY <1>1, <1>3 DEF ThreadOK, WellNested, Dispatching, Owner, Caller
  <2> QED BY <1>1, <1>3, <2>1 DEF OnSandboxSide, Dispatching, InCode, InFlight, In
<1>4. CASE Len(q) > 0 /\ ~Dispatching(q)
  <2>1. Running(t).kind \in {"sandbox", "callback"} /\ Owner(q) = Running(t).sandbox
    BY <1>1, <1>4, FrameFields DEF Dispatching, Kinds, Owner
  <2> QED BY <1>1, <1>4, <2>1 DEF OnSandboxSide, InCode, InFlight, In
<1> HIDE DEF q
<1>5. Len(q) = 0 \/ Len(q) > 0
  BY <1>1
<1> QED BY <1>2, <1>3, <1>4, <1>5 DEF q

(* The transition hooks always say which side of the boundary a thread is on. *)
THEOREM HooksAreRight == Spec => []HooksMatchStack
<1>1. ASSUME DispatchInv PROVE HooksMatchStack
  <2> SUFFICES ASSUME NEW t \in Threads, NEW s \in Sandboxes
               PROVE  entered[t][s] =
                        IF InCode(t, s) \/ \E n \in Slots : InFlight(t, s, n) THEN 1 ELSE 0
    BY DEF HooksMatchStack
  <2>1. entered[t][s] = IF OnSandboxSide(stack[t]) /\ Owner(stack[t]) = s THEN 1 ELSE 0
    BY <1>1, Values DEF ThreadOK, HooksOf
  <2> QED BY <1>1, <2>1, WhereStackIs
<1> QED BY <1>1, DispatchInvariant, PTL
=============================================================================
