---------------------- MODULE TransitionTimes_proofs ----------------------
(***************************************************************************)
(* Proofs about TransitionTimes for any number of threads and sandboxes,   *)
(* nesting of any depth, vectors of any length and a clock without bound.  *)
(***************************************************************************)
EXTENDS TransitionTimes, CallbackDispatch_proofs, WellFoundedInduction, FiniteSetTheorems,
        FunctionTheorems

(* Timing a call changes nothing of it: the timed system makes the steps of  *)
(* CallbackDispatch, so what is proved of that holds of it too.              *)
THEOREM TimingKeepsCalls == TimesSpec => Spec
<1>1. TimesInit => Init
  BY DEF TimesInit
<1>2. [TimesNext]_allVars => [Next]_vars
  <2> SUFFICES ASSUME [TimesNext]_allVars PROVE [Next]_vars
    OBVIOUS
  <2>1. CASE UNCHANGED allVars
    BY <2>1 DEF allVars
  <2>2. CASE Tick
    BY <2>2 DEF Tick
  <2>3. ASSUME NEW t \in Threads, ReadSize(t) \/ WriteRecord(t) PROVE [Next]_vars
    BY <2>3 DEF ReadSize, WriteRecord
  <2>4. ASSUME NEW t \in Threads, TimedCallback(t) \/ TimedEnds(t) \/ Untimed(t)
        PROVE  [Next]_vars
    BY <2>4 DEF TimedCallback, TimedEnds, Untimed, Next
  <2>5. ASSUME NEW t \in Threads, NEW n \in Slots, TimedTrampoline(t, n) PROVE [Next]_vars
    BY <2>5 DEF TimedTrampoline, Next
  <2>6. ASSUME NEW t \in Threads, NEW s \in Sandboxes, TimedInvoke(t, s) \/ Clear(t, s)
        PROVE  [Next]_vars
    BY <2>6 DEF TimedInvoke, Clear, Next
  <2> QED BY <2>1, <2>2, <2>3, <2>4, <2>5, <2>6 DEF TimesNext
<1> QED BY <1>1, <1>2, PTL DEF TimesSpec, Spec
-----------------------------------------------------------------------------
(***************************************************************************)
(* Induction over the natural numbers, from their order being well-founded,*)
(* and what the loop that adds up f[1] to f[n] computes.                   *)
(***************************************************************************)
Before == {p \in Nat \X Nat : p[1] < p[2]}

LEMMA NatOrder == IsWellFoundedOn(Before, Nat)
<1>1. Before = OpToRel(<, Nat)
  BY DEF Before, OpToRel
<1> QED BY <1>1, NatLessThanWellFounded, Zenon

LEMMA SetInduction ==
  ASSUME NEW S, 0 \in S, \A n \in Nat : n \in S => n + 1 \in S
  PROVE  \A n \in Nat : n \in S
<1> SUFFICES ASSUME Nat \ S # {} PROVE FALSE
  OBVIOUS
<1>1. PICK n \in Nat \ S : \A m \in Nat \ S : <<m, n>> \notin Before
  BY NatOrder, WFMin
<1>2. n # 0 /\ n - 1 \in Nat
  OBVIOUS
<1>3. <<n - 1, n>> \in Before
  BY <1>2 DEF Before
<1>4. n - 1 \in S
  BY <1>1, <1>2, <1>3
<1>5. (n - 1) + 1 \in S
  BY <1>2, <1>4
<1> QED BY <1>5

IsSum(g, f, n) == g = [i \in 0..n |-> IF i = 0 THEN 0 ELSE g[i - 1] + f[i]]

LEMMA SumExists == ASSUME NEW f, NEW n \in Nat PROVE \E g : IsSum(g, f, n)
<1> DEFINE S == {m \in Nat : \E g : IsSum(g, f, m)}
<1>1. 0 \in S
  <2>1. IsSum([i \in 0..0 |-> 0], f, 0)
    BY DEF IsSum
  <2> QED BY <2>1
<1>2. ASSUME NEW m \in Nat, m \in S PROVE m + 1 \in S
  <2>1. PICK g : IsSum(g, f, m)
    BY <1>2
  <2> DEFINE h == [i \in 0..(m + 1) |-> IF i = m + 1 THEN g[m] + f[m + 1] ELSE g[i]]
  <2>2. \A i \in 0..m : g[i] = IF i = 0 THEN 0 ELSE g[i - 1] + f[i]
    BY <2>1 DEF IsSum
  <2>3. \A i \in 0..(m + 1) : h[i] = IF i = 0 THEN 0 ELSE h[i - 1] + f[i]
    <3> TAKE i \in 0..(m + 1)
    <3>1. CASE i = m + 1  BY <3>1
    <3>2. CASE i # m + 1
      <4>1. i \in 0..m
        BY <3>2
      <4>2. i # 0 => i - 1 \in 0..m /\ i - 1 # m + 1
        BY <4>1
      <4> QED BY <2>2, <4>1, <4>2
    <3> QED BY <3>1, <3>2
  <2>4. h = [i \in 0..(m + 1) |-> h[i]]
    OBVIOUS
  <2>5. IsSum(h, f, m + 1)
    <3> HIDE DEF h
    <3> QED BY <2>3, <2>4 DEF IsSum
  <2> QED BY <2>5
<1> HIDE DEF S
<1>3. n \in S
  BY <1>1, <1>2, SetInduction
<1> QED BY <1>3 DEF S

LEMMA SumAgree ==
  ASSUME NEW f, NEW n \in Nat, NEW m \in Nat, NEW g, NEW h, IsSum(g, f, m), IsSum(h, f, n)
  PROVE  \A i \in Nat : i <= m /\ i <= n => g[i] = h[i]
<1> DEFINE S == {i \in Nat : i <= m /\ i <= n => g[i] = h[i]}
<1>0. /\ \A i \in 0..m : g[i] = IF i = 0 THEN 0 ELSE g[i - 1] + f[i]
      /\ \A i \in 0..n : h[i] = IF i = 0 THEN 0 ELSE h[i - 1] + f[i]
  BY DEF IsSum
<1>1. 0 \in S
  BY <1>0
<1>2. ASSUME NEW i \in Nat, i \in S PROVE i + 1 \in S
  <2> SUFFICES ASSUME i + 1 <= m /\ i + 1 <= n PROVE g[i + 1] = h[i + 1]
    OBVIOUS
  <2>1. g[i] = h[i]
    BY <1>2
  <2>2. i + 1 \in 0..m /\ i + 1 \in 0..n /\ i + 1 # 0 /\ (i + 1) - 1 = i
    OBVIOUS
  <2>3. g[i + 1] = g[i] + f[i + 1] /\ h[i + 1] = h[i] + f[i + 1]
    BY <1>0, <2>2
  <2> QED BY <2>1, <2>3
<1> HIDE DEF S
<1>3. \A i \in Nat : i \in S
  BY <1>1, <1>2, SetInduction
<1> QED BY <1>3 DEF S

LEMMA SumRec ==
  ASSUME NEW f, NEW n \in Nat
  PROVE  SumTo(f, 0) = 0 /\ SumTo(f, n + 1) = SumTo(f, n) + f[n + 1]
<1> DEFINE C(m) == CHOOSE g : IsSum(g, f, m)
<1>1. \A m \in Nat : IsSum(C(m), f, m)
  BY SumExists
<1>2. \A m : SumTo(f, m) = C(m)[m]
  BY DEF SumTo, IsSum
<1> HIDE DEF C
<1>3. SumTo(f, 0) = 0
  BY <1>1, <1>2 DEF IsSum
<1>4. C(n + 1)[n + 1] = C(n + 1)[n] + f[n + 1]
  <2>1. \A i \in 0..(n + 1) : C(n + 1)[i] = IF i = 0 THEN 0 ELSE C(n + 1)[i - 1] + f[i]
    BY <1>1 DEF IsSum
  <2>2. n + 1 \in 0..(n + 1) /\ n + 1 # 0 /\ (n + 1) - 1 = n
    OBVIOUS
  <2> QED BY <2>1, <2>2
<1>5. C(n + 1)[n] = C(n)[n]
  BY <1>1, SumAgree
<1> QED BY <1>2, <1>3, <1>4, <1>5

LEMMA SumInt ==
  ASSUME NEW n \in Nat, NEW f, \A i \in 1..n : f[i] \in Int
  PROVE  SumTo(f, n) \in Int
<1> DEFINE S == {m \in Nat : m <= n => SumTo(f, m) \in Int}
<1>1. 0 \in S
  BY SumRec
<1>2. ASSUME NEW m \in Nat, m \in S PROVE m + 1 \in S
  BY <1>2, SumRec
<1> HIDE DEF S
<1>3. n \in S
  BY <1>1, <1>2, SetInduction
<1> QED BY <1>3 DEF S

(* The sum of sums. *)
LEMMA SumAdd ==
  ASSUME NEW n \in Nat, NEW f, NEW g, NEW h,
         \A i \in 1..n : f[i] \in Int /\ g[i] \in Int /\ h[i] = f[i] + g[i]
  PROVE  SumTo(h, n) = SumTo(f, n) + SumTo(g, n)
<1> DEFINE S == {m \in Nat : m <= n => SumTo(h, m) = SumTo(f, m) + SumTo(g, m)}
<1>1. 0 \in S
  BY SumRec
<1>2. ASSUME NEW m \in Nat, m \in S PROVE m + 1 \in S
  <2> SUFFICES ASSUME m + 1 <= n PROVE SumTo(h, m + 1) = SumTo(f, m + 1) + SumTo(g, m + 1)
    OBVIOUS
  <2>1. SumTo(f, m) \in Int /\ SumTo(g, m) \in Int
    BY SumInt
  <2>2. SumTo(h, m) = SumTo(f, m) + SumTo(g, m)
    BY <1>2
  <2>3. f[m + 1] \in Int /\ g[m + 1] \in Int /\ h[m + 1] = f[m + 1] + g[m + 1]
    OBVIOUS
  <2>4. /\ SumTo(f, m + 1) = SumTo(f, m) + f[m + 1]
        /\ SumTo(g, m + 1) = SumTo(g, m) + g[m + 1]
        /\ SumTo(h, m + 1) = SumTo(h, m) + h[m + 1]
    BY SumRec
  <2> QED BY <2>1, <2>2, <2>3, <2>4
<1> HIDE DEF S
<1>3. n \in S
  BY <1>1, <1>2, SetInduction
<1> QED BY <1>3 DEF S

LEMMA SumSame ==
  ASSUME NEW n \in Nat, NEW f, NEW g, \A i \in 1..n : f[i] = g[i]
  PROVE  SumTo(f, n) = SumTo(g, n)
<1> DEFINE S == {m \in Nat : m <= n => SumTo(f, m) = SumTo(g, m)}
<1>1. 0 \in S
  BY SumRec
<1>2. ASSUME NEW m \in Nat, m \in S PROVE m + 1 \in S
  BY <1>2, SumRec
<1> HIDE DEF S
<1>3. n \in S
  BY <1>1, <1>2, SetInduction
<1> QED BY <1>3 DEF S

LEMMA SumNotNegative ==
  ASSUME NEW n \in Nat, NEW f, \A i \in 1..n : f[i] \in Nat
  PROVE  SumTo(f, n) \in Nat
<1> DEFINE S == {m \in Nat : m <= n => SumTo(f, m) \in Nat}
<1>1. 0 \in S
  BY SumRec
<1>2. ASSUME NEW m \in Nat, m \in S PROVE m + 1 \in S
  BY <1>2, SumRec
<1> HIDE DEF S
<1>3. n \in S
  BY <1>1, <1>2, SetInduction
<1> QED BY <1>3 DEF S

LEMMA SumZero ==
  ASSUME NEW n \in Nat, NEW f, \A i \in 1..n : f[i] = 0
  PROVE  SumTo(f, n) = 0
<1> DEFINE S == {m \in Nat : m <= n => SumTo(f, m) = 0}
<1>1. 0 \in S
  BY SumRec
<1>2. ASSUME NEW m \in Nat, m \in S PROVE m + 1 \in S
  BY <1>2, SumRec
<1> HIDE DEF S
<1>3. n \in S
  BY <1>1, <1>2, SetInduction
<1> QED BY <1>3 DEF S

(* One summand changes. *)
LEMMA SumUpdate ==
  ASSUME NEW n \in Nat, NEW f, NEW g, NEW k \in 1..n,
         \A i \in 1..n : f[i] \in Int /\ g[i] \in Int /\ (i # k => g[i] = f[i])
  PROVE  SumTo(g, n) = SumTo(f, n) + g[k] - f[k]
<1> DEFINE d == [i \in 1..n |-> IF i = k THEN g[k] - f[k] ELSE 0]
           S == {m \in Nat : m <= n => SumTo(d, m) = IF k <= m THEN g[k] - f[k] ELSE 0}
<1>1. 0 \in S
  BY SumRec
<1>2. ASSUME NEW m \in Nat, m \in S PROVE m + 1 \in S
  <2> SUFFICES ASSUME m + 1 <= n
               PROVE  SumTo(d, m + 1) = IF k <= m + 1 THEN g[k] - f[k] ELSE 0
    OBVIOUS
  <2>1. d[m + 1] = IF m + 1 = k THEN g[k] - f[k] ELSE 0
    OBVIOUS
  <2>2. SumTo(d, m) = IF k <= m THEN g[k] - f[k] ELSE 0
    BY <1>2
  <2> HIDE DEF d
  <2> QED BY <2>1, <2>2, SumRec
<1>3. \A i \in 1..n : d[i] \in Int /\ g[i] = f[i] + d[i]
  OBVIOUS
<1> HIDE DEF S, d
<1>4. n \in S
  BY <1>1, <1>2, SetInduction
<1>5. SumTo(g, n) = SumTo(f, n) + SumTo(d, n)
  BY <1>3, SumAdd
<1>6. SumTo(f, n) \in Int
  BY SumInt
<1> QED BY <1>4, <1>5, <1>6 DEF S

(* A sum of ones counts. *)
LEMMA SumCounts ==
  ASSUME NEW n \in Nat, NEW P, NEW f, \A i \in 1..n : f[i] = IF i \in P THEN 1 ELSE 0
  PROVE  /\ IsFiniteSet((1..n) \cap P)
         /\ SumTo(f, n) = Cardinality((1..n) \cap P)
<1> DEFINE C(m) == (1..m) \cap P
           S == {m \in Nat : m <= n => IsFiniteSet(C(m)) /\ SumTo(f, m) = Cardinality(C(m))}
<1>1. 0 \in S
  <2>1. C(0) = {}
    OBVIOUS
  <2> QED BY <2>1, SumRec, FS_EmptySet
<1>2. ASSUME NEW m \in Nat, m \in S PROVE m + 1 \in S
  <2> SUFFICES ASSUME m + 1 <= n
               PROVE  IsFiniteSet(C(m + 1)) /\ SumTo(f, m + 1) = Cardinality(C(m + 1))
    OBVIOUS
  <2>0. IsFiniteSet(C(m)) /\ SumTo(f, m) = Cardinality(C(m)) /\ Cardinality(C(m)) \in Nat
    BY <1>2, FS_CardinalityType
  <2>1. m + 1 \notin C(m)
    OBVIOUS
  <2>2. C(m + 1) = IF m + 1 \in P THEN C(m) \union {m + 1} ELSE C(m)
    OBVIOUS
  <2>3. f[m + 1] = IF m + 1 \in P THEN 1 ELSE 0
    OBVIOUS
  <2>4. SumTo(f, m + 1) = SumTo(f, m) + f[m + 1]
    BY SumRec
  <2> HIDE DEF C
  <2>5. IsFiniteSet(C(m) \union {m + 1}) /\ Cardinality(C(m) \union {m + 1}) = Cardinality(C(m)) + 1
    BY <2>0, <2>1, FS_AddElement
  <2> QED BY <2>0, <2>2, <2>3, <2>4, <2>5
<1> HIDE DEF S
<1>3. n \in S
  BY <1>1, <1>2, SetInduction
<1> QED BY <1>3 DEF S

-----------------------------------------------------------------------------
(***************************************************************************)
(* A sum over the threads, in an order in which each occurs once.          *)
(***************************************************************************)
Count == Cardinality(Threads)
Order == CHOOSE e : e \in Bijection(1..Count, Threads)
SumOver(f) == SumTo([i \in 1..Count |-> f[Order[i]]], Count)

LEMMA CountIsNat == Count \in Nat
BY ThreadsAssumption, FS_CardinalityType DEF Count

LEMMA OrderFacts ==
  /\ Count \in Nat
  /\ Order \in Bijection(1..Count, Threads)
  /\ \A i \in 1..Count : Order[i] \in Threads
  /\ \A i, j \in 1..Count : Order[i] = Order[j] => i = j
  /\ \A t \in Threads : \E i \in 1..Count : Order[i] = t
<1>1. Count \in Nat /\ ExistsBijection(1..Count, Threads)
  BY ThreadsAssumption, FS_CardinalityType DEF Count
<1>2. Order \in Bijection(1..Count, Threads)
  BY <1>1 DEF Order, ExistsBijection
<1> QED BY <1>1, <1>2, Fun_BijectionProperties

LEMMA OverInt ==
  ASSUME NEW f, \A t \in Threads : f[t] \in Int
  PROVE  SumOver(f) \in Int
<1> DEFINE a == [i \in 1..Count |-> f[Order[i]]]
<1>1. \A i \in 1..Count : a[i] \in Int
  BY OrderFacts
<1> HIDE DEF a
<1>2. SumTo(a, Count) \in Int
  BY ONLY <1>1, CountIsNat, SumInt
<1> QED BY <1>2 DEF SumOver, a

LEMMA OverAdd ==
  ASSUME NEW f, NEW g, NEW h,
         \A t \in Threads : f[t] \in Int /\ g[t] \in Int /\ h[t] = f[t] + g[t]
  PROVE  SumOver(h) = SumOver(f) + SumOver(g)
<1> DEFINE a == [i \in 1..Count |-> f[Order[i]]]
           b == [i \in 1..Count |-> g[Order[i]]]
           c == [i \in 1..Count |-> h[Order[i]]]
<1>1. \A i \in 1..Count : a[i] \in Int /\ b[i] \in Int /\ c[i] = a[i] + b[i]
  BY OrderFacts
<1> HIDE DEF a, b, c
<1>2. SumTo(c, Count) = SumTo(a, Count) + SumTo(b, Count)
  BY ONLY <1>1, CountIsNat, SumAdd
<1> QED BY <1>2 DEF SumOver, a, b, c

LEMMA OverSame ==
  ASSUME NEW f, NEW g, \A t \in Threads : f[t] = g[t]
  PROVE  SumOver(f) = SumOver(g)
<1> DEFINE a == [i \in 1..Count |-> f[Order[i]]]
           b == [i \in 1..Count |-> g[Order[i]]]
<1>1. \A i \in 1..Count : a[i] = b[i]
  BY OrderFacts
<1> HIDE DEF a, b
<1>2. SumTo(a, Count) = SumTo(b, Count)
  BY ONLY <1>1, CountIsNat, SumSame
<1> QED BY <1>2 DEF SumOver, a, b

LEMMA OverNotNegative ==
  ASSUME NEW f, \A t \in Threads : f[t] \in Nat
  PROVE  SumOver(f) \in Nat
<1> DEFINE a == [i \in 1..Count |-> f[Order[i]]]
<1>1. \A i \in 1..Count : a[i] \in Nat
  BY OrderFacts
<1> HIDE DEF a
<1>2. SumTo(a, Count) \in Nat
  BY ONLY <1>1, CountIsNat, SumNotNegative
<1> QED BY <1>2 DEF SumOver, a

LEMMA OverZero ==
  ASSUME NEW f, \A t \in Threads : f[t] = 0
  PROVE  SumOver(f) = 0
<1> DEFINE a == [i \in 1..Count |-> f[Order[i]]]
<1>1. \A i \in 1..Count : a[i] = 0
  BY OrderFacts
<1> HIDE DEF a
<1>2. SumTo(a, Count) = 0
  BY ONLY <1>1, CountIsNat, SumZero
<1> QED BY <1>2 DEF SumOver, a

LEMMA OverUpdate ==
  ASSUME NEW f, NEW g, NEW t \in Threads,
         \A u \in Threads : f[u] \in Int /\ g[u] \in Int /\ (u # t => g[u] = f[u])
  PROVE  SumOver(g) = SumOver(f) + g[t] - f[t]
<1> DEFINE a == [i \in 1..Count |-> f[Order[i]]]
           b == [i \in 1..Count |-> g[Order[i]]]
<1>1. PICK k \in 1..Count : Order[k] = t
  BY OrderFacts
<1>2. \A i \in 1..Count : a[i] \in Int /\ b[i] \in Int /\ (i # k => b[i] = a[i])
  BY <1>1, OrderFacts
<1>3. a[k] = f[t] /\ b[k] = g[t]
  BY <1>1
<1> HIDE DEF a, b
<1>4. k \in 1..Count
  OBVIOUS
<1>5. SumTo(b, Count) = SumTo(a, Count) + b[k] - a[k]
  BY ONLY <1>2, <1>4, CountIsNat, SumUpdate
<1> QED BY <1>3, <1>5 DEF SumOver, a, b

LEMMA OverCounts ==
  ASSUME NEW P \in SUBSET Threads, NEW f, \A t \in Threads : f[t] = IF t \in P THEN 1 ELSE 0
  PROVE  SumOver(f) = Cardinality(P)
<1> DEFINE a == [i \in 1..Count |-> f[Order[i]]]
           Q == {i \in 1..Count : Order[i] \in P}
<1>1. \A i \in 1..Count : a[i] = IF i \in Q THEN 1 ELSE 0
  BY OrderFacts
<1>2. (1..Count) \cap Q = Q
  OBVIOUS
<1>3. \A i \in Q : i \in 1..Count /\ Order[i] \in P
  OBVIOUS
<1>4. ASSUME NEW t \in P PROVE \E i \in Q : Order[i] = t
  <2>1. t \in Threads
    OBVIOUS
  <2>2. PICK i \in 1..Count : Order[i] = t
    BY <2>1, OrderFacts
  <2> QED BY <2>2
<1> HIDE DEF a, Q
<1>5. IsFiniteSet(Q) /\ SumTo(a, Count) = Cardinality(Q)
  <2>1. Count \in Nat
    BY OrderFacts
  <2>2. /\ IsFiniteSet((1..Count) \cap Q)
        /\ SumTo(a, Count) = Cardinality((1..Count) \cap Q)
    BY ONLY <1>1, <2>1, SumCounts
  <2> QED BY <1>2, <2>2
<1> DEFINE e == [i \in Q |-> Order[i]]
<1>6. e \in [Q -> P] /\ (\A i, j \in Q : e[i] = e[j] => i = j) /\ \A t \in P : \E i \in Q : e[i] = t
  BY <1>3, <1>4, OrderFacts
<1> HIDE DEF e
<1>7. e \in Bijection(Q, P)
  BY <1>6, Fun_IsBij
<1>8. Cardinality(Q) = Cardinality(P)
  BY <1>5, <1>7, FS_Bijection DEF ExistsBijection
<1> QED BY <1>5, <1>8 DEF SumOver, a
-----------------------------------------------------------------------------
(***************************************************************************)
(* What a call in progress, the calls of a stack, an append in progress    *)
(* and so all of a thread or of the threads have still to add to the total *)
(* of s: the clock has not been read at their ends.                        *)
(***************************************************************************)
Share(frame, from, s, time) ==
  IF frame.kind = "sandbox" /\ frame.sandbox = s THEN time - from
  ELSE IF frame.kind = "callback" /\ frame.sandbox = s THEN from - time
  ELSE 0

StackTime(q, e, s, time) == SumTo([i \in 1..Len(q) |-> Share(q[i], e[i], s, time)], Len(q))
AppendTime(a, s) == IF a.step # "none" /\ a.sandbox = s THEN Signed(a.record) ELSE 0
Due(q, e, a, s, time) == StackTime(q, e, s, time) + AppendTime(a, s)
DueOf(t, s) == Due(stack[t], enter_time[t], append[t], s, now)
Pending(s) == SumOver([t \in Threads |-> DueOf(t, s)])
TotalOf(times) == SumTo([i \in 1..Len(times) |-> Signed(times[i])], Len(times))

Record == [invoke : {"INVOKE", "CALLBACK"}, time : Nat]
AppendState ==
  {NoAppend} \union [step : {"size", "write"}, sandbox : Sandboxes, record : Record, at : Nat]

(* The calls of a stack are timed, inner ones from later on; and a callback  *)
(* that has ended took no longer than the call that it was in.               *)
Timed(q, e, time) ==
  /\ Len(e) = Len(q)
  /\ \A i \in 1..Len(q) : e[i] <= time /\ (i > 1 => e[i - 1] <= e[i])

EndsInCall(q, e, a, time) ==
  a.step # "none" /\ a.record.invoke = "CALLBACK" =>
    /\ Len(q) > 0 /\ q[Len(q)].kind = "sandbox" /\ q[Len(q)].sandbox = a.sandbox
    /\ a.record.time + e[Len(q)] <= time

LEMMA AppendFacts ==
  /\ NoAppend \in AppendState /\ NoAppend.step = "none"
  /\ \A a \in AppendState : a.step # "none" =>
       /\ a.step \in {"size", "write"} /\ a.sandbox \in Sandboxes
       /\ a.record \in Record /\ a.at \in Nat
       /\ a.record.invoke \in {"INVOKE", "CALLBACK"} /\ a.record.time \in Nat
BY DEF NoAppend, AppendState, Record

LEMMA SignedInt ==
  ASSUME NEW r \in Record
  PROVE  Signed(r) \in Int /\ (r.invoke = "INVOKE" => Signed(r) \in Nat)
BY DEF Record, Signed

LEMMA TimesOf ==
  ASSUME NEW e \in Seq(Nat)
  PROVE  Len(e) \in Nat /\ \A i \in 1..Len(e) : e[i] \in Nat
BY LenProperties, ElementOfSeq

LEMMA FramesOf ==
  ASSUME NEW q \in Seq(Frame)
  PROVE  /\ Len(q) \in Nat
         /\ \A i \in 1..Len(q) : q[i] \in Frame /\ q[i].kind \in Kinds
BY LenProperties, ElementOfSeq, FrameFields

LEMMA ShareInt ==
  ASSUME NEW frame, NEW from \in Int, NEW s, NEW time \in Int
  PROVE  Share(frame, from, s, time) \in Int
BY DEF Share

LEMMA StackInt ==
  ASSUME NEW q \in Seq(Frame), NEW e \in Seq(Nat), Len(e) = Len(q), NEW s, NEW time \in Nat
  PROVE  StackTime(q, e, s, time) \in Int
<1> DEFINE f == [i \in 1..Len(q) |-> Share(q[i], e[i], s, time)]
<1>1. Len(q) \in Nat /\ \A i \in 1..Len(q) : e[i] \in Int
  BY TimesOf
<1>2. \A i \in 1..Len(q) : f[i] \in Int
  BY <1>1, ShareInt
<1> HIDE DEF f
<1> QED BY <1>1, <1>2, SumInt DEF StackTime, f

LEMMA DueInt ==
  ASSUME NEW q \in Seq(Frame), NEW e \in Seq(Nat), Len(e) = Len(q), NEW a \in AppendState,
         NEW s, NEW time \in Nat
  PROVE  /\ StackTime(q, e, s, time) \in Int
         /\ AppendTime(a, s) \in Int
         /\ Due(q, e, a, s, time) \in Int
<1>1. AppendTime(a, s) \in Int
  BY AppendFacts, SignedInt DEF AppendTime
<1> QED BY <1>1, StackInt DEF Due

(* A stack with one call more. *)
LEMMA StackLast ==
  ASSUME NEW q, NEW e, NEW r, NEW d, Len(q) \in Nat, Len(r) = Len(q) + 1, NEW s, NEW time,
         \A i \in 1..Len(q) : r[i] = q[i] /\ d[i] = e[i]
  PROVE  StackTime(r, d, s, time) =
           StackTime(q, e, s, time) + Share(r[Len(q) + 1], d[Len(q) + 1], s, time)
<1> DEFINE n == Len(q)
           f == [i \in 1..n |-> Share(q[i], e[i], s, time)]
           g == [i \in 1..(n + 1) |-> Share(r[i], d[i], s, time)]
<1>1. \A i \in 1..n : f[i] = g[i]
  OBVIOUS
<1>2. g[n + 1] = Share(r[n + 1], d[n + 1], s, time)
  OBVIOUS
<1>3. StackTime(r, d, s, time) = SumTo(g, n + 1) /\ StackTime(q, e, s, time) = SumTo(f, n)
  BY DEF StackTime
<1>4. n \in Nat
  OBVIOUS
<1> HIDE DEF n, f, g
<1>5. SumTo(f, n) = SumTo(g, n)
  BY ONLY <1>1, <1>4, SumSame
<1>6. SumTo(g, n + 1) = SumTo(g, n) + g[n + 1]
  BY ONLY <1>4, SumRec
<1> QED BY <1>2, <1>3, <1>5, <1>6 DEF n

(* No call about s, nothing to add to its total. *)
LEMMA StackNone ==
  ASSUME NEW q \in Seq(Frame), WellNested(q), NEW e, NEW s, NEW time,
         \A i \in 1..Len(q) : ~(q[i].kind = "sandbox" /\ q[i].sandbox = s)
  PROVE  StackTime(q, e, s, time) = 0
<1> DEFINE f == [i \in 1..Len(q) |-> Share(q[i], e[i], s, time)]
<1>1. Len(q) \in Nat
  BY FramesOf
<1>2. ASSUME NEW i \in 1..Len(q), q[i].kind = "callback" PROVE q[i].sandbox # s
  BY <1>1, <1>2 DEF WellNested
<1>3. \A i \in 1..Len(q) : f[i] = 0
  BY <1>2 DEF Share
<1> HIDE DEF f
<1> QED BY <1>1, <1>3, SumZero DEF StackTime, f

(* What a stack has still to add is not negative, and when it ends in a call *)
(* of s at least the time that call has taken.                               *)
LEMMA StackBounds ==
  ASSUME NEW q \in Seq(Frame), WellNested(q), NEW e \in Seq(Nat), NEW time \in Nat,
         Timed(q, e, time), NEW s
  PROVE  /\ StackTime(q, e, s, time) >= 0
         /\ Len(q) > 0 /\ q[Len(q)].kind = "sandbox" /\ q[Len(q)].sandbox = s
              => StackTime(q, e, s, time) >= time - e[Len(q)]
<1> DEFINE n == Len(q)
           Calls(m) == m > 0 /\ q[m].kind = "sandbox" /\ q[m].sandbox = s
           f == [i \in 1..n |-> Share(q[i], e[i], s, time)]
           S == {m \in Nat : m <= n =>
                   /\ SumTo(f, m) \in Nat
                   /\ Calls(m) => SumTo(f, m) >= time - e[m]}
<1>1. n \in Nat /\ \A i \in 1..n : e[i] \in Nat /\ e[i] <= time /\ (i > 1 => e[i - 1] <= e[i])
  BY TimesOf, FramesOf DEF Timed
<1>2. \A i \in 1..n :
        /\ i > 1 /\ q[i].kind = "sandbox" => q[i - 1].kind = "callback"
        /\ q[i].kind = "callback" => /\ i > 1 /\ q[i - 1].kind = "sandbox"
                                     /\ q[i].sandbox = q[i - 1].sandbox
  BY <1>1 DEF WellNested
<1>3. 0 \in S
  BY SumRec
<1>4. ASSUME NEW m \in Nat, m \in S PROVE m + 1 \in S
  <2> SUFFICES ASSUME m + 1 <= n
               PROVE  SumTo(f, m + 1) \in Nat /\ (Calls(m + 1) => SumTo(f, m + 1) >= time - e[m + 1])
    OBVIOUS
  <2>1. m + 1 \in 1..n /\ (m + 1) - 1 = m
    BY <1>1
  <2>2. SumTo(f, m + 1) = SumTo(f, m) + f[m + 1]
    BY SumRec
  <2>3. f[m + 1] = Share(q[m + 1], e[m + 1], s, time)
    BY <2>1
  <2>4. SumTo(f, m) \in Nat /\ (Calls(m) => SumTo(f, m) >= time - e[m])
    BY <1>1, <1>4, <2>1
  <2>5. e[m + 1] \in Nat /\ e[m + 1] <= time
    BY <1>1, <2>1
  <2> HIDE DEF f, n
  <2>6. CASE Calls(m + 1)
    BY <2>2, <2>3, <2>4, <2>5, <2>6 DEF Share
  <2>7. CASE q[m + 1].kind = "callback" /\ q[m + 1].sandbox = s
    <3>0. /\ m + 1 > 1 /\ q[(m + 1) - 1].kind = "sandbox"
          /\ q[m + 1].sandbox = q[(m + 1) - 1].sandbox
      BY <1>2, <2>1, <2>7
    <3>1. Calls(m) /\ m + 1 > 1 /\ m \in 1..n
      BY <1>1, <2>1, <2>7, <3>0
    <3>2. e[m] \in Nat /\ e[m] <= e[m + 1]
      BY <1>1, <2>1, <3>1
    <3>3. f[m + 1] = e[m + 1] - time
      BY <2>3, <2>7 DEF Share
    <3>4. SumTo(f, m) \in Nat /\ SumTo(f, m) >= time - e[m]
      BY <2>4, <3>1
    <3>5. SumTo(f, m + 1) \in Nat
      <4> HIDE DEF Calls
      <4> QED BY <2>2, <2>5, <3>2, <3>3, <3>4
    <3> QED BY <2>7, <3>5
  <2>8. CASE ~Calls(m + 1) /\ ~(q[m + 1].kind = "callback" /\ q[m + 1].sandbox = s)
    BY <2>2, <2>3, <2>4, <2>8 DEF Share
  <2> QED BY <2>6, <2>7, <2>8
<1> HIDE DEF S
<1>5. n \in S
  BY <1>1, <1>3, <1>4, SetInduction
<1>6. StackTime(q, e, s, time) = SumTo(f, n)
  BY DEF StackTime
<1> QED BY <1>1, <1>5, <1>6 DEF S

(* A tick of the clock adds to it exactly when the thread is in s. *)
LEMMA StackTick ==
  ASSUME NEW q \in Seq(Frame), WellNested(q), NEW e \in Seq(Nat), Len(e) = Len(q),
         NEW time \in Nat, NEW s
  PROVE  StackTime(q, e, s, time + 1) =
           StackTime(q, e, s, time) + IF OnSandboxSide(q) /\ Owner(q) = s THEN 1 ELSE 0
<1> DEFINE n == Len(q)
           f == [i \in 1..n |-> Share(q[i], e[i], s, time)]
           h == [i \in 1..n |-> Share(q[i], e[i], s, time + 1)]
           g == [i \in 1..n |-> IF q[i].sandbox # s THEN 0
                                ELSE IF q[i].kind = "sandbox" THEN 1
                                ELSE IF q[i].kind = "callback" THEN -1 ELSE 0]
           Inside(m) == /\ m > 0
                        /\ \/ q[m].kind = "sandbox" /\ q[m].sandbox = s
                           \/ /\ q[m].kind \in {"trampoline", "interceptor"}
                              /\ q[m - 1].sandbox = s
           S == {m \in Nat : m <= n => SumTo(g, m) = IF Inside(m) THEN 1 ELSE 0}
<1>1. n \in Nat /\ \A i \in 1..n : e[i] \in Nat /\ q[i].kind \in Kinds
  BY TimesOf, FramesOf
<1>2. \A i \in 1..n :
        /\ q[i].kind = "sandbox" => i = 1 \/ q[i - 1].kind = "callback"
        /\ q[i].kind # "sandbox" => i > 1 /\ q[i - 1].kind = "sandbox"
        /\ q[i].kind = "callback" => q[i].sandbox = q[i - 1].sandbox
  BY <1>1 DEF WellNested
<1>3. 0 \in S
  BY SumRec
<1>4. ASSUME NEW m \in Nat, m \in S PROVE m + 1 \in S
  <2> SUFFICES ASSUME m + 1 <= n PROVE SumTo(g, m + 1) = IF Inside(m + 1) THEN 1 ELSE 0
    OBVIOUS
  <2>1. m + 1 \in 1..n /\ (m + 1) - 1 = m
    BY <1>1
  <2>2. SumTo(g, m + 1) = SumTo(g, m) + g[m + 1]
    BY SumRec
  <2>3. g[m + 1] = IF q[m + 1].sandbox # s THEN 0
                   ELSE IF q[m + 1].kind = "sandbox" THEN 1
                   ELSE IF q[m + 1].kind = "callback" THEN -1 ELSE 0
    BY <2>1
  <2>4. SumTo(g, m) = IF Inside(m) THEN 1 ELSE 0
    BY <1>1, <1>4, <2>1
  <2> HIDE DEF g, n
  <2>5. CASE q[m + 1].kind = "sandbox"
    <3>1. ~Inside(m)
      BY <1>2, <2>1, <2>5
    <3> QED BY <2>2, <2>3, <2>4, <2>5, <3>1
  <2>6. CASE q[m + 1].kind = "callback"
    <3>1. m > 0 /\ q[m].kind = "sandbox" /\ q[m + 1].sandbox = q[m].sandbox
      BY <1>2, <2>1, <2>6
    <3> QED BY <2>2, <2>3, <2>4, <2>6, <3>1
  <2>7. CASE q[m + 1].kind \in {"trampoline", "interceptor"}
    <3>1. m > 0 /\ q[m].kind = "sandbox"
      BY <1>2, <2>1, <2>7
    <3>2. g[m + 1] = 0
      BY <2>3, <2>7
    <3> QED BY <2>1, <2>2, <2>4, <2>7, <3>1, <3>2
  <2> QED BY <1>1, <2>1, <2>5, <2>6, <2>7 DEF Kinds
<1>5. \A i \in 1..n : f[i] \in Int /\ g[i] \in Int /\ h[i] = f[i] + g[i]
  <2> TAKE i \in 1..n
  <2>1. e[i] \in Int /\ time \in Int /\ f[i] \in Int
    BY <1>1, ShareInt
  <2>2. /\ f[i] = Share(q[i], e[i], s, time) /\ h[i] = Share(q[i], e[i], s, time + 1)
        /\ g[i] = IF q[i].sandbox # s THEN 0
                  ELSE IF q[i].kind = "sandbox" THEN 1
                  ELSE IF q[i].kind = "callback" THEN -1 ELSE 0
    OBVIOUS
  <2> HIDE DEF f, g, h
  <2>3. CASE q[i].sandbox # s
    BY <2>1, <2>2, <2>3 DEF Share
  <2>4. CASE q[i].sandbox = s
    BY <2>1, <2>2, <2>4 DEF Share
  <2> QED BY <2>3, <2>4
<1>6. Inside(n) <=> OnSandboxSide(q) /\ Owner(q) = s
  <2>1. n > 0 => n \in 1..n
    BY <1>1
  <2> QED BY <1>1, <2>1 DEF OnSandboxSide, Owner, Dispatching, Kinds
<1>7. StackTime(q, e, s, time) = SumTo(f, n) /\ StackTime(q, e, s, time + 1) = SumTo(h, n)
  BY DEF StackTime
<1> HIDE DEF S, f, g, h, n
<1>8. n \in S
  BY <1>1, <1>3, <1>4, SetInduction
<1>9. SumTo(h, n) = SumTo(f, n) + SumTo(g, n)
  BY ONLY <1>1, <1>5, SumAdd
<1> QED BY <1>1, <1>6, <1>7, <1>8, <1>9 DEF S

(* What a thread has still to add is never negative. *)
LEMMA DueNotNegative ==
  ASSUME NEW q \in Seq(Frame), WellNested(q), NEW e \in Seq(Nat), NEW a \in AppendState,
         NEW time \in Nat, Timed(q, e, time), EndsInCall(q, e, a, time), NEW s
  PROVE  Due(q, e, a, s, time) \in Nat
<1>1. /\ StackTime(q, e, s, time) \in Int /\ AppendTime(a, s) \in Int
      /\ StackTime(q, e, s, time) >= 0
  BY DueInt, StackBounds DEF Timed
<1>2. CASE AppendTime(a, s) >= 0
  BY <1>1, <1>2 DEF Due
<1>3. CASE AppendTime(a, s) < 0
  <2>1. a.step # "none" /\ a.sandbox = s /\ AppendTime(a, s) = Signed(a.record)
    BY <1>3 DEF AppendTime
  <2>2. a.record.invoke = "CALLBACK" /\ a.record.time \in Nat
    BY <1>1, <1>3, <2>1, AppendFacts, SignedInt
  <2>3. Signed(a.record) = -a.record.time
    BY <2>2 DEF Signed
  <2>4. /\ Len(q) > 0 /\ q[Len(q)].kind = "sandbox" /\ q[Len(q)].sandbox = s
        /\ a.record.time + e[Len(q)] <= time
    BY <2>1, <2>2 DEF EndsInCall
  <2>5. StackTime(q, e, s, time) >= time - e[Len(q)]
    BY <2>4, StackBounds
  <2>6. e[Len(q)] \in Nat
    BY <2>4, TimesOf DEF Timed
  <2> QED BY <1>1, <2>1, <2>2, <2>3, <2>4, <2>5, <2>6 DEF Due
<1> QED BY <1>1, <1>2, <1>3

-----------------------------------------------------------------------------
(* The total of a vector, and of one with a record more. *)
LEMMA TotalInt ==
  ASSUME NEW times \in Seq(Record)
  PROVE  TotalOf(times) \in Int /\ Len(times) \in Nat
<1> DEFINE f == [i \in 1..Len(times) |-> Signed(times[i])]
<1>1. Len(times) \in Nat /\ \A i \in 1..Len(times) : times[i] \in Record
  BY LenProperties, ElementOfSeq
<1>2. \A i \in 1..Len(times) : f[i] \in Int
  BY <1>1, SignedInt
<1> HIDE DEF f
<1> QED BY <1>1, <1>2, SumInt DEF TotalOf, f

LEMMA TotalEmpty == TotalOf(<<>>) = 0 /\ <<>> \in Seq(Record)
<1>1. Len(<<>>) = 0 /\ <<>> \in Seq(Record)
  BY EmptySeq
<1> QED BY <1>1, SumRec DEF TotalOf

LEMMA TotalAppend ==
  ASSUME NEW times \in Seq(Record), NEW r \in Record
  PROVE  TotalOf(Append(times, r)) = TotalOf(times) + Signed(r)
<1> DEFINE n == Len(times)
           more == Append(times, r)
           f == [i \in 1..n |-> Signed(times[i])]
           g == [i \in 1..(n + 1) |-> Signed(more[i])]
<1>1. n \in Nat /\ Len(more) = n + 1 /\ more[n + 1] = r /\ \A i \in 1..n : more[i] = times[i]
  BY LenProperties, AppendProperties
<1> HIDE DEF more, n
<1>2. (\A i \in 1..n : f[i] = g[i]) /\ g[n + 1] = Signed(r)
  BY <1>1
<1>3. TotalOf(more) = SumTo(g, n + 1) /\ TotalOf(times) = SumTo(f, n)
  BY <1>1 DEF TotalOf, n
<1> HIDE DEF f, g
<1>4. SumTo(f, n) = SumTo(g, n)
  BY ONLY <1>1, <1>2, SumSame
<1>5. SumTo(g, n + 1) = SumTo(g, n) + g[n + 1]
  BY ONLY <1>1, SumRec
<1> QED BY <1>2, <1>3, <1>4, <1>5 DEF more

-----------------------------------------------------------------------------
(***************************************************************************)
(* The inductive invariant.  What the vector of a sandbox adds up to and   *)
(* what the calls in progress have still to add make up the time spent in  *)
(* it - no less after a clear in the middle of calls - as long as its      *)
(* appends did not race: then a record is written where the vector ends.   *)
(***************************************************************************)
TimesTypeOK ==
  /\ now \in Nat
  /\ enter_time \in [Threads -> Seq(Nat)]
  /\ append \in [Threads -> AppendState]
  /\ transition_times \in [Sandboxes -> Seq(Record)]
  /\ inside \in [Sandboxes -> Nat]
  /\ spoiled \in [Sandboxes -> {"no", "cleared", "raced"}]

ThreadTimed(t) ==
  /\ Timed(stack[t], enter_time[t], now)
  /\ EndsInCall(stack[t], enter_time[t], append[t], now)

WritesAtEnd(s) ==
  \A t \in Threads : Writing(t, s) =>
    /\ append[t].at = Len(transition_times[s]) + 1
    /\ \A u \in Threads : Writing(u, s) => u = t

Balanced(s) ==
  /\ spoiled[s] # "raced" => WritesAtEnd(s) /\ Total(s) + Pending(s) >= inside[s]
  /\ spoiled[s] = "no" => Total(s) + Pending(s) = inside[s]

TimesInv ==
  /\ TimesTypeOK
  /\ \A t \in Threads : ThreadTimed(t)
  /\ \A s \in Sandboxes : Balanced(s)

(* What the invariants say of the values of one thread and of a sandbox. *)
LEMMA ThreadValues ==
  ASSUME DispatchInv, TimesInv, NEW t \in Threads
  PROVE  /\ stack[t] \in Seq(Frame) /\ WellNested(stack[t]) /\ now \in Nat
         /\ enter_time[t] \in Seq(Nat) /\ append[t] \in AppendState
         /\ Len(stack[t]) \in Nat /\ Depth(t) = Len(stack[t])
         /\ Len(enter_time[t]) = Len(stack[t])
         /\ Timed(stack[t], enter_time[t], now)
         /\ EndsInCall(stack[t], enter_time[t], append[t], now)
         /\ \A s : DueOf(t, s) \in Nat
<1>1. /\ stack[t] \in Seq(Frame) /\ WellNested(stack[t])
      /\ Len(stack[t]) \in Nat /\ Depth(t) = Len(stack[t])
  BY Values DEF ThreadOK
<1>2. /\ now \in Nat /\ enter_time[t] \in Seq(Nat) /\ append[t] \in AppendState
      /\ Timed(stack[t], enter_time[t], now)
      /\ EndsInCall(stack[t], enter_time[t], append[t], now)
  BY DEF TimesInv, TimesTypeOK, ThreadTimed
<1>3. \A s : DueOf(t, s) \in Nat
  BY <1>1, <1>2, DueNotNegative DEF DueOf
<1> QED BY <1>1, <1>2, <1>3 DEF Timed

LEMMA SandboxValues ==
  ASSUME DispatchInv, TimesInv, NEW s \in Sandboxes
  PROVE  /\ transition_times[s] \in Seq(Record) /\ Len(transition_times[s]) \in Nat
         /\ Total(s) = TotalOf(transition_times[s]) /\ Total(s) \in Int
         /\ Pending(s) \in Nat /\ inside[s] \in Nat
<1>1. transition_times[s] \in Seq(Record) /\ inside[s] \in Nat
  BY DEF TimesInv, TimesTypeOK
<1>2. Total(s) = TotalOf(transition_times[s])
  BY DEF Total, TotalOf
<1>3. Pending(s) \in Nat
  BY ThreadValues, OverNotNegative DEF Pending
<1> QED BY <1>1, <1>2, <1>3, TotalInt

(* Two ways in which an assignment leaves the sum for s as it was. *)
LEMMA PendingKept ==
  ASSUME NEW s, \A u \in Threads : DueOf(u, s)' = DueOf(u, s)
  PROVE  Pending(s)' = Pending(s)
<1> DEFINE f == [u \in Threads |-> DueOf(u, s)']
           g == [u \in Threads |-> DueOf(u, s)]
<1>1. \A u \in Threads : f[u] = g[u]
  OBVIOUS
<1> HIDE DEF f, g
<1>2. SumOver(f) = SumOver(g)
  BY ONLY <1>1, OverSame
<1> QED BY <1>2 DEF Pending, f, g

LEMMA BalanceKept ==
  ASSUME TimesInv, NEW s \in Sandboxes, Pending(s)' = Pending(s),
         transition_times'[s] = transition_times[s],
         inside'[s] = inside[s], spoiled'[s] = spoiled[s],
         \A u \in Threads : Writing(u, s)' => Writing(u, s) /\ append'[u] = append[u]
  PROVE  Balanced(s)'
<1>1. Total(s)' = Total(s)
  BY DEF Total
<1>2. Balanced(s)
  BY DEF TimesInv
<1>3. WritesAtEnd(s) => WritesAtEnd(s)'
  BY DEF WritesAtEnd
<1> QED BY <1>1, <1>2, <1>3 DEF Balanced

(* A step of the calls of one thread, which is not in an append. *)
LEMMA CallStep ==
  ASSUME DispatchInv, TimesInv, NEW t \in Threads, ~Appending(t),
         NEW q \in Seq(Frame), NEW e \in Seq(Nat), NEW a \in AppendState, a.step # "write",
         stack' = [stack EXCEPT ![t] = q],
         enter_time' = [enter_time EXCEPT ![t] = e],
         append' = [append EXCEPT ![t] = a],
         UNCHANGED <<now, transition_times, inside, spoiled>>,
         Timed(q, e, now), EndsInCall(q, e, a, now),
         \A s \in Sandboxes : Due(q, e, a, s, now) = DueOf(t, s)
  PROVE  TimesInv'
<1>1. TimesTypeOK'
  BY DEF TimesInv, TimesTypeOK
<1>2. \A u \in Threads :
        /\ u = t => stack'[u] = q /\ enter_time'[u] = e /\ append'[u] = a
        /\ u # t => /\ stack'[u] = stack[u] /\ enter_time'[u] = enter_time[u]
                    /\ append'[u] = append[u]
  BY DEF DispatchInv, TypeOK, TimesInv, TimesTypeOK
<1>3. ASSUME NEW u \in Threads PROVE ThreadTimed(u)'
  <2>1. ThreadTimed(u)
    BY DEF TimesInv
  <2>2. CASE u = t
    BY <1>2, <2>2 DEF ThreadTimed
  <2>3. CASE u # t
    BY <1>2, <2>1, <2>3 DEF ThreadTimed
  <2> QED BY <2>2, <2>3
<1>4. ASSUME NEW s \in Sandboxes PROVE Balanced(s)'
  <2>1. ASSUME NEW u \in Threads PROVE DueOf(u, s)' = DueOf(u, s)
    <3>1. CASE u = t
      BY <1>2, <3>1 DEF DueOf
    <3>2. CASE u # t
      BY <1>2, <3>2 DEF DueOf
    <3> QED BY <3>1, <3>2
  <2>2. Pending(s)' = Pending(s)
    BY <2>1, PendingKept
  <2>3. \A u \in Threads : Writing(u, s)' => Writing(u, s) /\ append'[u] = append[u]
    BY <1>2 DEF Writing, AppendingTo, Appending
  <2> QED BY <2>2, <2>3, BalanceKept
<1> QED BY <1>1, <1>3, <1>4 DEF TimesInv

-----------------------------------------------------------------------------
(* Calls that begin, end and are replaced by what they lead to. *)
LEMMA PushTimed ==
  ASSUME NEW q \in Seq(Frame), NEW f \in Frame, NEW e \in Seq(Nat), NEW time \in Nat,
         Timed(q, e, time)
  PROVE  /\ Append(q, f) \in Seq(Frame) /\ Append(e, time) \in Seq(Nat)
         /\ Timed(Append(q, f), Append(e, time), time)
         /\ \A s : StackTime(Append(q, f), Append(e, time), s, time) = StackTime(q, e, s, time)
<1> DEFINE n == Len(q)
           r == Append(q, f)
           d == Append(e, time)
<1>1. n \in Nat /\ Len(e) = n /\ \A i \in 1..n : e[i] \in Nat
  BY TimesOf DEF Timed
<1>2. /\ r \in Seq(Frame) /\ Len(r) = n + 1 /\ r[n + 1] = f
      /\ \A i \in 1..n : r[i] = q[i]
  BY PushFacts
<1>3. /\ d \in Seq(Nat) /\ Len(d) = n + 1 /\ d[n + 1] = time
      /\ \A i \in 1..n : d[i] = e[i]
  BY <1>1, AppendProperties
<1>4. \A i \in 1..n : e[i] <= time /\ (i > 1 => e[i - 1] <= e[i])
  BY DEF Timed
<1> HIDE DEF r, d
<1>5. Timed(r, d, time)
  <2> SUFFICES ASSUME NEW i \in 1..(n + 1)
               PROVE  d[i] <= time /\ (i > 1 => d[i - 1] <= d[i])
    BY <1>2, <1>3 DEF Timed
  <2>1. CASE i = n + 1
    <3>1. i > 1 => i - 1 \in 1..n
      BY <1>1, <2>1
    <3> QED BY <1>1, <1>3, <1>4, <2>1, <3>1
  <2>2. CASE i # n + 1
    <3>1. i \in 1..n /\ (i > 1 => i - 1 \in 1..n)
      BY <1>1, <2>2
    <3> QED BY <1>3, <1>4, <3>1
  <2> QED BY <2>1, <2>2
<1>6. ASSUME NEW s PROVE StackTime(r, d, s, time) = StackTime(q, e, s, time)
  <2>1. StackTime(r, d, s, time) = StackTime(q, e, s, time) + Share(r[n + 1], d[n + 1], s, time)
    BY <1>1, <1>2, <1>3, StackLast
  <2>2. Share(r[n + 1], d[n + 1], s, time) = 0
    BY <1>3 DEF Share
  <2>3. StackTime(q, e, s, time) \in Int
    BY <1>1, StackInt
  <2> QED BY <2>1, <2>2, <2>3
<1> QED BY <1>2, <1>3, <1>5, <1>6 DEF r, d

LEMMA PopTimed ==
  ASSUME NEW q \in Seq(Frame), Len(q) > 0, NEW e \in Seq(Nat), NEW time \in Nat,
         Timed(q, e, time)
  PROVE  LET r == SubSeq(q, 1, Len(q) - 1)
             d == SubSeq(e, 1, Len(e) - 1)
         IN /\ r \in Seq(Frame) /\ d \in Seq(Nat) /\ Timed(r, d, time)
            /\ Len(r) = Len(q) - 1 /\ Len(q) \in Nat
            /\ \A i \in 1..(Len(q) - 1) : r[i] = q[i] /\ d[i] = e[i]
            /\ \A s : StackTime(q, e, s, time) =
                        StackTime(r, d, s, time) + Share(q[Len(q)], e[Len(q)], s, time)
<1> DEFINE n == Len(q)
           r == SubSeq(q, 1, Len(q) - 1)
           d == SubSeq(e, 1, Len(e) - 1)
<1>1. n \in Nat /\ n > 0 /\ Len(e) = n
  BY TimesOf DEF Timed
<1>2. r \in Seq(Frame) /\ Len(r) = n - 1 /\ \A i \in 1..(n - 1) : r[i] = q[i]
  BY PopFacts
<1>3. d \in Seq(Nat) /\ Len(d) = n - 1 /\ \A i \in 1..(n - 1) : d[i] = e[i]
  BY <1>1, PopAny
<1>4. \A i \in 1..n : e[i] <= time /\ (i > 1 => e[i - 1] <= e[i])
  BY DEF Timed
<1> HIDE DEF r, d
<1>5. Timed(r, d, time)
  <2> SUFFICES ASSUME NEW i \in 1..(n - 1)
               PROVE  d[i] <= time /\ (i > 1 => d[i - 1] <= d[i])
    BY <1>2, <1>3 DEF Timed
  <2>1. i \in 1..n /\ (i > 1 => i - 1 \in 1..(n - 1))
    BY <1>1
  <2> QED BY <1>3, <1>4, <2>1
<1>6. ASSUME NEW s
      PROVE  StackTime(q, e, s, time) = StackTime(r, d, s, time) + Share(q[n], e[n], s, time)
  <2>1. Len(r) \in Nat /\ Len(q) = Len(r) + 1 /\ Len(r) + 1 = n
    BY <1>1, <1>2
  <2>2. \A i \in 1..Len(r) : q[i] = r[i] /\ e[i] = d[i]
    BY <1>1, <1>2, <1>3
  <2>3. StackTime(q, e, s, time) =
          StackTime(r, d, s, time) + Share(q[Len(r) + 1], e[Len(r) + 1], s, time)
    BY <2>1, <2>2, StackLast
  <2> QED BY <2>1, <2>3
<1> QED BY <1>1, <1>2, <1>3, <1>5, <1>6 DEF r, d

(* A trampoline's frame becomes the interceptor's or its callback's, which   *)
(* is timed from then on.                                                    *)
LEMMA ReplaceTimed ==
  ASSUME NEW q \in Seq(Frame), Len(q) > 0, q[Len(q)].kind \in {"trampoline", "interceptor"},
         NEW r \in Seq(Frame), Len(r) = Len(q), \A i \in 1..(Len(q) - 1) : r[i] = q[i],
         NEW e \in Seq(Nat), NEW time \in Nat, Timed(q, e, time),
         NEW d \in Seq(Nat), Len(d) = Len(q), \A i \in 1..(Len(q) - 1) : d[i] = e[i],
         d[Len(q)] \in {e[Len(q)], time},
         r[Len(q)].kind \in {"interceptor", "callback"},
         r[Len(q)].kind = "callback" => d[Len(q)] = time
  PROVE  /\ Timed(r, d, time)
         /\ \A s : StackTime(r, d, s, time) = StackTime(q, e, s, time)
<1> DEFINE n == Len(q)
           f == r[n]
<1>1. n \in Nat /\ n \in 1..n /\ Len(e) = n /\ \A i \in 1..n : e[i] \in Nat
  BY TimesOf DEF Timed
<1>2. /\ r \in Seq(Frame) /\ Len(r) = n /\ r[n] = f
      /\ \A i \in 1..(n - 1) : r[i] = q[i]
  OBVIOUS
<1>3. /\ Len(d) = n /\ \A i \in 1..(n - 1) : d[i] = e[i]
      /\ d[n] \in Nat /\ e[n] <= d[n] /\ d[n] <= time
      /\ f.kind = "callback" => d[n] = time
  <2>1. e[n] <= time
    BY <1>1 DEF Timed
  <2> QED BY <1>1, <2>1
<1>4. \A i \in 1..n : e[i] <= time /\ (i > 1 => e[i - 1] <= e[i])
  BY DEF Timed
<1>5. Timed(r, d, time)
  <2> SUFFICES ASSUME NEW i \in 1..n
               PROVE  d[i] <= time /\ (i > 1 => d[i - 1] <= d[i])
    BY <1>2, <1>3 DEF Timed
  <2>1. CASE i = n
    <3>1. i > 1 => i - 1 \in 1..(n - 1)
      BY <1>1, <2>1
    <3> QED BY <1>1, <1>3, <1>4, <2>1, <3>1
  <2>2. CASE i # n
    <3>1. i \in 1..(n - 1) /\ (i > 1 => i - 1 \in 1..(n - 1))
      BY <1>1, <2>2
    <3> QED BY <1>1, <1>3, <1>4, <3>1
  <2> QED BY <2>1, <2>2
<1>6. ASSUME NEW s PROVE StackTime(r, d, s, time) = StackTime(q, e, s, time)
  <2> DEFINE g == [i \in 1..n |-> Share(q[i], e[i], s, time)]
             h == [i \in 1..n |-> Share(r[i], d[i], s, time)]
  <2>1. ASSUME NEW i \in 1..n PROVE h[i] = g[i]
    <3>1. h[i] = Share(r[i], d[i], s, time) /\ g[i] = Share(q[i], e[i], s, time)
      OBVIOUS
    <3> HIDE DEF h, g
    <3>2. CASE i = n
      <4>1. Share(q[n], e[n], s, time) = 0
        BY DEF Share
      <4>2. Share(f, d[n], s, time) = 0
        BY <1>3 DEF Share
      <4> QED BY <1>2, <3>1, <3>2, <4>1, <4>2
    <3>3. CASE i # n
      <4>1. i \in 1..(n - 1)
        BY <1>1, <3>3
      <4> QED BY <1>2, <1>3, <3>1, <4>1
    <3> QED BY <3>2, <3>3
  <2>2. StackTime(r, d, s, time) = SumTo(h, n) /\ StackTime(q, e, s, time) = SumTo(g, n)
    BY <1>2 DEF StackTime
  <2> HIDE DEF g, h
  <2>3. SumTo(h, n) = SumTo(g, n)
    BY ONLY <1>1, <2>1, SumSame
  <2> QED BY <2>2, <2>3
<1> QED BY <1>2, <1>5, <1>6

(* A thread that is not in an append has only its calls to add. *)
LEMMA Idle ==
  ASSUME DispatchInv, TimesInv, NEW t \in Threads, ~Appending(t)
  PROVE  /\ append[t] \in AppendState /\ append[t].step = "none"
         /\ append' = append => append' = [append EXCEPT ![t] = append[t]]
         /\ \A q, e : EndsInCall(q, e, append[t], now)
         /\ \A s : AppendTime(append[t], s) = 0
         /\ \A s : DueOf(t, s) = StackTime(stack[t], enter_time[t], s, now)
         /\ \A q \in Seq(Frame), e \in Seq(Nat) : \A s :
              Timed(q, e, now) => Due(q, e, append[t], s, now) = StackTime(q, e, s, now)
<1>1. append[t] \in AppendState /\ append[t].step = "none" /\ append \in [Threads -> AppendState]
  BY DEF TimesInv, TimesTypeOK, Appending
<1>2. \A q, e : EndsInCall(q, e, append[t], now)
  BY <1>1 DEF EndsInCall
<1>3. \A s : AppendTime(append[t], s) = 0
  BY <1>1 DEF AppendTime
<1>4. \A q \in Seq(Frame), e \in Seq(Nat) : \A s :
        Timed(q, e, now) => Due(q, e, append[t], s, now) = StackTime(q, e, s, now)
  <2> SUFFICES ASSUME NEW q \in Seq(Frame), NEW e \in Seq(Nat), NEW s, Timed(q, e, now)
               PROVE  Due(q, e, append[t], s, now) = StackTime(q, e, s, now)
    OBVIOUS
  <2>1. StackTime(q, e, s, now) \in Int
    BY StackInt, ThreadValues DEF Timed
  <2> QED BY <1>3, <2>1 DEF Due
<1>5. \A s : DueOf(t, s) = StackTime(stack[t], enter_time[t], s, now)
  BY <1>4, ThreadValues DEF DueOf
<1>6. append' = append => append' = [append EXCEPT ![t] = append[t]]
  BY <1>1
<1> QED BY <1>1, <1>2, <1>3, <1>4, <1>5, <1>6

LEMMA PushStep ==
  ASSUME DispatchInv, TimesInv, NEW t \in Threads, ~Appending(t), NEW f \in Frame,
         Push(t, f), StartTimer(t)
  PROVE  TimesInv'
<1> DEFINE q == Append(stack[t], f)
           e == Append(enter_time[t], now)
           a == append[t]
<1>1. /\ stack' = [stack EXCEPT ![t] = q] /\ enter_time' = [enter_time EXCEPT ![t] = e]
      /\ UNCHANGED <<now, append, transition_times, inside, spoiled>>
  BY DEF Push, StartTimer
<1>2. /\ q \in Seq(Frame) /\ e \in Seq(Nat) /\ Timed(q, e, now)
      /\ \A s : StackTime(q, e, s, now) = StackTime(stack[t], enter_time[t], s, now)
  BY ThreadValues, PushTimed
<1>3. /\ a \in AppendState /\ a.step # "write" /\ EndsInCall(q, e, a, now)
      /\ append' = [append EXCEPT ![t] = a]
  BY <1>1, Idle
<1> HIDE DEF q, e
<1>4. \A s \in Sandboxes : Due(q, e, a, s, now) = DueOf(t, s)
  BY <1>2, Idle
<1> HIDE DEF a
<1> QED BY <1>1, <1>2, <1>3, <1>4, CallStep

LEMMA TimedInvokeStep ==
  ASSUME DispatchInv, TimesInv, NEW t \in Threads, NEW s \in Sandboxes, ~Appending(t),
         TimedInvoke(t, s)
  PROVE  TimesInv'
<1> DEFINE f == InvokeFrame(s, thread_data[t].sandbox)
<1>1. Push(t, f) /\ StartTimer(t)
  BY DEF TimedInvoke, Invoke
<1>2. f \in Frame
  BY Values, DataFacts, FrameFacts
<1> HIDE DEF f
<1> QED BY <1>1, <1>2, PushStep

LEMMA TimedTrampolineStep ==
  ASSUME DispatchInv, TimesInv, NEW t \in Threads, NEW n \in Slots, ~Appending(t),
         TimedTrampoline(t, n)
  PROVE  TimesInv'
<1>1. Push(t, TrampolineFrame(n)) /\ StartTimer(t)
  BY DEF TimedTrampoline, CallTrampoline
<1> QED BY <1>1, PushStep, FrameFacts

(* The frame of a thread that dispatches is replaced, at its time or anew. *)
LEMMA ReplaceStep ==
  ASSUME DispatchInv, TimesInv, NEW t \in Threads, ~Appending(t),
         Dispatching(stack[t]), NEW f \in Frame, NEW e,
         stack' = [stack EXCEPT ![t] = [stack[t] EXCEPT ![Len(stack[t])] = f]],
         \/ f.kind = "interceptor" /\ e = enter_time[t]
         \/ f.kind = "callback" /\ e = [enter_time[t] EXCEPT ![Len(stack[t])] = now],
         enter_time' = [enter_time EXCEPT ![t] = e],
         UNCHANGED <<now, append, transition_times, inside, spoiled>>
  PROVE  TimesInv'
<1> DEFINE q == [stack[t] EXCEPT ![Len(stack[t])] = f]
           a == append[t]
<1>1. /\ Len(stack[t]) > 0 /\ stack[t][Len(stack[t])].kind \in {"trampoline", "interceptor"}
      /\ stack[t] \in Seq(Frame) /\ enter_time[t] \in Seq(Nat) /\ now \in Nat
      /\ Len(stack[t]) \in 1..Len(enter_time[t])
      /\ Timed(stack[t], enter_time[t], now)
  BY ThreadValues DEF Dispatching
<1>2. e \in Seq(Nat)
  BY <1>1, ExceptSeq
<1>3. /\ q \in Seq(Frame) /\ Timed(q, e, now)
      /\ \A s : StackTime(q, e, s, now) = StackTime(stack[t], enter_time[t], s, now)
  <2> DEFINE p == stack[t]
             d == enter_time[t]
             n == Len(p)
  <2>1. /\ p \in Seq(Frame) /\ n > 0 /\ p[n].kind \in {"trampoline", "interceptor"}
        /\ d \in Seq(Nat) /\ now \in Nat /\ Timed(p, d, now)
    BY <1>1
  <2>2. /\ q \in Seq(Frame) /\ Len(q) = n /\ q[n] = f
        /\ \A i \in 1..(n - 1) : q[i] = p[i]
    BY <1>1, ReplaceFacts
  <2>3. /\ Len(e) = n /\ e[n] \in {d[n], now}
        /\ \A i \in 1..(n - 1) : e[i] = d[i]
        /\ f.kind \in {"interceptor", "callback"} /\ (f.kind = "callback" => e[n] = now)
    BY <1>1, ExceptSeq DEF Timed
  <2> HIDE DEF p, d, q
  <2>4. Timed(q, e, now) /\ \A s : StackTime(q, e, s, now) = StackTime(p, d, s, now)
    BY ONLY <1>2, <2>1, <2>2, <2>3, ReplaceTimed
  <2> QED BY <2>2, <2>4 DEF p, d
<1>4. /\ a \in AppendState /\ a.step # "write" /\ EndsInCall(q, e, a, now)
      /\ append' = [append EXCEPT ![t] = a]
  BY Idle
<1> HIDE DEF q
<1>5. \A s \in Sandboxes : Due(q, e, a, s, now) = DueOf(t, s)
  BY <1>2, <1>3, Idle
<1> HIDE DEF a
<1> QED BY <1>2, <1>3, <1>4, <1>5, CallStep DEF q

LEMMA TimedCallbackStep ==
  ASSUME DispatchInv, TimesInv, NEW t \in Threads, ~Appending(t), TimedCallback(t)
  PROVE  TimesInv'
<1> DEFINE s == Owner(stack[t])
           k == callback_unique_keys[s][Running(t).slot]
           f == CallbackFrame(Running(t), s, k)
           e == [enter_time[t] EXCEPT ![Len(stack[t])] = now]
<1>1. /\ s \in Sandboxes /\ k \in Functions
      /\ stack' = [stack EXCEPT ![t] = [stack[t] EXCEPT ![Len(stack[t])] = f]]
      /\ Running(t) \in Frame /\ Dispatching(stack[t]) /\ Depth(t) = Len(stack[t])
  BY StartCallbackReads DEF TimedCallback
<1>2. f \in Frame /\ f.kind = "callback"
  <2> HIDE DEF s, k
  <2> QED BY <1>1, FrameFacts
<1>3. /\ enter_time' = [enter_time EXCEPT ![t] = e]
      /\ UNCHANGED <<now, append, transition_times, inside, spoiled>>
  BY <1>1 DEF TimedCallback, TimesInv, TimesTypeOK
<1> HIDE DEF f, e
<1> QED BY <1>1, <1>2, <1>3, ReplaceStep DEF e

LEMMA UntimedStep ==
  ASSUME DispatchInv, TimesInv, NEW t \in Threads, ~Appending(t), Untimed(t)
  PROVE  TimesInv'
<1>1. /\ UNCHANGED <<now, enter_time, append, transition_times, inside, spoiled>>
      /\ enter_time' = [enter_time EXCEPT ![t] = enter_time[t]]
  BY DEF Untimed, timeVars, TimesInv, TimesTypeOK
<1>2. CASE EnterInterceptor(t)
  <2> DEFINE f == InterceptorFrame(Running(t))
  <2>1. /\ Dispatching(stack[t]) /\ Running(t) \in Frame /\ Depth(t) = Len(stack[t])
        /\ Replace(t, f)
    BY <1>2, Values DEF EnterInterceptor, In, Dispatching
  <2>2. f \in Frame /\ f.kind = "interceptor"
    BY <2>1, FrameFacts
  <2> HIDE DEF f
  <2>3. stack' = [stack EXCEPT ![t] = [stack[t] EXCEPT ![Len(stack[t])] = f]]
    BY <2>1 DEF Replace, DispatchInv, TypeOK
  <2> QED BY <1>1, <2>1, <2>2, <2>3, ReplaceStep
<1>3. CASE ~EnterInterceptor(t)
  <2> DEFINE q == stack[t]
             e == enter_time[t]
             a == append[t]
  <2>1. stack' = [stack EXCEPT ![t] = q]
    BY <1>3 DEF Untimed, Register, Unregister, DispatchInv, TypeOK
  <2>2. /\ q \in Seq(Frame) /\ e \in Seq(Nat) /\ a \in AppendState /\ a.step # "write"
        /\ Timed(q, e, now) /\ EndsInCall(q, e, a, now)
        /\ append' = [append EXCEPT ![t] = a]
    BY <1>1, ThreadValues, Idle
  <2>3. \A s \in Sandboxes : Due(q, e, a, s, now) = DueOf(t, s)
    BY DEF DueOf
  <2> HIDE DEF q, e, a
  <2> QED BY <1>1, <2>1, <2>2, <2>3, CallStep DEF e
<1> QED BY <1>2, <1>3

-----------------------------------------------------------------------------
(* A call ends and its record is on its way to the vector. *)
LEMMA EndStep ==
  ASSUME DispatchInv, TimesInv, NEW t \in Threads, ~Appending(t), Len(stack[t]) > 0,
         NEW s \in Sandboxes, NEW kind \in {"INVOKE", "CALLBACK"}, NEW time \in Nat,
         Pop(t), BeginAppendOf(t, s, kind, time),
         \A x \in Sandboxes :
           Share(stack[t][Len(stack[t])], enter_time[t][Len(stack[t])], x, now) =
             IF x = s THEN Signed([invoke |-> kind, time |-> time]) ELSE 0,
         kind = "CALLBACK" =>
           /\ Len(stack[t]) > 1 /\ stack[t][Len(stack[t]) - 1].kind = "sandbox"
           /\ stack[t][Len(stack[t]) - 1].sandbox = s
           /\ time + enter_time[t][Len(stack[t]) - 1] <= now
  PROVE  TimesInv'
<1> DEFINE q == SubSeq(stack[t], 1, Len(stack[t]) - 1)
           e == SubSeq(enter_time[t], 1, Len(enter_time[t]) - 1)
           r == [invoke |-> kind, time |-> time]
           a == [step |-> "size", sandbox |-> s, record |-> r, at |-> 0]
           n == Len(stack[t])
<1>1. /\ stack' = [stack EXCEPT ![t] = q] /\ enter_time' = [enter_time EXCEPT ![t] = e]
      /\ append' = [append EXCEPT ![t] = a]
      /\ UNCHANGED <<now, transition_times, inside, spoiled>>
  BY DEF Pop, BeginAppendOf
<1>2. /\ q \in Seq(Frame) /\ e \in Seq(Nat) /\ Timed(q, e, now) /\ Len(q) = n - 1 /\ n \in Nat
      /\ \A i \in 1..(n - 1) : q[i] = stack[t][i] /\ e[i] = enter_time[t][i]
      /\ \A x : StackTime(stack[t], enter_time[t], x, now) =
                  StackTime(q, e, x, now) + Share(stack[t][n], enter_time[t][n], x, now)
  <2> HIDE DEF q, e
  <2> QED BY ThreadValues, PopTimed DEF q, e
<1>3. /\ a \in AppendState /\ a.step = "size" /\ a.sandbox = s /\ a.record = r
      /\ r.invoke = kind /\ r.time = time /\ r \in Record
  BY DEF AppendState, Record
<1> HIDE DEF q, e, a, r
<1>4. EndsInCall(q, e, a, now)
  <2> SUFFICES ASSUME kind = "CALLBACK"
               PROVE  /\ Len(q) > 0 /\ q[Len(q)].kind = "sandbox" /\ q[Len(q)].sandbox = s
                      /\ time + e[Len(q)] <= now
    BY <1>3 DEF EndsInCall
  <2>1. Len(q) > 0 /\ Len(q) = n - 1 /\ n - 1 \in 1..(n - 1)
    BY <1>2
  <2> QED BY <1>2, <2>1
<1>5. ASSUME NEW x \in Sandboxes PROVE Due(q, e, a, x, now) = DueOf(t, x)
  <2>1. AppendTime(a, x) = IF x = s THEN Signed(r) ELSE 0
    BY <1>3 DEF AppendTime
  <2>2. StackTime(stack[t], enter_time[t], x, now) = StackTime(q, e, x, now) + AppendTime(a, x)
    BY <1>2, <2>1 DEF r
  <2> QED BY <2>2, Idle DEF Due
<1>6. a.step # "write"
  BY <1>3
<1> QED BY <1>1, <1>2, <1>3, <1>4, <1>5, <1>6, CallStep

LEMMA TimedEndsStep ==
  ASSUME DispatchInv, TimesInv, NEW t \in Threads, ~Appending(t), TimedEnds(t)
  PROVE  TimesInv'
<1> DEFINE q == stack[t]
           e == enter_time[t]
           n == Len(stack[t])
<1>1. /\ q \in Seq(Frame) /\ WellNested(q) /\ n \in Nat /\ Depth(t) = n /\ now \in Nat
      /\ Len(e) = n /\ Timed(q, e, now) /\ e \in Seq(Nat)
  BY ThreadValues
<1>2. \A i \in 1..n : e[i] \in Nat /\ e[i] <= now /\ (i > 1 => e[i - 1] <= e[i])
  BY <1>1, TimesOf DEF Timed
<1>3. n > 0 /\ n \in 1..n /\ Running(t) = q[n] /\ thread_data[t].sandbox = Owner(q)
  BY <1>1, Values DEF TimedEnds, InvokeEnds, CallbackReturns, CallbackThrows,
                      CallbackParamFails, In, Running, ThreadOK
<1>4. /\ q[n].kind = "sandbox" => q[n].sandbox \in Sandboxes
      /\ q[n].kind # "sandbox" =>
           /\ n > 1 /\ n - 1 \in 1..n /\ q[n - 1].kind = "sandbox"
           /\ q[n - 1].sandbox \in Sandboxes
           /\ q[n].kind = "callback" => q[n].sandbox = q[n - 1].sandbox
  BY <1>1, <1>3 DEF WellNested
<1>5. now - e[n] \in Nat
  BY <1>1, <1>2, <1>3
<1>6. CASE InvokeEnds(t) /\ BeginAppend(t, Running(t).sandbox, "INVOKE")
  <2>1. q[n].kind = "sandbox" /\ Pop(t) /\ BeginAppendOf(t, q[n].sandbox, "INVOKE", now - e[n])
    BY <1>1, <1>3, <1>6 DEF InvokeEnds, In, BeginAppend
  <2>2. \A x \in Sandboxes : Share(q[n], e[n], x, now) =
          IF x = q[n].sandbox THEN Signed([invoke |-> "INVOKE", time |-> now - e[n]]) ELSE 0
    BY <2>1 DEF Share, Signed
  <2> HIDE DEF q, e, n
  <2> QED BY <1>3, <1>4, <1>5, <2>1, <2>2, EndStep DEF q, e, n
<1>7. CASE /\ CallbackReturns(t) \/ CallbackThrows(t)
           /\ BeginAppend(t, Running(t).sandbox, "CALLBACK")
  <2>1. q[n].kind = "callback" /\ Pop(t) /\ BeginAppendOf(t, q[n].sandbox, "CALLBACK", now - e[n])
    BY <1>1, <1>3, <1>7 DEF CallbackReturns, CallbackThrows, In, BeginAppend
  <2>2. ASSUME NEW x \in Sandboxes
        PROVE  Share(q[n], e[n], x, now) =
          IF x = q[n].sandbox THEN Signed([invoke |-> "CALLBACK", time |-> now - e[n]]) ELSE 0
    <3>1. e[n] - now = -(now - e[n])
      BY <1>1, <1>2, <1>3
    <3> QED BY <2>1, <3>1 DEF Share, Signed
  <2>3. (now - e[n]) + e[n - 1] <= now
    <3>1. e[n] \in Nat /\ e[n - 1] \in Nat /\ e[n - 1] <= e[n]
      BY <1>2, <1>3, <1>4, <2>1
    <3> QED BY <1>1, <3>1
  <2> HIDE DEF q, e, n
  <2> QED BY <1>3, <1>4, <1>5, <2>1, <2>2, <2>3, EndStep DEF q, e, n
<1>8. CASE CallbackParamFails(t) /\ BeginAppendOf(t, thread_data[t].sandbox, "CALLBACK", 0)
  <2>1. q[n].kind = "interceptor" /\ Pop(t)
    BY <1>1, <1>3, <1>8 DEF CallbackParamFails, In
  <2>2. thread_data[t].sandbox = q[n - 1].sandbox
    BY <1>3, <2>1 DEF Owner, Dispatching
  <2>3. \A x \in Sandboxes : Share(q[n], e[n], x, now) =
          IF x = q[n - 1].sandbox THEN Signed([invoke |-> "CALLBACK", time |-> 0]) ELSE 0
    <3>1. \A r \in Record : r.invoke = "CALLBACK" => Signed(r) = 0 - r.time
      BY DEF Signed, Record
    <3>2. Signed([invoke |-> "CALLBACK", time |-> 0]) = 0
      BY <3>1 DEF Record
    <3> QED BY <2>1, <3>2 DEF Share
  <2>4. 0 + e[n - 1] <= now
    <3>1. e[n - 1] \in Nat /\ e[n - 1] <= now
      BY <1>2, <1>4, <2>1
    <3> QED BY <3>1
  <2>5. BeginAppendOf(t, q[n - 1].sandbox, "CALLBACK", 0)
    BY <1>8, <2>2
  <2> HIDE DEF q, e, n
  <2> QED BY <1>3, <1>4, <2>1, <2>3, <2>4, <2>5, EndStep DEF q, e, n
<1> QED BY <1>6, <1>7, <1>8 DEF TimedEnds

-----------------------------------------------------------------------------
(* Time passes, for the sum of s once per thread that is in it. *)
LEMMA PendingTick ==
  ASSUME DispatchInv, TimesInv, Tick, NEW s \in Sandboxes
  PROVE  Pending(s)' = Pending(s) + Cardinality({t \in Threads : InsideOf(t, s)})
<1> DEFINE P == {t \in Threads : InsideOf(t, s)}
           f == [t \in Threads |-> DueOf(t, s)]
           g == [t \in Threads |-> IF t \in P THEN 1 ELSE 0]
           h == [t \in Threads |-> DueOf(t, s)']
<1>1. ASSUME NEW t \in Threads
      PROVE  f[t] \in Int /\ g[t] \in Int /\ h[t] = f[t] + g[t]
  <2> DEFINE x == IF OnSandboxSide(stack[t]) /\ Owner(stack[t]) = s THEN 1 ELSE 0
             old == StackTime(stack[t], enter_time[t], s, now)
             new == StackTime(stack[t], enter_time[t], s, now + 1)
             a == AppendTime(append[t], s)
  <2>1. f[t] = old + a /\ h[t] = new + a
    BY DEF Tick, vars, DueOf, Due
  <2>2. InsideOf(t, s) <=> OnSandboxSide(stack[t]) /\ Owner(stack[t]) = s
    BY WhereStackIs DEF InsideOf
  <2>3. g[t] = x
    BY <2>2
  <2>4. new = old + x
    BY ThreadValues, StackTick
  <2>5. old \in Int /\ a \in Int
    BY ThreadValues, DueInt
  <2>6. x \in Int
    OBVIOUS
  <2> HIDE DEF f, g, h, x, old, new, a
  <2> QED BY <2>1, <2>3, <2>4, <2>5, <2>6
<1>2. \A t \in Threads : g[t] = IF t \in P THEN 1 ELSE 0
  OBVIOUS
<1>3. P \in SUBSET Threads
  OBVIOUS
<1> HIDE DEF P, f, g, h
<1>4. SumOver(h) = SumOver(f) + SumOver(g)
  BY ONLY <1>1, OverAdd
<1>5. SumOver(g) = Cardinality(P)
  BY ONLY <1>2, <1>3, OverCounts
<1> QED BY <1>4, <1>5 DEF Pending, P, f, h

LEMMA TickStep == ASSUME DispatchInv, TimesInv, Tick PROVE TimesInv'
<1> DEFINE C(s) == Cardinality({t \in Threads : InsideOf(t, s)})
<1>1. ASSUME NEW s \in Sandboxes PROVE C(s) \in Nat /\ inside'[s] = inside[s] + C(s)
  <2>1. {t \in Threads : InsideOf(t, s)} \subseteq Threads
    OBVIOUS
  <2>2. C(s) \in Nat
    BY <2>1, ThreadsAssumption, FS_Subset, FS_CardinalityType
  <2> QED BY <2>2 DEF Tick
<1>2. TimesTypeOK'
  <2>1. inside' = [s \in Sandboxes |-> inside[s] + C(s)]
    BY DEF Tick
  <2>2. \A s \in Sandboxes : inside[s] + C(s) \in Nat
    <3> HIDE DEF C
    <3> QED BY <1>1 DEF TimesInv, TimesTypeOK
  <2>3. inside' \in [Sandboxes -> Nat]
    <3> HIDE DEF C
    <3> QED BY <2>1, <2>2
  <2> QED BY <2>3 DEF Tick, TimesInv, TimesTypeOK
<1>3. ASSUME NEW t \in Threads PROVE ThreadTimed(t)'
  <2> DEFINE q == stack[t]
             e == enter_time[t]
             a == append[t]
  <2>1. /\ Timed(q, e, now) /\ EndsInCall(q, e, a, now) /\ now \in Nat /\ a \in AppendState
        /\ Len(q) \in Nat /\ Len(e) = Len(q) /\ \A i \in 1..Len(q) : e[i] \in Nat
    BY ThreadValues, TimesOf
  <2>2. q' = q /\ e' = e /\ a' = a /\ now' = now + 1
    BY DEF Tick, vars
  <2> HIDE DEF q, e, a
  <2>3. Timed(q, e, now + 1)
    <3> SUFFICES ASSUME NEW i \in 1..Len(q)
                 PROVE  e[i] <= now + 1 /\ (i > 1 => e[i - 1] <= e[i])
      BY <2>1 DEF Timed
    <3>1. e[i] \in Nat /\ e[i] <= now /\ (i > 1 => e[i - 1] <= e[i])
      BY <2>1 DEF Timed
    <3> QED BY <2>1, <3>1
  <2>4. EndsInCall(q, e, a, now + 1)
    <3> SUFFICES ASSUME a.step # "none" /\ a.record.invoke = "CALLBACK"
                 PROVE  /\ Len(q) > 0 /\ q[Len(q)].kind = "sandbox" /\ q[Len(q)].sandbox = a.sandbox
                        /\ a.record.time + e[Len(q)] <= now + 1
      BY DEF EndsInCall
    <3>1. /\ Len(q) > 0 /\ q[Len(q)].kind = "sandbox" /\ q[Len(q)].sandbox = a.sandbox
          /\ a.record.time + e[Len(q)] <= now
      BY <2>1 DEF EndsInCall
    <3>2. a.record.time \in Nat /\ e[Len(q)] \in Nat
      BY <2>1, <3>1, AppendFacts
    <3> QED BY <2>1, <3>1, <3>2
  <2> QED BY <2>2, <2>3, <2>4 DEF ThreadTimed, q, e, a
<1>4. ASSUME NEW s \in Sandboxes PROVE Balanced(s)'
  <2>1. Pending(s)' = Pending(s) + C(s)
    BY PendingTick
  <2>2. /\ Total(s)' = Total(s) /\ spoiled'[s] = spoiled[s]
        /\ WritesAtEnd(s) => WritesAtEnd(s)'
    BY DEF Tick, Total, WritesAtEnd, Writing, AppendingTo, Appending
  <2>3. Balanced(s) /\ Total(s) \in Int /\ Pending(s) \in Nat /\ inside[s] \in Nat
    BY SandboxValues DEF TimesInv
  <2>4. C(s) \in Nat /\ inside'[s] = inside[s] + C(s)
    BY <1>1
  <2> HIDE DEF C
  <2> QED BY <2>1, <2>2, <2>3, <2>4 DEF Balanced
<1> QED BY <1>2, <1>3, <1>4 DEF TimesInv

-----------------------------------------------------------------------------
(* The two steps of an append, and the clear. *)
LEMMA ReadSizeStep ==
  ASSUME DispatchInv, TimesInv, NEW t \in Threads, ReadSize(t)
  PROVE  TimesInv'
<1> DEFINE s == append[t].sandbox
           a == [append[t] EXCEPT !.step = "write", !.at = Len(transition_times[s]) + 1]
<1>1. append[t] \in AppendState /\ append[t].step = "size" /\ append \in [Threads -> AppendState]
  BY DEF ReadSize, TimesInv, TimesTypeOK
<1>2. s \in Sandboxes /\ Len(transition_times[s]) \in Nat
  BY <1>1, AppendFacts, SandboxValues
<1>3. /\ a \in AppendState /\ a.step = "write" /\ a.sandbox = s /\ a.record = append[t].record
      /\ a.at = Len(transition_times[s]) + 1
  <2>1. append[t] \in [step : {"size", "write"}, sandbox : Sandboxes, record : Record, at : Nat]
    BY <1>1 DEF AppendState, NoAppend
  <2>2. \A b \in [step : {"size", "write"}, sandbox : Sandboxes, record : Record, at : Nat],
           k \in Nat :
          LET c == [b EXCEPT !.step = "write", !.at = k]
          IN /\ c \in AppendState /\ c.step = "write" /\ c.sandbox = b.sandbox
             /\ c.record = b.record /\ c.at = k
    BY DEF AppendState
  <2>3. Len(transition_times[s]) + 1 \in Nat
    BY <1>2
  <2> QED BY <2>1, <2>2, <2>3
<1>4. append' = [append EXCEPT ![t] = a]
  BY <1>1 DEF ReadSize
<1>5. /\ UNCHANGED <<stack, now, enter_time, transition_times, inside>>
      /\ spoiled' = [spoiled EXCEPT ![s] =
           IF \E u \in Threads : Writing(u, s) THEN "raced" ELSE @]
  BY DEF ReadSize, vars
<1> HIDE DEF a
<1>6. \A u \in Threads : append'[u] = IF u = t THEN a ELSE append[u]
  BY <1>1, <1>4
<1>7. TimesTypeOK'
  BY <1>2, <1>3, <1>4, <1>5 DEF TimesInv, TimesTypeOK
<1>8. ASSUME NEW u \in Threads PROVE ThreadTimed(u)'
  <2>1. ThreadTimed(u)
    BY DEF TimesInv
  <2> QED BY <1>1, <1>3, <1>5, <1>6, <2>1 DEF ThreadTimed, EndsInCall
<1>9. ASSUME NEW u \in Threads, NEW r PROVE DueOf(u, r)' = DueOf(u, r)
  BY <1>1, <1>3, <1>5, <1>6 DEF DueOf, Due, AppendTime
<1>10. ASSUME NEW r \in Sandboxes PROVE Balanced(r)'
  <2>1. Pending(r)' = Pending(r)
    BY <1>9, PendingKept
  <2>2. Total(r)' = Total(r) /\ inside'[r] = inside[r] /\ transition_times'[r] = transition_times[r]
    BY <1>5 DEF Total
  <2>3. Balanced(r)
    BY DEF TimesInv
  <2>4. \A u \in Threads : Writing(u, r)' <=> Writing(u, r) \/ (u = t /\ r = s)
    BY <1>1, <1>3, <1>6 DEF Writing, AppendingTo, Appending
  <2>5. spoiled'[r] = IF r = s /\ \E u \in Threads : Writing(u, r) THEN "raced" ELSE spoiled[r]
    BY <1>2, <1>5 DEF TimesInv, TimesTypeOK
  <2>6. WritesAtEnd(r) /\ spoiled'[r] # "raced" => WritesAtEnd(r)'
    <3>1. CASE r = s
      BY <1>3, <1>6, <2>2, <2>4, <2>5, <3>1 DEF WritesAtEnd
    <3>2. CASE r # s
      <4>1. \A u \in Threads : Writing(u, r) => append'[u] = append[u]
        BY <1>1, <1>6, <3>2 DEF Writing, AppendingTo
      <4> QED BY <2>2, <2>4, <3>2, <4>1 DEF WritesAtEnd
    <3> QED BY <3>1, <3>2
  <2> QED BY <2>1, <2>2, <2>3, <2>5, <2>6 DEF Balanced
<1> QED BY <1>7, <1>8, <1>10 DEF TimesInv

LEMMA MinOf == ASSUME NEW n \in Int, NEW m \in Int PROVE Min({n, m}) = IF n <= m THEN n ELSE m
BY DEF Min

LEMMA WriteRecordStep ==
  ASSUME DispatchInv, TimesInv, NEW t \in Threads, WriteRecord(t)
  PROVE  TimesInv'
<1> DEFINE s == append[t].sandbox
           n == append[t].at
           record == append[t].record
           old == transition_times[s]
           kept == SubSeq(old, 1, Min({n - 1, Len(old)}))
<1>1. append[t] \in AppendState /\ append[t].step = "write" /\ append \in [Threads -> AppendState]
  BY DEF WriteRecord, TimesInv, TimesTypeOK
<1>2. /\ s \in Sandboxes /\ record \in Record /\ n \in Nat
      /\ old \in Seq(Record) /\ Len(old) \in Nat
  BY <1>1, AppendFacts, SandboxValues
<1>3. /\ transition_times' = [transition_times EXCEPT ![s] = Append(kept, record)]
      /\ append' = [append EXCEPT ![t] = NoAppend]
      /\ UNCHANGED <<stack, now, enter_time, inside, spoiled>>
  BY DEF WriteRecord, vars
<1>4. \A u \in Threads : append'[u] = IF u = t THEN NoAppend ELSE append[u]
  BY <1>1, <1>3
<1>5. kept \in Seq(Record) /\ (n = Len(old) + 1 => kept = old)
  <2> DEFINE m == Min({n - 1, Len(old)})
  <2>1. m \in Int /\ m <= Len(old) /\ (n = Len(old) + 1 => m = Len(old))
    <3>1. n - 1 \in Int /\ Len(old) \in Int
      BY <1>2
    <3>2. m = IF n - 1 <= Len(old) THEN n - 1 ELSE Len(old)
      BY <3>1, MinOf
    <3> HIDE DEF m, n, old
    <3> QED BY <1>2, <3>2
  <2> HIDE DEF m
  <2>2. SubSeq(old, 1, m) \in Seq(Record)
    <3>1. \A i \in 1..m : old[i] \in Record
      BY <1>2, <2>1, ElementOfSeq
    <3> QED BY <2>1, <3>1, SubSeqProperties
  <2>3. n = Len(old) + 1 => SubSeq(old, 1, m) = old
    <3>1. SubSeq(old, 1, Len(old)) = old
      BY <1>2, SubSeqFull
    <3> QED BY <2>1, <3>1
  <2> QED BY <2>2, <2>3 DEF m
<1>6. Append(kept, record) \in Seq(Record)
  BY <1>2, <1>5, AppendProperties
<1> HIDE DEF kept
<1>7. TimesTypeOK'
  BY <1>2, <1>3, <1>6, AppendFacts DEF TimesInv, TimesTypeOK
<1>8. ASSUME NEW u \in Threads PROVE ThreadTimed(u)'
  <2>1. ThreadTimed(u)
    BY DEF TimesInv
  <2> QED BY <1>3, <1>4, <2>1, AppendFacts DEF ThreadTimed, EndsInCall
<1>9. ASSUME NEW r \in Sandboxes PROVE Balanced(r)'
  <2> DEFINE x == AppendTime(append[t], r)
             f == [u \in Threads |-> DueOf(u, r)]
             g == [u \in Threads |-> DueOf(u, r)']
  <2>1. x = IF r = s THEN Signed(record) ELSE 0
    BY <1>1 DEF AppendTime
  <2>2. x \in Int /\ DueOf(t, r) \in Int /\ DueOf(t, r)' = DueOf(t, r) - x
    <3>1. AppendTime(NoAppend, r) = 0
      BY AppendFacts DEF AppendTime
    <3>2. StackTime(stack[t], enter_time[t], r, now) \in Int /\ x \in Int
      BY ThreadValues, DueInt
    <3>3. /\ DueOf(t, r) = StackTime(stack[t], enter_time[t], r, now) + x
          /\ DueOf(t, r)' = StackTime(stack[t], enter_time[t], r, now) + 0
      BY <1>3, <1>4, <3>1 DEF DueOf, Due
    <3> HIDE DEF x
    <3> QED BY <3>2, <3>3
  <2>3. ASSUME NEW u \in Threads
        PROVE  f[u] \in Int /\ g[u] \in Int /\ (u # t => g[u] = f[u])
    <3>1. f[u] = DueOf(u, r) /\ g[u] = DueOf(u, r)' /\ DueOf(u, r) \in Int
      BY ThreadValues
    <3>2. u # t => DueOf(u, r)' = DueOf(u, r)
      BY <1>3, <1>4 DEF DueOf
    <3> HIDE DEF f, g, x
    <3> QED BY <2>2, <3>1, <3>2
  <2>4. f[t] = DueOf(t, r) /\ g[t] = DueOf(t, r)'
    OBVIOUS
  <2>0. t \in Threads
    OBVIOUS
  <2> HIDE DEF f, g, x
  <2>5. SumOver(g) = SumOver(f) + g[t] - f[t]
    BY ONLY <2>0, <2>3, OverUpdate
  <2>6. Pending(r) = SumOver(f) /\ Pending(r)' = SumOver(g)
    BY DEF Pending, f, g
  <2>7. Balanced(r) /\ Total(r) \in Int /\ Pending(r) \in Nat /\ inside[r] \in Nat
    BY SandboxValues DEF TimesInv
  <2>8. Pending(r)' = Pending(r) - x
    BY <2>2, <2>4, <2>5, <2>6, <2>7
  <2>9. \A u \in Threads : Writing(u, r)' => Writing(u, r) /\ u # t
    BY <1>4, AppendFacts DEF Writing, AppendingTo, Appending
  <2>10. CASE r # s
    <3>1. x = 0 /\ transition_times'[r] = transition_times[r]
      BY <1>3, <2>1, <2>10
    <3>2. Pending(r)' = Pending(r)
      BY <2>7, <2>8, <3>1
    <3> QED BY <1>3, <1>4, <2>9, <3>1, <3>2, BalanceKept
  <2>11. CASE r = s /\ spoiled[r] # "raced"
    <3>1. Writing(t, r) /\ WritesAtEnd(r)
      BY <1>1, <2>7, <2>11 DEF Writing, AppendingTo, Appending, Balanced
    <3>2. n = Len(old) + 1 /\ \A u \in Threads : Writing(u, r) => u = t
      BY <2>11, <3>1 DEF WritesAtEnd
    <3>3. transition_times'[r] = Append(old, record)
      BY <1>2, <1>3, <1>5, <2>11, <3>2 DEF TimesInv, TimesTypeOK
    <3>4. Total(r)' = TotalOf(transition_times'[r])
      BY DEF Total, TotalOf
    <3>5. Total(r)' = Total(r) + x
      BY <1>2, <2>1, <2>11, <3>3, <3>4, TotalAppend, SandboxValues
    <3>6. WritesAtEnd(r)'
      BY <2>9, <3>2 DEF WritesAtEnd
    <3>7. spoiled'[r] = spoiled[r] /\ inside'[r] = inside[r]
      BY <1>3
    <3>8. Total(r)' + Pending(r)' = Total(r) + Pending(r)
      BY <2>2, <2>7, <2>8, <3>5
    <3> QED BY <2>7, <3>6, <3>7, <3>8 DEF Balanced
  <2>12. CASE r = s /\ spoiled[r] = "raced"
    BY <1>3, <2>12 DEF Balanced
  <2> QED BY <2>10, <2>11, <2>12
<1> QED BY <1>7, <1>8, <1>9 DEF TimesInv

(* With no call about s in progress nothing is left to add to its total. *)
LEMMA NothingPending ==
  ASSUME DispatchInv, TimesInv, NEW s, NoCallIn(s)
  PROVE  Pending(s) = 0
<1> DEFINE f == [t \in Threads |-> DueOf(t, s)]
<1>1. ASSUME NEW t \in Threads PROVE f[t] = 0
  <2>1. /\ stack[t] \in Seq(Frame) /\ WellNested(stack[t]) /\ Depth(t) = Len(stack[t])
        /\ ~CallsIn(t, s) /\ ~AppendingTo(t, s)
    BY ThreadValues DEF NoCallIn
  <2>2. StackTime(stack[t], enter_time[t], s, now) = 0
    BY <2>1, StackNone DEF CallsIn
  <2>3. AppendTime(append[t], s) = 0
    BY <2>1 DEF AppendTime, AppendingTo, Appending
  <2> QED BY <2>2, <2>3 DEF DueOf, Due
<1> HIDE DEF f
<1>2. SumOver(f) = 0
  BY ONLY <1>1, OverZero
<1> QED BY <1>2 DEF Pending, f

LEMMA ClearStep ==
  ASSUME DispatchInv, TimesInv, NEW t \in Threads, NEW s \in Sandboxes, Clear(t, s)
  PROVE  TimesInv'
<1> DEFINE mark == CASE \E u \in Threads : Writing(u, s) -> "raced"
                     [] NoCallIn(s)                      -> "no"
                     [] OTHER                            -> "cleared"
<1>1. /\ transition_times' = [transition_times EXCEPT ![s] = <<>>]
      /\ inside' = [inside EXCEPT ![s] = 0]
      /\ spoiled' = [spoiled EXCEPT ![s] = mark]
      /\ UNCHANGED <<stack, now, enter_time, append>>
  BY DEF Clear, vars
<1>2. /\ mark \in {"no", "cleared", "raced"}
      /\ mark # "raced" => ~\E u \in Threads : Writing(u, s)
      /\ mark = "no" => NoCallIn(s)
  <2> DEFINE W == \E u \in Threads : Writing(u, s)
             N == NoCallIn(s)
  <2>1. W => ~N
    BY DEF Writing, NoCallIn
  <2>2. mark = CASE W -> "raced" [] N -> "no" [] OTHER -> "cleared"
    BY DEF mark
  <2> HIDE DEF W, N, mark
  <2>3. CASE W
    <3>1. mark = "raced"
      BY ONLY <2>1, <2>2, <2>3, Zenon
    <3> QED BY <3>1, <2>3
  <2>4. CASE N
    <3>1. mark = "no"
      BY ONLY <2>1, <2>2, <2>4, Zenon
    <3> QED BY <2>1, <2>4, <3>1 DEF W, N
  <2>5. CASE ~W /\ ~N
    <3>1. mark = "cleared"
      BY ONLY <2>2, <2>5, Zenon
    <3> QED BY <2>5, <3>1 DEF W, N
  <2> QED BY <2>3, <2>4, <2>5
<1> HIDE DEF mark
<1>3. TimesTypeOK'
  BY <1>1, <1>2, TotalEmpty DEF TimesInv, TimesTypeOK
<1>4. ASSUME NEW u \in Threads PROVE ThreadTimed(u)'
  BY <1>1 DEF TimesInv, ThreadTimed
<1>5. ASSUME NEW r \in Sandboxes PROVE Balanced(r)'
  <2>1. ASSUME NEW u \in Threads PROVE DueOf(u, r)' = DueOf(u, r)
    BY <1>1 DEF DueOf
  <2>2. Pending(r)' = Pending(r)
    BY <2>1, PendingKept
  <2>3. \A u \in Threads : Writing(u, r)' <=> Writing(u, r)
    BY <1>1 DEF Writing, AppendingTo, Appending
  <2>4. CASE r # s
    <3>1. /\ transition_times'[r] = transition_times[r] /\ inside'[r] = inside[r]
          /\ spoiled'[r] = spoiled[r]
      BY <1>1, <2>4
    <3> QED BY <1>1, <2>2, <2>3, <3>1, BalanceKept
  <2>5. CASE r = s
    <3>1. /\ transition_times'[r] = <<>> /\ inside'[r] = 0 /\ spoiled'[r] = mark
      BY <1>1, <2>5 DEF TimesInv, TimesTypeOK
    <3>2. Total(r)' = 0
      BY <3>1, TotalEmpty DEF Total, TotalOf
    <3>3. Pending(r) \in Nat /\ (mark = "no" => Pending(r) = 0)
      BY <1>2, <2>5, SandboxValues, NothingPending
    <3>4. mark # "raced" => WritesAtEnd(r)'
      BY <1>2, <2>3, <2>5 DEF WritesAtEnd
    <3> QED BY <2>2, <3>1, <3>2, <3>3, <3>4 DEF Balanced
  <2> QED BY <2>4, <2>5
<1> QED BY <1>3, <1>4, <1>5 DEF TimesInv

-----------------------------------------------------------------------------
LEMMA TimesInitially == TimesInit => TimesInv
<1> SUFFICES ASSUME TimesInit PROVE TimesInv
  OBVIOUS
<1>1. TimesTypeOK
  BY AppendFacts, TotalEmpty, EmptySeq DEF TimesInit, TimesTypeOK
<1>2. \A t \in Threads : /\ stack[t] = <<>> /\ enter_time[t] = <<>> /\ append[t] = NoAppend
                         /\ Len(stack[t]) = 0 /\ Len(enter_time[t]) = 0
  BY EmptySeq DEF TimesInit, Init
<1>3. ASSUME NEW t \in Threads PROVE ThreadTimed(t)
  BY <1>2, AppendFacts DEF ThreadTimed, Timed, EndsInCall
<1>4. ASSUME NEW s \in Sandboxes PROVE Balanced(s)
  <2> DEFINE f == [t \in Threads |-> DueOf(t, s)]
  <2>1. ASSUME NEW t \in Threads PROVE f[t] = 0
    <3>1. AppendTime(append[t], s) = 0
      BY <1>2, AppendFacts DEF AppendTime
    <3>2. StackTime(stack[t], enter_time[t], s, now) = 0
      BY <1>2, SumRec DEF StackTime
    <3> QED BY <3>1, <3>2 DEF DueOf, Due
  <2> HIDE DEF f
  <2>2. SumOver(f) = 0
    BY ONLY <2>1, OverZero
  <2>3. Pending(s) = 0
    BY <2>2 DEF Pending, f
  <2>4. Total(s) = 0 /\ inside[s] = 0
    BY TotalEmpty DEF TimesInit, Total, TotalOf
  <2>5. WritesAtEnd(s)
    BY <1>2, AppendFacts DEF WritesAtEnd, Writing, AppendingTo, Appending
  <2> QED BY <2>3, <2>4, <2>5 DEF Balanced
<1> QED BY <1>1, <1>3, <1>4 DEF TimesInv

LEMMA TimesStep == DispatchInv /\ TimesInv /\ [TimesNext]_allVars => TimesInv'
<1> SUFFICES ASSUME DispatchInv, TimesInv, [TimesNext]_allVars PROVE TimesInv'
  OBVIOUS
<1>1. CASE Tick
  BY <1>1, TickStep
<1>2. ASSUME NEW t \in Threads, ReadSize(t) PROVE TimesInv'
  BY <1>2, ReadSizeStep
<1>3. ASSUME NEW t \in Threads, WriteRecord(t) PROVE TimesInv'
  BY <1>3, WriteRecordStep
<1>4. ASSUME NEW t \in Threads, ~Appending(t), TimedCallback(t) PROVE TimesInv'
  BY <1>4, TimedCallbackStep
<1>5. ASSUME NEW t \in Threads, ~Appending(t), TimedEnds(t) PROVE TimesInv'
  BY <1>5, TimedEndsStep
<1>6. ASSUME NEW t \in Threads, ~Appending(t), Untimed(t) PROVE TimesInv'
  BY <1>6, UntimedStep
<1>7. ASSUME NEW t \in Threads, NEW n \in Slots, ~Appending(t), TimedTrampoline(t, n)
      PROVE  TimesInv'
  BY <1>7, TimedTrampolineStep
<1>8. ASSUME NEW t \in Threads, NEW s \in Sandboxes, ~Appending(t), TimedInvoke(t, s)
      PROVE  TimesInv'
  BY <1>8, TimedInvokeStep
<1>9. ASSUME NEW t \in Threads, NEW s \in Sandboxes, Clear(t, s) PROVE TimesInv'
  BY <1>9, ClearStep
<1>10. CASE UNCHANGED allVars
  <2>1. /\ TimesTypeOK' /\ UNCHANGED <<stack, now, enter_time, append>>
        /\ UNCHANGED <<transition_times, inside, spoiled>>
    BY <1>10 DEF allVars, vars, timeVars, TimesInv, TimesTypeOK
  <2>2. ASSUME NEW t \in Threads PROVE ThreadTimed(t)'
    BY <2>1 DEF TimesInv, ThreadTimed
  <2>3. ASSUME NEW s \in Sandboxes PROVE Balanced(s)'
    <3>1. ASSUME NEW u \in Threads PROVE DueOf(u, s)' = DueOf(u, s)
      BY <2>1 DEF DueOf
    <3>2. Pending(s)' = Pending(s)
      BY <3>1, PendingKept
    <3>3. \A u \in Threads : Writing(u, s)' => Writing(u, s)
      BY <2>1 DEF Writing, AppendingTo, Appending
    <3> QED BY <2>1, <3>2, <3>3, BalanceKept
  <2> QED BY <2>1, <2>2, <2>3 DEF TimesInv
<1> QED BY <1>1, <1>2, <1>3, <1>4, <1>5, <1>6, <1>7, <1>8, <1>9, <1>10 DEF TimesNext

LEMMA TimesInvariant == TimesSpec => [](DispatchInv /\ TimesInv)
<1>1. TimesSpec => []DispatchInv
  BY TimingKeepsCalls, DispatchInvariant, PTL
<1>2. TimesSpec /\ []DispatchInv => []TimesInv
  BY TimesInitially, TimesStep, PTL DEF TimesSpec
<1> QED BY <1>1, <1>2, PTL

-----------------------------------------------------------------------------
(* The types of the clock readings, the records and the appends in progress. *)
THEOREM TimesTypeCorrect == TimesSpec => []TimesTypeOK
<1>1. TimesInv => TimesTypeOK
  BY DEF TimesInv
<1> QED BY <1>1, TimesInvariant, PTL

(* The total of a sandbox that no call is about is the time threads spent in *)
(* it, whatever their calls went through.                                    *)
THEOREM TotalIsRight == TimesSpec => []TotalIsTimeInside
<1>1. ASSUME DispatchInv, TimesInv PROVE TotalIsTimeInside
  <2> SUFFICES ASSUME NEW s \in Sandboxes, NoCallIn(s), spoiled[s] = "no"
               PROVE  Total(s) = inside[s]
    BY DEF TotalIsTimeInside
  <2>1. Total(s) + Pending(s) = inside[s]
    BY <1>1 DEF TimesInv, Balanced
  <2>2. Pending(s) = 0 /\ Total(s) \in Int
    BY <1>1, NothingPending, SandboxValues
  <2> QED BY <2>1, <2>2
<1> QED BY <1>1, TimesInvariant, PTL

(* A clear in the middle of calls never makes that total too small. *)
THEOREM TotalIsEnough == TimesSpec => []TotalNeverShort
<1>1. ASSUME DispatchInv, TimesInv PROVE TotalNeverShort
  <2> SUFFICES ASSUME NEW s \in Sandboxes, NoCallIn(s), spoiled[s] # "raced"
               PROVE  Total(s) >= inside[s]
    BY DEF TotalNeverShort
  <2>1. Total(s) + Pending(s) >= inside[s]
    BY <1>1 DEF TimesInv, Balanced
  <2>2. Pending(s) = 0 /\ Total(s) \in Int
    BY <1>1, NothingPending, SandboxValues
  <2> QED BY <2>1, <2>2
<1> QED BY <1>1, TimesInvariant, PTL
=============================================================================
