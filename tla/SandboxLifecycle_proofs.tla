----------------------- MODULE SandboxLifecycle_proofs -----------------------
(***************************************************************************)
(* Proofs about SandboxLifecycle and SandboxSymbols for any set of         *)
(* threads, sandboxes, names and libraries, whichever of the sandboxes the *)
(* application keeps the rules of MayCall for.                             *)
(***************************************************************************)
EXTENDS SandboxSymbols, TLAPS

(* Every variable has its type: the step, before the theorem. *)
LEMMA TypeStep == TypeOK /\ [Next]_vars => TypeOK'
<1> SUFFICES ASSUME TypeOK, [Next]_vars PROVE TypeOK'
  OBVIOUS
<1> USE NoSandboxAssumption DEF TypeOK, Steps, CreateSteps, DestroySteps, Outcomes,
        Sandbox_Status, Begin, Goto, End
<1>1. ASSUME NEW t \in Threads, NEW s \in Sandboxes, Call(t, s) PROVE TypeOK'
  <2>1. CASE BeginCreate(t, s)    BY <2>1 DEF BeginCreate
  <2>2. CASE RefuseCreate(t, s)   BY <2>2 DEF RefuseCreate
  <2>3. CASE BeginDestroy(t, s)   BY <2>3 DEF BeginDestroy
  <2>4. CASE RefuseDestroy(t, s)  BY <2>4 DEF RefuseDestroy
  <2>5. CASE FindSandbox(t, s)    BY <2>5 DEF FindSandbox
  <2> QED BY <1>1, <2>1, <2>2, <2>3, <2>4, <2>5 DEF Call
<1>2. ASSUME NEW t \in Threads, Continue(t) PROVE TypeOK'
  <2>1. CASE ImplCreate(t)       BY <2>1 DEF ImplCreate
  <2>2. CASE ImplCreateFails(t)  BY <2>2 DEF ImplCreateFails
  <2>3. CASE StoreCreated(t)     BY <2>3 DEF StoreCreated
  <2>4. CASE PushBack(t)         BY <2>4 DEF PushBack
  <2>5. CASE EraseFromList(t)    BY <2>5 DEF EraseFromList, Listed
  <2>6. CASE EraseFails(t)       BY <2>6 DEF EraseFails
  <2>7. CASE StoreNotCreated(t)  BY <2>7 DEF StoreNotCreated
  <2>8. CASE ImplDestroy(t)      BY <2>8 DEF ImplDestroy
  <2>9. CASE UseFound(t)         BY <2>9 DEF UseFound
  <2> QED BY <1>2, <2>1, <2>2, <2>3, <2>4, <2>5, <2>6, <2>7, <2>8, <2>9 DEF Continue
<1>3. CASE UNCHANGED vars
  BY <1>3 DEF vars
<1> QED BY <1>1, <1>2, <1>3 DEF Next

(* Type correctness of the lifecycle, for every set of threads and sandboxes. *)
THEOREM TypeCorrect == Spec => []TypeOK
<1>1. Init => TypeOK
  BY DEF Init, TypeOK, Steps, Outcomes, Sandbox_Status
<1> QED BY <1>1, TypeStep, PTL DEF Spec

-----------------------------------------------------------------------------
(***************************************************************************)
(* OneClaimant and ListedOnce need each other: a claim is only taken from  *)
(* a status no claimant holds, and an entry is only added by the thread    *)
(* whose claim made the sandbox CREATED.  The status therefore has to be   *)
(* tied to the place of every thread that has passed a compare-and-swap.   *)
(***************************************************************************)
Pushing(t, s) == At(t, s, {"create_push"})

(* A claim and the status it installed. *)
ClaimStatus ==
  \A s \in Sandboxes : \A t \in Threads :
    /\ At(t, s, {"create_impl", "create_store"}) => sandbox_created[s] = "INITIALIZING"
    /\ At(t, s, {"destroy_erase", "destroy_store"}) => sandbox_created[s] = "CLEANING_UP"

(* An entry, made or still to be made, and the status that goes with it. *)
EntryStatus ==
  \A s \in Sandboxes :
    /\ sandbox_list[s] <= 1
    /\ sandbox_list[s] # 0 => sandbox_created[s] \in {"CREATED", "CLEANING_UP"}
    /\ \A t \in Threads :
         /\ Pushing(t, s) => /\ sandbox_list[s] = 0
                             /\ sandbox_created[s] \in {"CREATED", "CLEANING_UP"}
         /\ At(t, s, {"destroy_store"}) =>
              sandbox_list[s] = 0 /\ \A u \in Threads : ~Pushing(u, s)
         /\ \A u \in Threads : Pushing(t, s) /\ Pushing(u, s) => t = u

LifeInv == TypeOK /\ OneClaimant /\ ClaimStatus /\ EntryStatus

LEMMA LifeStep == LifeInv /\ [Next]_vars => LifeInv'
<1> SUFFICES ASSUME LifeInv, [Next]_vars PROVE LifeInv'
  OBVIOUS
<1>0. TypeOK /\ TypeOK'
  BY TypeStep DEF LifeInv
<1> USE NoSandboxAssumption
        DEF LifeInv, OneClaimant, Claimed, ClaimStatus, EntryStatus, Pushing, At
<1>1. ASSUME NEW t \in Threads, NEW s \in Sandboxes, Call(t, s) PROVE LifeInv'
  <2>1. CASE BeginCreate(t, s)    BY <1>0, <2>1 DEF BeginCreate, Begin, TypeOK
  <2>2. CASE RefuseCreate(t, s)   BY <1>0, <2>2 DEF RefuseCreate
  <2>3. CASE BeginDestroy(t, s)   BY <1>0, <2>3 DEF BeginDestroy, Begin, TypeOK
  <2>4. CASE RefuseDestroy(t, s)  BY <1>0, <2>4 DEF RefuseDestroy
  <2>5. CASE FindSandbox(t, s)    BY <1>0, <2>5 DEF FindSandbox, Begin, TypeOK
  <2> QED BY <1>1, <2>1, <2>2, <2>3, <2>4, <2>5 DEF Call
<1>2. ASSUME NEW t \in Threads, Continue(t) PROVE LifeInv'
  <2>1. CASE ImplCreate(t)       BY <1>0, <2>1 DEF ImplCreate, Goto, TypeOK
  <2>2. CASE ImplCreateFails(t)  BY <1>0, <2>2 DEF ImplCreateFails, End, TypeOK
  <2>3. CASE StoreCreated(t)     BY <1>0, <2>3 DEF StoreCreated, Goto, TypeOK
  <2>4. CASE PushBack(t)         BY <1>0, <2>4 DEF PushBack, End, TypeOK
  <2>5. CASE EraseFromList(t)    BY <1>0, <2>5 DEF EraseFromList, Listed, Goto, TypeOK
  <2>6. CASE EraseFails(t)       BY <1>0, <2>6 DEF EraseFails, End, TypeOK
  <2>7. CASE StoreNotCreated(t)  BY <1>0, <2>7 DEF StoreNotCreated, Goto, TypeOK
  <2>8. CASE ImplDestroy(t)      BY <1>0, <2>8 DEF ImplDestroy, End, TypeOK
  <2>9. CASE UseFound(t)         BY <1>0, <2>9 DEF UseFound, End, TypeOK
  <2> QED BY <1>2, <2>1, <2>2, <2>3, <2>4, <2>5, <2>6, <2>7, <2>8, <2>9 DEF Continue
<1>3. CASE UNCHANGED vars
  BY <1>0, <1>3 DEF vars
<1> QED BY <1>1, <1>2, <1>3 DEF Next

LEMMA LifeInvariant == Spec => []LifeInv
<1>1. Init => LifeInv
  <2>1. Init => TypeOK
    BY DEF Init, TypeOK, Steps, Outcomes, Sandbox_Status
  <2> QED BY <2>1, NoSandboxAssumption
          DEF Init, LifeInv, OneClaimant, Claimed, ClaimStatus, EntryStatus, Pushing, At
<1> QED BY <1>1, LifeStep, PTL DEF Spec

(* However threads overlap create_sandbox and destroy_sandbox, at most one   *)
(* of them is between its compare-and-swap and the store that publishes the  *)
(* result: the status word is a lock on the sandbox.                         *)
THEOREM ClaimIsExclusive == Spec => []OneClaimant
<1>1. LifeInv => OneClaimant
  BY DEF LifeInv
<1> QED BY <1>1, LifeInvariant, PTL

(* However threads overlap them, a sandbox has at most one entry in the      *)
(* global list, none while a push_back is pending, and none once destroyed.  *)
THEOREM ListEntryUnique == Spec => []ListedOnce
<1>1. LifeInv => ListedOnce
  BY DEF LifeInv, TypeOK, EntryStatus, Pushing, ListedOnce, Listed
<1> QED BY <1>1, LifeInvariant, PTL

-----------------------------------------------------------------------------
(***************************************************************************)
(* A serialized sandbox.  While a thread creates or destroys it no other   *)
(* thread is in a call about it, so each place in those operations and the *)
(* state between them determine the status, the list entry and the         *)
(* plugin's resource.                                                      *)
(***************************************************************************)
Changing(t, s) == At(t, s, CreateSteps \union DestroySteps)

Idle ==
  \A t \in Threads :
    /\ pc[t] = "idle" => on[t] = NoSandbox
    /\ found[t] # NoSandbox => pc[t] = "use_found" /\ found[t] = on[t]

SoleCaller ==
  \A s \in Serialized : \A t, u \in Threads : Changing(t, s) /\ on[u] = s => t = u

SerialStatus ==
  \A s \in Serialized :
    /\ sandbox_created[s] = "CREATED" /\ (\A t \in Threads : ~Changing(t, s)) =>
         sandbox_list[s] # 0 /\ backend[s]
    /\ sandbox_created[s] = "NOT_CREATED" /\ (\A t \in Threads : ~Changing(t, s)) =>
         ~backend[s]
    /\ \A t \in Threads :
         /\ At(t, s, {"create_store", "create_push"}) => backend[s]
         /\ At(t, s, {"create_push"}) => sandbox_created[s] = "CREATED"
         /\ At(t, s, {"destroy_erase"}) => sandbox_list[s] # 0
         /\ At(t, s, {"destroy_impl"}) => sandbox_created[s] = "NOT_CREATED"
         /\ At(t, s, {"use_found"}) => sandbox_created[s] = "CREATED" /\ found[t] = s

SerialInv == TypeOK /\ Idle /\ SoleCaller /\ SerialStatus

LEMMA SerialStep == SerialInv /\ LifeInv /\ [Next]_vars => SerialInv'
<1> SUFFICES ASSUME SerialInv, LifeInv, [Next]_vars PROVE SerialInv'
  OBVIOUS
<1>0. TypeOK /\ TypeOK'
  BY TypeStep DEF SerialInv
<1> USE NoSandboxAssumption, SerializedAssumption
        DEF SerialInv, Idle, SoleCaller, SerialStatus, Changing, At, CreateSteps, DestroySteps
<1>1. ASSUME NEW t \in Threads, NEW s \in Sandboxes, Call(t, s) PROVE SerialInv'
  <2>1. CASE BeginCreate(t, s)    BY <1>0, <2>1 DEF BeginCreate, Begin, MayCall, TypeOK
  <2>2. CASE RefuseCreate(t, s)   BY <1>0, <2>2 DEF RefuseCreate
  <2>3. CASE BeginDestroy(t, s)   BY <1>0, <2>3 DEF BeginDestroy, Begin, MayCall, TypeOK
  <2>4. CASE RefuseDestroy(t, s)  BY <1>0, <2>4 DEF RefuseDestroy
  <2>5. CASE FindSandbox(t, s)
    BY <1>0, <2>5 DEF FindSandbox, Begin, MayFind, Listed, TypeOK
  <2> QED BY <1>1, <2>1, <2>2, <2>3, <2>4, <2>5 DEF Call
<1>2. ASSUME NEW t \in Threads, Continue(t) PROVE SerialInv'
  <2>1. CASE ImplCreate(t)       BY <1>0, <2>1 DEF ImplCreate, Goto, TypeOK
  <2>2. CASE ImplCreateFails(t)
    BY <1>0, <2>2 DEF ImplCreateFails, End, TypeOK, LifeInv, ClaimStatus
  <2>3. CASE StoreCreated(t)     BY <1>0, <2>3 DEF StoreCreated, Goto, TypeOK
  <2>4. CASE PushBack(t)
    BY <1>0, <2>4 DEF PushBack, End, TypeOK
  <2>5. CASE EraseFromList(t)
    BY <1>0, <2>5 DEF EraseFromList, Listed, Goto, TypeOK, LifeInv, ClaimStatus
  <2>6. CASE EraseFails(t)       BY <1>0, <2>6 DEF EraseFails, Listed, End, TypeOK
  <2>7. CASE StoreNotCreated(t)  BY <1>0, <2>7 DEF StoreNotCreated, Goto, TypeOK
  <2>8. CASE ImplDestroy(t)      BY <1>0, <2>8 DEF ImplDestroy, End, TypeOK
  <2>9. CASE UseFound(t)         BY <1>0, <2>9 DEF UseFound, End, TypeOK
  <2> QED BY <1>2, <2>1, <2>2, <2>3, <2>4, <2>5, <2>6, <2>7, <2>8, <2>9 DEF Continue
<1>3. CASE UNCHANGED vars
  BY <1>0, <1>3 DEF vars
<1> QED BY <1>1, <1>2, <1>3 DEF Next

LEMMA SerialInvariant == Spec => []SerialInv
<1>1. Init => SerialInv
  <2>1. Init => TypeOK
    BY DEF Init, TypeOK, Steps, Outcomes, Sandbox_Status
  <2> QED BY <2>1, NoSandboxAssumption, SerializedAssumption
          DEF Init, SerialInv, Idle, SoleCaller, SerialStatus, Changing, At,
              CreateSteps, DestroySteps
<1> QED BY <1>1, SerialStep, LifeInvariant, PTL DEF Spec

(* A thread that converts a pointer with a sandbox whose create and destroy  *)
(* are serial finds that sandbox, and it stays created and loaded until the  *)
(* thread is done, whatever happens to the other sandboxes in the list.      *)
THEOREM FindReady == Spec => []FindReturnsReady
<1>1. SerialInv => FindReturnsReady
  BY DEF SerialInv, TypeOK, SoleCaller, SerialStatus, Changing, At, FindReturnsReady,
         CreateSteps, DestroySteps
<1> QED BY <1>1, SerialInvariant, PTL

(* Such a sandbox is never found missing from the list by its destroy.       *)
THEOREM DestroyFindsEntry == Spec => []SerialDestroyFinds
<1>1. SerialInv => SerialDestroyFinds
  BY SerializedAssumption
     DEF SerialInv, TypeOK, SerialStatus, SerialDestroyFinds, DestroyFinds, Listed
<1> QED BY <1>1, SerialInvariant, PTL

-----------------------------------------------------------------------------
(***************************************************************************)
(* The symbol cache rides on the lifecycle: its steps leave the lifecycle  *)
(* alone, so what was proved of Spec holds of SymbolSpec.                  *)
(***************************************************************************)
LEMMA SymbolStepIsStep == [SymbolNext]_allVars => [Next]_vars
<1> SUFFICES ASSUME [SymbolNext]_allVars PROVE [Next]_vars
  OBVIOUS
<1>1. ASSUME NEW t \in Threads, LifecycleContinue(t) PROVE Continue(t)
  BY <1>1 DEF LifecycleContinue, LoadImage, LoadFails, UnloadImage, OtherSteps, Continue
<1>2. ASSUME NEW t \in Threads, ContinueLookup(t) PROVE UNCHANGED vars
  BY <1>2 DEF ContinueLookup, Resolve, ResolveFails, StoreSymbol, UseSymbol
<1>3. ASSUME NEW t \in Threads, NEW s \in Sandboxes, LifecycleCall(t, s) PROVE Call(t, s)
  BY <1>3 DEF LifecycleCall
<1>4. ASSUME NEW t \in Threads, NEW s \in Sandboxes, NEW n \in Names,
             NEW kind \in LookupKinds, BeginLookup(t, s, n, kind)
      PROVE UNCHANGED vars
  BY <1>4 DEF BeginLookup
<1>5. CASE UNCHANGED allVars
  BY <1>5 DEF allVars
<1> QED BY <1>1, <1>2, <1>3, <1>4, <1>5 DEF SymbolNext, Next

(* Whatever the threads look up, the lifecycle runs as SandboxLifecycle says. *)
THEOREM SymbolsKeepLifecycle == SymbolSpec => Spec
<1>1. SymbolInit => Init
  BY DEF SymbolInit
<1> QED BY <1>1, SymbolStepIsStep, PTL DEF SymbolSpec, Spec

(* What a lookup's two later steps do to the record of it. *)
ResolveOutcome(t) ==
  LET me == lookup[t]
      a  == Address(image[me.sandbox], me.name, me.kind)
  IN  /\ Looking(t) /\ image[me.sandbox] # NoImage /\ a \in Addresses
      /\ me.sandbox \in Serialized /\ me.name \in Names /\ me.kind \in LookupKinds
      /\ lookup' \in [Threads -> Lookups]
      /\ lookup'[t].step = "store" /\ lookup'[t].answer = a
      /\ lookup'[t].sandbox = me.sandbox /\ lookup'[t].name = me.name
      /\ lookup'[t].kind = me.kind
      /\ \A u \in Threads \ {t} : lookup'[u] = lookup[u]
      /\ UNCHANGED <<vars, image, func_ptr_map, asked, inherited>>

StoreOutcome(t) ==
  LET me == lookup[t]
  IN  /\ Looking(t) /\ me.step = "store" /\ me.answer \in Addresses \union {NoAddress}
      /\ me.sandbox \in Serialized /\ me.name \in Names /\ me.kind \in LookupKinds
      /\ lookup' \in [Threads -> Lookups]
      /\ lookup'[t].step = "use" /\ lookup'[t].answer = me.answer
      /\ lookup'[t].sandbox = me.sandbox /\ lookup'[t].name = me.name
      /\ lookup'[t].kind = me.kind
      /\ \A u \in Threads \ {t} : lookup'[u] = lookup[u]
      /\ func_ptr_map' = [func_ptr_map EXCEPT ![me.sandbox][me.name] = me.answer]
      /\ UNCHANGED <<vars, image, asked, inherited>>

LEMMA ResolveEffect ==
  ASSUME SymbolTypeOK, NEW t \in Threads, Resolve(t)
  PROVE  ResolveOutcome(t)
<1> DEFINE me == lookup[t]
           a == Address(image[me.sandbox], me.name, me.kind)
<1>1. /\ Looking(t) /\ me.sandbox \in Serialized /\ me.sandbox \in Sandboxes
      /\ me.name \in Names /\ me.kind \in LookupKinds
      /\ image[me.sandbox] \in Images /\ image[me.sandbox] # NoImage
  BY SerializedAssumption DEF Resolve, SymbolTypeOK, Looking
<1>2. a \in Addresses
  BY <1>1 DEF Address, Addresses, LookupKinds
<1>3. /\ lookup' = [lookup EXCEPT ![t] = Asking("store", me, a)]
      /\ UNCHANGED <<vars, image, func_ptr_map, asked, inherited>>
  BY DEF Resolve
<1> HIDE DEF a
<1>4. Asking("store", me, a) \in Lookups
  BY <1>1, <1>2 DEF Asking, Lookups, LookupRecord, LookupSteps
<1>5. /\ lookup' \in [Threads -> Lookups]
      /\ lookup'[t] = Asking("store", me, a)
      /\ \A u \in Threads \ {t} : lookup'[u] = lookup[u]
  BY <1>3, <1>4 DEF SymbolTypeOK
<1> QED BY <1>1, <1>2, <1>3, <1>5 DEF a, Asking, LookupRecord, ResolveOutcome

LEMMA StoreEffect ==
  ASSUME SymbolTypeOK, NEW t \in Threads, StoreSymbol(t)
  PROVE  StoreOutcome(t)
<1> DEFINE me == lookup[t]
<1>1. /\ Looking(t) /\ me.step = "store" /\ me \in Lookups
      /\ me.sandbox \in Serialized /\ me.name \in Names /\ me.kind \in LookupKinds
  BY DEF StoreSymbol, SymbolTypeOK, Looking
<1>2. me.answer \in Addresses \union {NoAddress}
  BY <1>1 DEF Lookups
<1>3. /\ lookup' = [lookup EXCEPT ![t] = Asking("use", me, me.answer)]
      /\ func_ptr_map' = [func_ptr_map EXCEPT ![me.sandbox][me.name] = me.answer]
      /\ UNCHANGED <<vars, image, asked, inherited>>
  BY DEF StoreSymbol
<1>4. Asking("use", me, me.answer) \in Lookups
  BY <1>1, <1>2 DEF Asking, Lookups, LookupRecord, LookupSteps
<1>5. /\ lookup' \in [Threads -> Lookups]
      /\ lookup'[t] = Asking("use", me, me.answer)
      /\ \A u \in Threads \ {t} : lookup'[u] = lookup[u]
  BY <1>3, <1>4 DEF SymbolTypeOK
<1> QED BY <1>1, <1>2, <1>3, <1>5 DEF Asking, LookupRecord, StoreOutcome

LEMMA SymbolTypeStep == SymbolTypeOK /\ [SymbolNext]_allVars => SymbolTypeOK'
<1> SUFFICES ASSUME SymbolTypeOK, [SymbolNext]_allVars PROVE SymbolTypeOK'
  OBVIOUS
<1>0. TypeOK'
  BY SymbolStepIsStep, TypeStep DEF SymbolTypeOK
<1> USE NoImageAssumption, NoAddressAssumption, SerializedAssumption
        DEF SymbolTypeOK, Lookups, NoLookup, LookupRecord, LookupSteps, Looking, symbolVars
<1>1. ASSUME NEW t \in Threads, LifecycleContinue(t) PROVE SymbolTypeOK'
  <2>1. CASE LoadImage(t)
    BY <1>0, <2>1 DEF LoadImage, ImplCreate, TypeOK, Cached
  <2>2. CASE LoadFails(t)    BY <1>0, <2>2 DEF LoadFails
  <2>3. CASE UnloadImage(t)  BY <1>0, <2>3 DEF UnloadImage
  <2>4. CASE OtherSteps(t)   BY <1>0, <2>4 DEF OtherSteps
  <2> QED BY <1>1, <2>1, <2>2, <2>3, <2>4 DEF LifecycleContinue
<1>2. ASSUME NEW t \in Threads, NEW s \in Sandboxes, LifecycleCall(t, s) PROVE SymbolTypeOK'
  BY <1>0, <1>2 DEF LifecycleCall
<1>3. ASSUME NEW t \in Threads, NEW s \in Sandboxes, NEW n \in Names,
             NEW kind \in LookupKinds, BeginLookup(t, s, n, kind)
      PROVE SymbolTypeOK'
  BY <1>0, <1>3 DEF BeginLookup, vars, Cached
<1>4. ASSUME NEW t \in Threads, ContinueLookup(t) PROVE SymbolTypeOK'
  <2>1. CASE Resolve(t)
    BY <1>0, ResolveEffect, <2>1 DEF ResolveOutcome, vars
  <2>2. CASE ResolveFails(t)  BY <1>0, <2>2 DEF ResolveFails, vars
  <2>3. CASE StoreSymbol(t)
    <3>1. StoreOutcome(t)
      BY StoreEffect, <2>3
    <3> QED BY <1>0, <3>1 DEF StoreOutcome, vars
  <2>4. CASE UseSymbol(t)     BY <1>0, <2>4 DEF UseSymbol, vars
  <2> QED BY <1>4, <2>1, <2>2, <2>3, <2>4 DEF ContinueLookup
<1>5. CASE UNCHANGED allVars
  BY <1>0, <1>5 DEF allVars
<1> QED BY <1>1, <1>2, <1>3, <1>4, <1>5 DEF SymbolNext

LEMMA SymbolInitType == SymbolInit => SymbolTypeOK
<1>1. Init => TypeOK
  BY DEF Init, TypeOK, Steps, Outcomes, Sandbox_Status
<1> QED BY <1>1 DEF SymbolInit, SymbolTypeOK, Lookups, NoLookup, LookupRecord, LookupSteps,
                    Looking

(* Type correctness of the lifecycle with its symbol cache. *)
THEOREM SymbolTypeCorrect == SymbolSpec => []SymbolTypeOK
BY SymbolInitType, SymbolTypeStep, PTL DEF SymbolSpec

-----------------------------------------------------------------------------
(***************************************************************************)
(* The library stays loaded while a thread looks a symbol up in it, so an  *)
(* answer computed before the lock is taken is still right when stored;    *)
(* and an entry made since the library was loaded is one of its addresses, *)
(* of a kind somebody asked for.                                           *)
(***************************************************************************)
Fresh(s, n, address) ==
  \E kind \in LookupKinds : address = Address(image[s], n, kind) /\ <<n, kind>> \in asked[s]

LookupUndisturbed(t) ==
  Looking(t) =>
    /\ pc[t] = "idle"
    /\ sandbox_created[lookup[t].sandbox] = "CREATED"
    /\ \A u \in Threads : ~Changing(u, lookup[t].sandbox)
    /\ <<lookup[t].name, lookup[t].kind>> \in asked[lookup[t].sandbox]

LookupsUndisturbed == \A t \in Threads : LookupUndisturbed(t)

EntriesFresh ==
  \A s \in Serialized : image[s] # NoImage =>
    \A n \in Cached(s) \ inherited[s] : Fresh(s, n, func_ptr_map[s][n])

AnswerFresh(t) ==
  LET s == lookup[t].sandbox
      n == lookup[t].name
  IN /\ Looking(t) => image[s] # NoImage
     /\ lookup[t].step = "store" => Fresh(s, n, lookup[t].answer)
     /\ lookup[t].step = "use" /\ n \notin inherited[s] => Fresh(s, n, lookup[t].answer)

AnswersFresh == \A t \in Threads : AnswerFresh(t)

(* The plugin's resource is the library it loaded. *)
BackendIsImage == \A s \in Sandboxes : backend[s] <=> image[s] # NoImage

SymbolInv ==
  /\ SymbolTypeOK
  /\ BackendIsImage
  /\ LookupsUndisturbed
  /\ EntriesFresh
  /\ AnswersFresh

(* A lookup that goes on with the same question stays undisturbed, and an    *)
(* answer stays fresh, in a step that changes neither the lifecycle nor what *)
(* was asked.                                                                *)
LEMMA UndisturbedKept ==
  ASSUME NEW t \in Threads, LookupUndisturbed(t),
         UNCHANGED <<pc, on, sandbox_created, asked>>,
         Looking(t)' => /\ Looking(t) /\ lookup'[t].sandbox = lookup[t].sandbox
                        /\ lookup'[t].name = lookup[t].name
                        /\ lookup'[t].kind = lookup[t].kind
  PROVE  LookupUndisturbed(t)'
<1> SUFFICES ASSUME Looking(t)' PROVE LookupUndisturbed(t)'
  BY DEF LookupUndisturbed
<1>1. \A u \in Threads : Changing(u, lookup[t].sandbox)' <=> Changing(u, lookup[t].sandbox)
  BY DEF Changing, At
<1> QED BY <1>1 DEF LookupUndisturbed

LEMMA AnswerKept ==
  ASSUME NEW t \in Threads, AnswerFresh(t), lookup'[t] = lookup[t],
         UNCHANGED <<image, asked, inherited>>
  PROVE  AnswerFresh(t)'
BY DEF AnswerFresh, Fresh, Looking, Address

LEMMA AnswerMade ==
  ASSUME NEW t \in Threads, lookup'[t].step \in {"store", "use"},
         lookup'[t].sandbox = lookup[t].sandbox, lookup'[t].name = lookup[t].name,
         UNCHANGED <<image, asked, inherited>>, image[lookup[t].sandbox] # NoImage,
         \/ Fresh(lookup[t].sandbox, lookup[t].name, lookup'[t].answer)
         \/ lookup'[t].step = "use" /\ lookup[t].name \in inherited[lookup[t].sandbox]
  PROVE  AnswerFresh(t)'
BY DEF AnswerFresh, Fresh, Looking, Address

LEMMA SymbolInvStep ==
  SymbolInv /\ SerialInv /\ [SymbolNext]_allVars => SymbolInv'
<1> SUFFICES ASSUME SymbolInv, SerialInv, [SymbolNext]_allVars PROVE SymbolInv'
  OBVIOUS
<1>0. SymbolTypeOK /\ SymbolTypeOK' /\ TypeOK
  BY SymbolTypeStep DEF SymbolInv, SymbolTypeOK
<1>T. /\ \A t \in Threads : Looking(t) => /\ lookup[t].sandbox \in Serialized
                                        /\ lookup[t].name \in Names
                                        /\ lookup[t].kind \in LookupKinds
      /\ Serialized \subseteq Sandboxes
  BY <1>0, SerializedAssumption DEF SymbolTypeOK
<1> USE NoImageAssumption, NoSandboxAssumption
<1>1. ASSUME NEW t \in Threads, LifecycleContinue(t) PROVE SymbolInv'
  <2>U. UNCHANGED <<func_ptr_map, lookup>>
    BY <1>1 DEF LifecycleContinue, LoadImage, LoadFails, UnloadImage, OtherSteps, symbolVars
  <2>0. /\ pc[t] # "idle" /\ on[t] \in Sandboxes
        /\ \A u \in Threads \ {t} : pc'[u] = pc[u] /\ on'[u] = on[u]
        /\ on'[t] \in {on[t], NoSandbox}
        /\ pc'[t] \in CreateSteps \union DestroySteps =>
             pc[t] \in CreateSteps \union DestroySteps
    BY <1>0, <1>1 DEF LifecycleContinue, LoadImage, LoadFails, UnloadImage, OtherSteps,
         ImplCreate, ImplCreateFails, ImplDestroy, StoreCreated, PushBack, EraseFromList,
         EraseFails, StoreNotCreated, UseFound, Goto, End, TypeOK, CreateSteps, DestroySteps
  <2>1. \A u \in Threads : Looking(u) => u # t /\ ~Changing(t, lookup[u].sandbox)
    BY <2>0 DEF SymbolInv, LookupsUndisturbed, LookupUndisturbed
  <2>2. \A s \in Sandboxes : (\A u \in Threads : ~Changing(u, s)) =>
          \A u \in Threads : ~Changing(u, s)'
    BY <2>0 DEF Changing, At
  <2>3. ASSUME NEW s \in Sandboxes, ~Changing(t, s)
        PROVE  /\ image'[s] = image[s] /\ asked'[s] = asked[s] /\ inherited'[s] = inherited[s]
               /\ backend'[s] = backend[s]
    <3> USE <1>0, <2>3 DEF SymbolTypeOK, TypeOK, Changing, At, CreateSteps, DestroySteps
    <3>1. CASE LoadImage(t)    BY <3>1 DEF LoadImage, ImplCreate
    <3>2. CASE LoadFails(t)    BY <3>2 DEF LoadFails, ImplCreateFails
    <3>3. CASE UnloadImage(t)  BY <3>3 DEF UnloadImage, ImplDestroy
    <3>4. CASE OtherSteps(t)
      BY <3>4 DEF OtherSteps, symbolVars, StoreCreated, PushBack, EraseFromList, EraseFails,
                  StoreNotCreated, UseFound
    <3> QED BY <1>1, <3>1, <3>2, <3>3, <3>4 DEF LifecycleContinue
  <2>4. ASSUME NEW s \in Sandboxes, ~Changing(t, s), sandbox_created[s] = "CREATED"
        PROVE  sandbox_created'[s] = "CREATED"
    BY <1>0, <1>1, <2>4 DEF LifecycleContinue, LoadImage, LoadFails, UnloadImage, OtherSteps,
         ImplCreate, ImplCreateFails, ImplDestroy, StoreCreated, PushBack, EraseFromList,
         EraseFails, StoreNotCreated, UseFound, TypeOK, Changing, At, CreateSteps, DestroySteps
  <2>5. LookupsUndisturbed'
    <3> SUFFICES ASSUME NEW u \in Threads, Looking(u)
                 PROVE  /\ pc'[u] = "idle"
                        /\ sandbox_created'[lookup[u].sandbox] = "CREATED"
                        /\ \A v \in Threads : ~Changing(v, lookup[u].sandbox)'
                        /\ <<lookup[u].name, lookup[u].kind>> \in asked'[lookup[u].sandbox]
      BY <2>U DEF LookupsUndisturbed, LookupUndisturbed, Looking, Changing, At
    <3>1. u # t /\ ~Changing(t, lookup[u].sandbox) /\ lookup[u].sandbox \in Sandboxes
      BY <1>T, <2>1
    <3>2. \A v \in Threads : ~Changing(v, lookup[u].sandbox)
      BY DEF SymbolInv, LookupsUndisturbed, LookupUndisturbed
    <3>3. \A v \in Threads : ~Changing(v, lookup[u].sandbox)'
      BY <2>U, <2>2, <3>1, <3>2 DEF Changing, At
    <3> QED BY <2>0, <2>3, <2>4, <3>1, <3>3 DEF SymbolInv, LookupsUndisturbed, LookupUndisturbed
  <2>6. AnswersFresh'
    <3>1. ASSUME NEW u \in Threads, Looking(u)
          PROVE  LET s == lookup[u].sandbox
                 IN image'[s] = image[s] /\ asked'[s] = asked[s] /\ inherited'[s] = inherited[s]
      BY <1>T, <2>1, <2>3, <3>1
    <3> QED BY <2>U, <3>1 DEF SymbolInv, AnswersFresh, AnswerFresh, Looking, Fresh
  <2>7. EntriesFresh'
    <3> SUFFICES ASSUME NEW s \in Serialized, image'[s] # NoImage,
                        NEW n \in Cached(s) \ inherited'[s]
                 PROVE  Fresh(s, n, func_ptr_map[s][n])'
      BY <2>U DEF EntriesFresh, Cached
    <3>1. CASE LoadImage(t) /\ on[t] = s
      BY <1>0, <1>T, <3>1 DEF LoadImage, SymbolTypeOK
    <3>2. CASE ~LoadImage(t) \/ on[t] # s
      <4>1. image[s] = image'[s] /\ asked'[s] = asked[s] /\ inherited'[s] = inherited[s]
        BY <1>0, <1>1, <1>T, <3>2 DEF LifecycleContinue, LoadImage, LoadFails, UnloadImage,
             OtherSteps, symbolVars, SymbolTypeOK
      <4> QED BY <2>U, <4>1 DEF SymbolInv, EntriesFresh, Fresh
    <3> QED BY <3>1, <3>2
  <2>8. BackendIsImage'
    <3> SUFFICES ASSUME NEW s \in Sandboxes PROVE backend'[s] <=> image'[s] # NoImage
      BY DEF BackendIsImage
    <3> USE <1>0 DEF SymbolInv, BackendIsImage, SymbolTypeOK, TypeOK
    <3>1. CASE LoadImage(t)    BY <3>1 DEF LoadImage, ImplCreate
    <3>2. CASE LoadFails(t)    BY <3>2 DEF LoadFails, ImplCreateFails
    <3>3. CASE UnloadImage(t)  BY <3>3 DEF UnloadImage, ImplDestroy
    <3>4. CASE OtherSteps(t)
      BY <3>4 DEF OtherSteps, symbolVars, StoreCreated, PushBack, EraseFromList, EraseFails,
                  StoreNotCreated, UseFound
    <3> QED BY <1>1, <3>1, <3>2, <3>3, <3>4 DEF LifecycleContinue
  <2> QED BY <1>0, <2>5, <2>6, <2>7, <2>8 DEF SymbolInv
<1> USE DEF SymbolInv, BackendIsImage, LookupsUndisturbed, LookupUndisturbed, EntriesFresh, AnswersFresh, AnswerFresh, Fresh,
            Looking, LookingIn, Cached
<1>2. ASSUME NEW t \in Threads, NEW s \in Sandboxes, LifecycleCall(t, s) PROVE SymbolInv'
  <2>1. BackendIsImage' /\ EntriesFresh' /\ AnswersFresh'
    BY <1>0, <1>2 DEF LifecycleCall, symbolVars, Call, BeginCreate, RefuseCreate,
                      BeginDestroy, RefuseDestroy, FindSandbox
  <2>2. LookupsUndisturbed'
    <3> USE <1>0, <1>2, <1>T DEF LifecycleCall, symbolVars, Changing, At, CreateSteps,
              DestroySteps, TypeOK, Begin
    <3>1. CASE BeginCreate(t, s)    BY <3>1 DEF BeginCreate
    <3>2. CASE RefuseCreate(t, s)   BY <3>2 DEF RefuseCreate
    <3>3. CASE BeginDestroy(t, s)   BY <3>3 DEF BeginDestroy, FindSandbox
    <3>4. CASE RefuseDestroy(t, s)  BY <3>4 DEF RefuseDestroy
    <3>5. CASE FindSandbox(t, s)    BY <3>5 DEF FindSandbox
    <3> QED BY <3>1, <3>2, <3>3, <3>4, <3>5 DEF Call
  <2> QED BY <1>0, <2>1, <2>2
<1>3. ASSUME NEW t \in Threads, NEW s \in Sandboxes, NEW n \in Names,
             NEW kind \in LookupKinds, BeginLookup(t, s, n, kind)
      PROVE SymbolInv'
  <2>0. sandbox_created[s] = "CREATED" /\ \A u \in Threads : ~Changing(u, s)
    BY <1>3 DEF BeginLookup, MayFind, Changing
  <2>1. image[s] # NoImage
    BY <1>3, <2>0 DEF BeginLookup, SerialInv, SerialStatus
  <2>2. BackendIsImage' /\ EntriesFresh'
    BY <1>0, <1>3, <1>T DEF BeginLookup, vars, SymbolTypeOK
  <2>3. LookupsUndisturbed'
    BY <1>0, <1>3, <1>T, <2>0
       DEF BeginLookup, vars, SymbolTypeOK, LookupRecord, Changing, At
  <2>4. AnswersFresh'
    BY <1>0, <1>3, <1>T, <2>1 DEF BeginLookup, vars, SymbolTypeOK, LookupRecord
  <2> QED BY <1>0, <2>2, <2>3, <2>4
<1>4. ASSUME NEW t \in Threads, ContinueLookup(t) PROVE SymbolInv'
  <2> USE <1>0, <1>T DEF vars, SymbolTypeOK, NoLookup, LookupRecord, Changing, At
  <2>1. CASE Resolve(t)
    <3>0. ResolveOutcome(t)
      BY ResolveEffect, <2>1
    <3>1. Fresh(lookup[t].sandbox, lookup[t].name, lookup'[t].answer)
      BY <3>0 DEF ResolveOutcome
    <3>2. BackendIsImage' /\ EntriesFresh'
      BY <3>0 DEF ResolveOutcome
    <3>3. LookupsUndisturbed'
      <4> HIDE DEF LookupUndisturbed
      <4>1. UNCHANGED <<pc, on, sandbox_created, asked>>
        BY <3>0 DEF ResolveOutcome, vars
      <4>2. ASSUME NEW u \in Threads, Looking(u)'
            PROVE  /\ Looking(u) /\ lookup'[u].sandbox = lookup[u].sandbox
                   /\ lookup'[u].name = lookup[u].name /\ lookup'[u].kind = lookup[u].kind
        BY <3>0, <4>2 DEF ResolveOutcome
      <4> QED BY <4>1, <4>2, UndisturbedKept
    <3>4. AnswersFresh'
      <4> SUFFICES ASSUME NEW u \in Threads PROVE AnswerFresh(u)'
        OBVIOUS
      <4>0. UNCHANGED <<image, asked, inherited>>
        BY <3>0 DEF ResolveOutcome
      <4>1. CASE u = t
        BY <3>0, <3>1, <4>0, <4>1, AnswerMade DEF ResolveOutcome
      <4>2. CASE u # t
        <5>1. lookup'[u] = lookup[u]
          BY <3>0, <4>2 DEF ResolveOutcome
        <5> HIDE DEF AnswerFresh
        <5> QED BY <4>0, <5>1, AnswerKept
      <4> QED BY <4>1, <4>2
    <3> QED BY <3>2, <3>3, <3>4
  <2>2. CASE ResolveFails(t)  BY <2>2 DEF ResolveFails
  <2>3. CASE StoreSymbol(t)
    <3>0. StoreOutcome(t)
      BY StoreEffect, <2>3
    <3>1. BackendIsImage'
      BY <3>0 DEF StoreOutcome
    <3>4. LookupsUndisturbed'
      <4> HIDE DEF LookupUndisturbed
      <4>1. UNCHANGED <<pc, on, sandbox_created, asked>>
        BY <3>0 DEF StoreOutcome, vars
      <4>2. ASSUME NEW u \in Threads, Looking(u)'
            PROVE  /\ Looking(u) /\ lookup'[u].sandbox = lookup[u].sandbox
                   /\ lookup'[u].name = lookup[u].name /\ lookup'[u].kind = lookup[u].kind
        BY <3>0, <4>2 DEF StoreOutcome
      <4> QED BY <4>1, <4>2, UndisturbedKept
    <3>2. AnswersFresh'
      <4> SUFFICES ASSUME NEW u \in Threads PROVE AnswerFresh(u)'
        OBVIOUS
      <4>0. UNCHANGED <<image, asked, inherited>>
        BY <3>0 DEF StoreOutcome
      <4>1. CASE u = t
        <5>1. AnswerFresh(t) /\ Looking(t) /\ lookup[t].step = "store"
          BY <3>0 DEF StoreOutcome
        <5>2. /\ image[lookup[t].sandbox] # NoImage
              /\ Fresh(lookup[t].sandbox, lookup[t].name, lookup[t].answer)
          BY <5>1
        <5> HIDE DEF Fresh, AnswerFresh
        <5> QED BY <3>0, <4>0, <4>1, <5>2, AnswerMade DEF StoreOutcome
      <4>2. CASE u # t
        <5>1. lookup'[u] = lookup[u]
          BY <3>0, <4>2 DEF StoreOutcome
        <5> HIDE DEF AnswerFresh
        <5> QED BY <4>0, <5>1, AnswerKept
      <4> QED BY <4>1, <4>2
    <3>3. EntriesFresh'
      <4> DEFINE me == lookup[t]
      <4> SUFFICES ASSUME NEW s \in Serialized, image[s] # NoImage,
                          NEW n \in Names \ inherited[s], func_ptr_map'[s][n] # NoAddress
                   PROVE  Fresh(s, n, func_ptr_map'[s][n])
        <5>1. UNCHANGED <<image, asked, inherited>>
          BY <3>0 DEF StoreOutcome
        <5> QED BY <5>1
      <4> HIDE DEF Fresh
      <4>1. CASE s = me.sandbox /\ n = me.name
        <5>1. func_ptr_map'[s][n] = me.answer
          BY <3>0, <4>1 DEF StoreOutcome
        <5>2. Fresh(s, n, me.answer)
          BY <2>3, <4>1 DEF StoreSymbol
        <5> QED BY <5>1, <5>2
      <4>2. CASE s # me.sandbox \/ n # me.name
        <5>1. func_ptr_map'[s][n] = func_ptr_map[s][n]
          BY <3>0, <4>2 DEF StoreOutcome
        <5> QED BY <5>1
      <4> QED BY <4>1, <4>2
    <3> QED BY <3>1, <3>2, <3>3, <3>4
  <2>4. CASE UseSymbol(t)     BY <2>4 DEF UseSymbol
  <2> QED BY <1>4, <2>1, <2>2, <2>3, <2>4 DEF ContinueLookup
<1>5. CASE UNCHANGED allVars
  BY <1>0, <1>5 DEF allVars, symbolVars, vars, Changing, At
<1> QED BY <1>1, <1>2, <1>3, <1>4, <1>5 DEF SymbolNext

LEMMA SymbolInvariant == SymbolSpec => [](SymbolInv /\ SerialInv)
<1>1. SymbolInit => SymbolInv
  <2> SUFFICES ASSUME SymbolInit PROVE SymbolInv
    OBVIOUS
  <2>1. SymbolTypeOK
    BY SymbolInitType
  <2>2. \A t \in Threads : lookup[t].step = "idle"
    BY DEF SymbolInit, NoLookup, LookupRecord
  <2>3. BackendIsImage /\ EntriesFresh
    BY SerializedAssumption DEF SymbolInit, Init, BackendIsImage, EntriesFresh
  <2> QED BY <2>1, <2>2, <2>3 DEF SymbolInv, LookupsUndisturbed, LookupUndisturbed, AnswersFresh, AnswerFresh, Looking
<1>2. SymbolSpec => []SerialInv
  BY SymbolsKeepLifecycle, SerialInvariant, PTL
<1> QED BY <1>1, <1>2, SymbolInvStep, PTL DEF SymbolSpec

(* A caller of lookup_symbol or internal_lookup_symbol gets an address of    *)
(* the name it asked for in the library loaded now, of a kind that was asked *)
(* for since it was loaded, unless the map had the name from before.         *)
THEOREM SymbolAnswers == SymbolSpec => []AnswersAreCurrent
<1>1. SymbolInv => AnswersAreCurrent
  BY DEF SymbolInv, AnswersFresh, AnswerFresh, Fresh, AnswersAreCurrent
<1> QED BY <1>1, SymbolInvariant, PTL

-----------------------------------------------------------------------------
(***************************************************************************)
(* The refinement of SandboxPromise.  PhaseTable says what phase a         *)
(* serialized sandbox is in from the calls about it and its status alone;  *)
(* each step then moves one sandbox along that table, moves one user, or   *)
(* stutters.                                                               *)
(***************************************************************************)
Creating(s) == \E t \in Threads : At(t, s, CreateSteps)
Destroying(s) == \E t \in Threads : At(t, s, DestroySteps)

PhaseTable(s) ==
  /\ Quiet(s) <=> ~Creating(s) /\ ~Destroying(s)
  /\ ~Creating(s) \/ ~Destroying(s)
  /\ Creating(s) => PhaseOf(s) = "coming"
  /\ Destroying(s) => PhaseOf(s) = "going"
  /\ Quiet(s) /\ sandbox_created[s] = "CREATED" => PhaseOf(s) = "ready"
  /\ Quiet(s) /\ sandbox_created[s] = "NOT_CREATED" => PhaseOf(s) = "absent"
  /\ Quiet(s) /\ sandbox_created[s] \notin {"CREATED", "NOT_CREATED"} => PhaseOf(s) = "failed"

RefinementInv == LifeInv /\ SerialInv /\ SymbolInv

LEMMA PhaseFacts == RefinementInv => \A s \in Serialized : PhaseTable(s)
<1> SUFFICES ASSUME RefinementInv, NEW s \in Serialized PROVE PhaseTable(s)
  OBVIOUS
<1>0. s \in Sandboxes
  BY SerializedAssumption
<1>1. Quiet(s) <=> ~Creating(s) /\ ~Destroying(s)
  BY DEF Quiet, Creating, Destroying, At
<1>2. ~Creating(s) \/ ~Destroying(s)
  BY DEF RefinementInv, SerialInv, SoleCaller, Creating, Destroying, Changing, At, CreateSteps,
         DestroySteps
<1>3. Creating(s) => PhaseOf(s) = "coming"
  BY <1>1, <1>2 DEF PhaseOf, Creating, Destroying
<1>4. Destroying(s) => PhaseOf(s) = "going"
  BY <1>1, <1>2 DEF PhaseOf, Creating, Destroying
<1>5. Quiet(s) => \A t \in Threads : ~Changing(t, s)
  BY DEF Quiet, Changing
<1>6. Listed(s) <=> sandbox_list[s] # 0
  BY <1>0 DEF RefinementInv, LifeInv, TypeOK, Listed
<1>7. backend[s] <=> image[s] # NoImage
  BY <1>0 DEF RefinementInv, SymbolInv, BackendIsImage
<1>8. Quiet(s) /\ sandbox_created[s] = "CREATED" => PhaseOf(s) = "ready"
  BY <1>1, <1>5, <1>6, <1>7
     DEF PhaseOf, Creating, Destroying, RefinementInv, SerialInv, SerialStatus
<1>9. Quiet(s) /\ sandbox_created[s] = "NOT_CREATED" => PhaseOf(s) = "absent"
  BY <1>0, <1>1, <1>5, <1>6, <1>7
     DEF PhaseOf, Creating, Destroying, RefinementInv, SerialInv, SerialStatus, LifeInv,
         EntryStatus
<1>10. Quiet(s) /\ sandbox_created[s] \notin {"CREATED", "NOT_CREATED"} => PhaseOf(s) = "failed"
  BY <1>1 DEF PhaseOf, Creating, Destroying
<1> QED BY <1>1, <1>2, <1>3, <1>4, <1>8, <1>9, <1>10 DEF PhaseTable

LEMMA PhaseFactsNext == RefinementInv' => (\A s \in Serialized : PhaseTable(s))'
BY PhaseFacts, PTL

(* Calls about one sandbox leave the phase of the others alone. *)
LEMMA OtherPhase ==
  ASSUME NEW s \in Serialized, PhaseTable(s), PhaseTable(s)',
         sandbox_created'[s] = sandbox_created[s],
         Creating(s)' <=> Creating(s), Destroying(s)' <=> Destroying(s)
  PROVE  PhaseOf(s)' = PhaseOf(s)
BY DEF PhaseTable

(* A step of one thread that stays, for each sandbox, in a creating step, in *)
(* a destroying step or in neither, and keeps the status of quiet sandboxes. *)
LEMMA SamePhases ==
  ASSUME RefinementInv, RefinementInv', NEW t \in Threads,
         \A u \in Threads \ {t} : pc'[u] = pc[u] /\ on'[u] = on[u],
         \A s \in Serialized :
           /\ At(t, s, CreateSteps)' <=> At(t, s, CreateSteps)
           /\ At(t, s, DestroySteps)' <=> At(t, s, DestroySteps)
           /\ sandbox_created'[s] = sandbox_created[s] \/ Changing(t, s)
  PROVE  \A s \in Serialized : PhaseOf(s)' = PhaseOf(s)
<1> SUFFICES ASSUME NEW s \in Serialized PROVE PhaseOf(s)' = PhaseOf(s)
  OBVIOUS
<1>1. PhaseTable(s) /\ PhaseTable(s)'
  BY PhaseFacts, PhaseFactsNext
<1>2. (Creating(s)' <=> Creating(s)) /\ (Destroying(s)' <=> Destroying(s))
  BY DEF Creating, Destroying, At
<1>3. CASE Changing(t, s)
  <2>1. Creating(s) \/ Destroying(s)
    BY <1>3 DEF Changing, At, Creating, Destroying
  <2> QED BY <1>1, <1>2, <2>1 DEF PhaseTable
<1>4. CASE ~Changing(t, s)
  BY <1>1, <1>2, <1>4, OtherPhase
<1> QED BY <1>3, <1>4

(* A step of one thread that moves the phase of x. *)
LEMMA OnePhase ==
  ASSUME RefinementInv, RefinementInv', NEW t \in Threads, NEW x \in Serialized,
         \A u \in Threads \ {t} : pc'[u] = pc[u] /\ on'[u] = on[u],
         on[t] \in {x, NoSandbox}, on'[t] \in {x, NoSandbox},
         \A s \in Serialized \ {x} : sandbox_created'[s] = sandbox_created[s]
  PROVE  \A s \in Serialized \ {x} : PhaseOf(s)' = PhaseOf(s)
<1> SUFFICES ASSUME NEW s \in Serialized, s # x PROVE PhaseOf(s)' = PhaseOf(s)
  OBVIOUS
<1>1. PhaseTable(s) /\ PhaseTable(s)'
  BY PhaseFacts, PhaseFactsNext
<1>2. s # NoSandbox
  BY NoSandboxAssumption, SerializedAssumption
<1>3. (Creating(s)' <=> Creating(s)) /\ (Destroying(s)' <=> Destroying(s))
  BY <1>2 DEF Creating, Destroying, At
<1> QED BY <1>1, <1>3, OtherPhase

phases == [s \in Serialized |-> PhaseOf(s)]
users == [t \in Threads |-> UserOf(t)]

LEMMA StutterSteps ==
  ASSUME RefinementInv, RefinementInv', NEW t \in Threads,
         \/ LoadImage(t) \/ (OtherSteps(t) /\ ~PushBack(t))
         \/ ((PushBack(t) \/ LoadFails(t) \/ UnloadImage(t)) /\ on[t] \notin Serialized)
  PROVE  phases' = phases
<1> USE DEF LoadImage, OtherSteps, LoadFails, UnloadImage, ImplCreate, ImplCreateFails,
        ImplDestroy, StoreCreated, PushBack, EraseFromList, EraseFails, StoreNotCreated,
        UseFound
<1>0. TypeOK /\ TypeOK' /\ Serialized \subseteq Sandboxes
  BY SerializedAssumption DEF RefinementInv, LifeInv
<1>1. \A u \in Threads \ {t} : pc'[u] = pc[u] /\ on'[u] = on[u]
  BY <1>0 DEF Goto, End, TypeOK
<1>2. ASSUME NEW s \in Serialized
      PROVE  /\ At(t, s, CreateSteps)' <=> At(t, s, CreateSteps)
             /\ At(t, s, DestroySteps)' <=> At(t, s, DestroySteps)
             /\ sandbox_created'[s] = sandbox_created[s] \/ Changing(t, s)
  <2>1. EraseFails(t) => on[t] # s
    BY <1>0, <1>2 DEF RefinementInv, SerialInv, SerialStatus, At, Listed, TypeOK
  <2>2. s # NoSandbox
    BY NoSandboxAssumption, SerializedAssumption
  <2> QED BY <1>0, <2>1, <2>2
             DEF Goto, End, TypeOK, At, CreateSteps, DestroySteps, Changing
<1>3. \A s \in Serialized : PhaseOf(s)' = PhaseOf(s)
  BY <1>1, <1>2, SamePhases
<1> QED BY <1>3 DEF phases

(* Steps of the lifecycle other than those of find_sandbox_from_example.     *)
LEMMA SameUsers ==
  ASSUME UNCHANGED <<lookup, found>>
  PROVE  users' = users
BY DEF users, UserOf, Looking

LEMMA PromiseStep ==
  RefinementInv /\ RefinementInv' /\ [SymbolNext]_allVars =>
    [Promise!PromiseNext]_(Promise!promiseVars)
<1> SUFFICES ASSUME RefinementInv, RefinementInv', [SymbolNext]_allVars
             PROVE  [Promise!PromiseNext]_(Promise!promiseVars)
  OBVIOUS
<1>0. TypeOK /\ TypeOK' /\ SymbolTypeOK /\ Serialized \subseteq Sandboxes /\ Idle
  BY SerializedAssumption DEF RefinementInv, LifeInv, SymbolInv, SerialInv
<1>s. phases' = phases /\ users' = users => UNCHANGED Promise!promiseVars
  BY DEF phases, users, Promise!promiseVars
<1>m. ASSUME NEW x \in Serialized, NEW from, NEW to, PhaseOf(x) = from, PhaseOf(x)' = to,
             \A s \in Serialized \ {x} : PhaseOf(s)' = PhaseOf(s), users' = users
      PROVE  Promise!Move(x, from, to)
  BY <1>m DEF Promise!Move, users
<1>a. ASSUME NEW t \in Threads, NEW s \in Serialized, UserOf(t) = NoSandbox, UserOf(t)' = s,
             \A u \in Threads \ {t} : UserOf(u)' = UserOf(u),
             PhaseOf(s) = "ready", phases' = phases
      PROVE  Promise!Acquire(t, s)
  BY <1>a DEF Promise!Acquire, phases
<1>u. ASSUME NEW t \in Threads, NEW v, UserOf(t)' = v,
             \A u \in Threads \ {t} : UserOf(u)' = UserOf(u)
      PROVE  users' = [users EXCEPT ![t] = v]
  BY <1>u DEF users
<1>r. ASSUME NEW t \in Threads, UserOf(t) # NoSandbox, UserOf(t)' = NoSandbox,
             \A u \in Threads \ {t} : UserOf(u)' = UserOf(u), phases' = phases
      PROVE  Promise!Release(t)
  <2>1. users' = [users EXCEPT ![t] = NoSandbox]
    BY <1>r, <1>u
  <2>2. users[t] # NoSandbox
    BY <1>r DEF users
  <2> QED BY <1>r, <2>1, <2>2 DEF Promise!Release, phases, users
<1> USE NoSandboxAssumption
<1>1. ASSUME NEW t \in Threads, LifecycleContinue(t)
      PROVE  [Promise!PromiseNext]_(Promise!promiseVars)
  <2>1. CASE \/ LoadImage(t) \/ (OtherSteps(t) /\ ~PushBack(t) /\ ~UseFound(t))
             \/ (((OtherSteps(t) /\ PushBack(t)) \/ LoadFails(t) \/ UnloadImage(t))
                   /\ on[t] \notin Serialized)
    <3>1. phases' = phases
      BY <2>1, StutterSteps
    <3>2. UNCHANGED <<lookup, found>>
      BY <2>1 DEF LoadImage, OtherSteps, LoadFails, UnloadImage, symbolVars, ImplCreate,
           ImplCreateFails, ImplDestroy, StoreCreated, PushBack, EraseFromList, EraseFails,
           StoreNotCreated, UseFound
    <3> QED BY <1>s, <3>1, <3>2, SameUsers
  <2>2. CASE UseFound(t) /\ OtherSteps(t)
    <3>1. phases' = phases
      BY <2>2, StutterSteps DEF UseFound, PushBack
    <3>2. ~Looking(t) /\ UNCHANGED lookup /\ found' = [found EXCEPT ![t] = NoSandbox]
      BY <2>2 DEF UseFound, OtherSteps, symbolVars, RefinementInv, SymbolInv,
                  LookupsUndisturbed, LookupUndisturbed
    <3>3. UserOf(t)' = NoSandbox /\ \A u \in Threads \ {t} : UserOf(u)' = UserOf(u)
      BY <1>0, <3>2 DEF UserOf, Looking, TypeOK
    <3>4. CASE UserOf(t) = NoSandbox
      BY <1>s, <3>1, <3>3, <3>4 DEF users
    <3>5. CASE UserOf(t) # NoSandbox
      BY <1>r, <3>1, <3>3, <3>5 DEF Promise!PromiseNext
    <3> QED BY <3>4, <3>5
  <2>3. CASE /\ (OtherSteps(t) /\ PushBack(t)) \/ LoadFails(t) \/ UnloadImage(t)
             /\ on[t] \in Serialized
    <3> PICK x \in Serialized : on[t] = x
      BY <2>3
    <3> USE DEF LoadFails, UnloadImage, ImplCreateFails, ImplDestroy, PushBack
    <3>0. /\ Changing(t, x) /\ on' = [on EXCEPT ![t] = NoSandbox]
          /\ pc' = [pc EXCEPT ![t] = "idle"] /\ UNCHANGED <<sandbox_created, found>>
      BY <2>3 DEF End, Changing, At, CreateSteps, DestroySteps
    <3>1. PhaseTable(x) /\ PhaseTable(x)'
      BY PhaseFacts, PhaseFactsNext
    <3>2. Quiet(x)'
      BY <1>0, <2>3, <3>0
         DEF Quiet, At, RefinementInv, SerialInv, SoleCaller, TypeOK
    <3>3. \A s \in Serialized \ {x} : PhaseOf(s)' = PhaseOf(s)
      <4>1. /\ on'[t] = NoSandbox
            /\ \A u \in Threads \ {t} : pc'[u] = pc[u] /\ on'[u] = on[u]
        BY <1>0, <3>0 DEF TypeOK
      <4> QED BY <3>0, <4>1, OnePhase
    <3>4. users' = users
      BY <2>3, <3>0, SameUsers DEF OtherSteps, symbolVars
    <3>5. CASE PushBack(t)
      <4>1. At(t, x, {"create_push"}) /\ sandbox_created[x] = "CREATED"
        BY <2>3, <3>5 DEF At, RefinementInv, SerialInv, SerialStatus
      <4>2. PhaseOf(x) = "coming" /\ PhaseOf(x)' = "ready"
        BY <3>0, <3>1, <3>2, <4>1 DEF PhaseTable, Creating, At, CreateSteps
      <4> QED BY <1>m, <2>3, <3>3, <3>4, <4>2 DEF Promise!PromiseNext, Promise!Ready
    <3>6. CASE LoadFails(t)
      <4>1. At(t, x, {"create_impl"}) /\ sandbox_created[x] = "INITIALIZING"
        BY <1>0, <2>3, <3>6 DEF At, RefinementInv, LifeInv, ClaimStatus
      <4>2. PhaseOf(x) = "coming" /\ PhaseOf(x)' = "failed"
        BY <3>0, <3>1, <3>2, <4>1 DEF PhaseTable, Creating, At, CreateSteps
      <4> QED BY <1>m, <2>3, <3>3, <3>4, <4>2 DEF Promise!PromiseNext, Promise!Fail
    <3>7. CASE UnloadImage(t)
      <4>1. At(t, x, {"destroy_impl"}) /\ sandbox_created[x] = "NOT_CREATED"
        BY <2>3, <3>7 DEF At, RefinementInv, SerialInv, SerialStatus
      <4>2. PhaseOf(x) = "going" /\ PhaseOf(x)' = "absent"
        BY <3>0, <3>1, <3>2, <4>1 DEF PhaseTable, Destroying, At, DestroySteps
      <4> QED BY <1>m, <2>3, <3>3, <3>4, <4>2 DEF Promise!PromiseNext, Promise!Gone
    <3> QED BY <2>3, <3>5, <3>6, <3>7
  <2> QED BY <1>1, <2>1, <2>2, <2>3 DEF LifecycleContinue, OtherSteps
<1>2. ASSUME NEW t \in Threads, NEW s \in Sandboxes, LifecycleCall(t, s)
      PROVE  [Promise!PromiseNext]_(Promise!promiseVars)
  <2>0. /\ Call(t, s) /\ ~Looking(t) /\ UNCHANGED symbolVars
        /\ s \in Serialized => FindSandbox(t, s) \/ \A u \in Threads : ~LookingIn(u, s)
    BY <1>2 DEF LifecycleCall
  <2>1. CASE RefuseCreate(t, s) \/ RefuseDestroy(t, s)
    BY <1>s, <2>0, <2>1
       DEF RefuseCreate, RefuseDestroy, symbolVars, phases, users, PhaseOf, UserOf, Quiet, At,
           Listed, Looking
  <2>2. CASE BeginCreate(t, s) \/ BeginDestroy(t, s)
    <3> USE DEF BeginCreate, BeginDestroy, Begin
    <3>0. /\ on[t] = NoSandbox /\ on'[t] = s /\ pc'[t] \in CreateSteps \union DestroySteps
          /\ \A u \in Threads \ {t} : pc'[u] = pc[u] /\ on'[u] = on[u]
          /\ \A q \in Serialized \ {s} : sandbox_created'[q] = sandbox_created[q]
          /\ UNCHANGED <<lookup, found>>
      BY <1>0, <2>0, <2>2 DEF TypeOK, Idle, symbolVars, CreateSteps, DestroySteps
    <3>1. users' = users
      BY <3>0, SameUsers
    <3>2. CASE s \notin Serialized
      <4>1. \A q \in Serialized : PhaseOf(q)' = PhaseOf(q)
        <5>1. ASSUME NEW q \in Serialized
              PROVE  /\ At(t, q, CreateSteps)' <=> At(t, q, CreateSteps)
                     /\ At(t, q, DestroySteps)' <=> At(t, q, DestroySteps)
                     /\ sandbox_created'[q] = sandbox_created[q] \/ Changing(t, q)
          BY <1>0, <3>0, <3>2 DEF At
        <5> QED BY <3>0, <5>1, SamePhases
      <4> QED BY <1>s, <3>1, <4>1 DEF phases
    <3>3. CASE s \in Serialized
      <4>1. PhaseTable(s) /\ PhaseTable(s)'
        BY <3>3, PhaseFacts, PhaseFactsNext
      <4>2. Quiet(s) /\ \A u \in Threads : on[u] # s /\ ~LookingIn(u, s)
        <5>1. ~FindSandbox(t, s)
          BY <1>0, <3>0 DEF FindSandbox, TypeOK, CreateSteps, DestroySteps
        <5>2. \A u \in Threads : ~LookingIn(u, s)
          BY <2>0, <3>3, <5>1
        <5>3. \A u \in Threads : on[u] # s
          BY <2>2, <3>3 DEF MayCall
        <5> QED BY <5>2, <5>3 DEF Quiet, At
      <4>3. \A q \in Serialized \ {s} : PhaseOf(q)' = PhaseOf(q)
        BY <3>0, <3>3, OnePhase
      <4>4. CASE BeginCreate(t, s)
        <5>1. PhaseOf(s) = "absent" /\ PhaseOf(s)' = "coming"
          BY <1>0, <4>1, <4>2, <4>4 DEF PhaseTable, Creating, At, CreateSteps, TypeOK
        <5> QED BY <1>m, <3>1, <3>3, <4>3, <5>1 DEF Promise!PromiseNext, Promise!Start
      <4>5. CASE BeginDestroy(t, s)
        <5>1. PhaseOf(s) = "ready" /\ PhaseOf(s)' = "going"
          BY <1>0, <4>1, <4>2, <4>5 DEF PhaseTable, Destroying, At, DestroySteps, TypeOK
        <5>2. \A u \in Threads : users[u] # s
          BY <1>0, <3>3, <4>2 DEF users, UserOf, LookingIn, Idle
        <5> QED BY <1>m, <3>1, <3>3, <4>3, <5>1, <5>2
                DEF Promise!PromiseNext, Promise!Stop, users
      <4> QED BY <2>2, <4>4, <4>5
    <3> QED BY <3>2, <3>3
  <2>3. CASE FindSandbox(t, s)
    <3> USE DEF FindSandbox, Begin
    <3>0. /\ on[t] = NoSandbox /\ on'[t] = s /\ pc[t] = "idle" /\ pc'[t] = "use_found"
          /\ \A u \in Threads \ {t} : pc'[u] = pc[u] /\ on'[u] = on[u]
          /\ UNCHANGED <<lookup, sandbox_created>>
      BY <1>0, <2>0, <2>3 DEF TypeOK, Idle, symbolVars
    <3>1. phases' = phases
      <4>1. ASSUME NEW q \in Serialized
            PROVE  /\ At(t, q, CreateSteps)' <=> At(t, q, CreateSteps)
                   /\ At(t, q, DestroySteps)' <=> At(t, q, DestroySteps)
                   /\ sandbox_created'[q] = sandbox_created[q] \/ Changing(t, q)
        BY <3>0 DEF At, CreateSteps, DestroySteps
      <4> QED BY <3>0, <4>1, SamePhases DEF phases
    <3>2. UserOf(t) = NoSandbox /\ \A u \in Threads \ {t} : UserOf(u)' = UserOf(u)
      BY <1>0, <2>0, <2>3, <3>0 DEF UserOf, Looking, Idle, TypeOK
    <3>3. CASE s \in Serialized
      <4>1. PhaseTable(s)
        BY <3>3, PhaseFacts
      <4>2. sandbox_created[s] = "CREATED" /\ \A u \in Threads : ~Changing(u, s)
        BY <2>3, <3>3 DEF MayFind, Changing
      <4>3. Quiet(s) /\ Listed(s)
        <5>1. sandbox_list[s] # 0
          BY <3>3, <4>2 DEF RefinementInv, SerialInv, SerialStatus
        <5>2. Quiet(s)
          BY <4>2 DEF Quiet, Changing
        <5>3. sandbox_list[s] \in Nat
          BY <1>0 DEF TypeOK
        <5> QED BY <5>1, <5>2, <5>3 DEF Listed
      <4>4. UserOf(t)' = s /\ PhaseOf(s) = "ready"
        BY <1>0, <2>0, <2>3, <3>0, <3>3, <4>1, <4>2, <4>3
           DEF UserOf, Looking, PhaseTable, TypeOK
      <4> QED BY <1>a, <3>1, <3>2, <3>3, <4>4 DEF Promise!PromiseNext
    <3>4. CASE s \notin Serialized
      <4>1. UserOf(t)' = NoSandbox
        BY <1>0, <2>0, <2>3, <3>0, <3>4 DEF UserOf, Looking, TypeOK
      <4> QED BY <1>s, <3>1, <3>2, <4>1 DEF users
    <3> QED BY <3>3, <3>4
  <2> QED BY <2>0, <2>1, <2>2, <2>3 DEF Call
<1>p. UNCHANGED vars /\ UNCHANGED image => phases' = phases
  BY DEF vars, phases, PhaseOf, Quiet, At, Listed
<1>3. ASSUME NEW t \in Threads, NEW s \in Sandboxes, NEW n \in Names,
             NEW kind \in LookupKinds, BeginLookup(t, s, n, kind)
      PROVE  [Promise!PromiseNext]_(Promise!promiseVars)
  <2>1. phases' = phases /\ s \in Serialized
    BY <1>p, <1>3 DEF BeginLookup
  <2>2. /\ UserOf(t) = NoSandbox /\ UserOf(t)' = s
        /\ \A u \in Threads \ {t} : UserOf(u)' = UserOf(u)
    BY <1>0, <1>3 DEF BeginLookup, vars, UserOf, Looking, LookupRecord, Idle, SymbolTypeOK
  <2>3. PhaseTable(s)
    BY <2>1, PhaseFacts
  <2>4. PhaseOf(s) = "ready"
    BY <1>3, <2>1, <2>3 DEF BeginLookup, MayFind, Quiet, PhaseTable
  <2> QED BY <1>a, <2>1, <2>2, <2>4 DEF Promise!PromiseNext
<1>4. ASSUME NEW t \in Threads, ContinueLookup(t)
      PROVE  [Promise!PromiseNext]_(Promise!promiseVars)
  <2>1. phases' = phases
    BY <1>p, <1>4 DEF ContinueLookup, Resolve, ResolveFails, StoreSymbol, UseSymbol
  <2>2. CASE Resolve(t) \/ StoreSymbol(t)
    <3>1. ResolveOutcome(t) \/ StoreOutcome(t)
      BY <1>0, <2>2, ResolveEffect, StoreEffect
    <3>2. \A u \in Threads : UserOf(u)' = UserOf(u)
      BY <3>1 DEF ResolveOutcome, StoreOutcome, UserOf, Looking, vars
    <3> QED BY <1>s, <2>1, <3>2 DEF users
  <2>3. CASE ResolveFails(t) \/ UseSymbol(t)
    <3>1. /\ Looking(t) /\ pc[t] = "idle" /\ lookup[t].sandbox \in Serialized
          /\ lookup' = [lookup EXCEPT ![t] = NoLookup] /\ UNCHANGED found
      BY <1>0, <2>3 DEF ResolveFails, UseSymbol, Looking, SymbolTypeOK, vars, RefinementInv,
                        SymbolInv, LookupsUndisturbed, LookupUndisturbed
    <3>2. /\ UserOf(t) # NoSandbox /\ UserOf(t)' = NoSandbox
          /\ \A u \in Threads \ {t} : UserOf(u)' = UserOf(u)
      BY <1>0, <3>1 DEF UserOf, Looking, NoLookup, LookupRecord, Idle, SymbolTypeOK
    <3> QED BY <1>r, <2>1, <3>2 DEF Promise!PromiseNext
  <2> QED BY <1>4, <2>2, <2>3 DEF ContinueLookup
<1>5. CASE UNCHANGED allVars
  BY <1>s, <1>p, <1>5, SameUsers DEF allVars, symbolVars, vars
<1> QED BY <1>1, <1>2, <1>3, <1>4, <1>5 DEF SymbolNext

(* For every set of threads, sandboxes and libraries, the code with serial   *)
(* callers implements SandboxPromise: sandboxes come up, are ready, go away  *)
(* and come up again, and a thread uses a sandbox only while it is ready.    *)
(* (That creating and destroying end is the part of ImplementsPromise that   *)
(* only TLC checks.)                                                         *)
THEOREM PromiseKept ==
  SymbolSpec => Promise!PromiseInit /\ [][Promise!PromiseNext]_(Promise!promiseVars)
<1>1. SymbolSpec => []RefinementInv
  <2>1. SymbolSpec => []LifeInv
    BY SymbolsKeepLifecycle, LifeInvariant, PTL
  <2> QED BY <2>1, SymbolInvariant, PTL DEF RefinementInv
<1>2. SymbolInit => Promise!PromiseInit
  <2> SUFFICES ASSUME SymbolInit PROVE Promise!PromiseInit
    OBVIOUS
  <2>1. \A s \in Serialized : PhaseOf(s) = "absent"
    BY SerializedAssumption, NoSandboxAssumption
       DEF SymbolInit, Init, PhaseOf, Quiet, Listed, At, CreateSteps, DestroySteps
  <2>2. \A t \in Threads : UserOf(t) = NoSandbox
    BY DEF SymbolInit, Init, UserOf, Looking, NoLookup, LookupRecord
  <2> QED BY <2>1, <2>2 DEF Promise!PromiseInit
<1> QED BY <1>1, <1>2, PromiseStep, PTL DEF SymbolSpec
=============================================================================
