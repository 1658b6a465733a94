--------------------------- MODULE SandboxSymbols ---------------------------
(***************************************************************************)
(* The function-pointer cache of rlbox_sandbox, func_ptr_map, beside the   *)
(* life of the sandbox it belongs to: lookup_symbol and                    *)
(* internal_lookup_symbol search the map under a shared lock, ask the      *)
(* plugin without a lock, and store the answer under a unique lock.        *)
(* create_sandbox loads a library image, perhaps at another place each     *)
(* time, and nothing empties the map.                                      *)
(*                                                                         *)
(* Symbols are looked up for sandboxes the application uses as it is asked *)
(* to, those of Serialized, and count as calls about them.                 *)
(***************************************************************************)
EXTENDS SandboxLifecycle

CONSTANTS Names,      \* symbol names
          Images,     \* libraries, each at a place it can be loaded
          NoImage,    \* nothing is loaded
          Exports,    \* Exports[i]: the names image i defines
          TwoTables,  \* TRUE: an internal address differs from an invocable one
          NoAddress   \* nullptr, and a name without an entry in the map

ASSUME NoImageAssumption == NoImage \notin Images
ASSUME ExportsAssumption == Exports \in [Images -> SUBSET Names]
ASSUME TwoTablesAssumption == TwoTables \in BOOLEAN

VARIABLES
  image,         \* what dlopen loaded for each sandbox
  func_ptr_map,  \* per sandbox, the cached address of each name
  lookup,        \* the symbol lookup each thread is in
  asked,         \* history: lookups begun since the library was loaded
  inherited      \* history: names cached when the library was loaded

symbolVars == <<image, func_ptr_map, lookup, asked, inherited>>
allVars == <<vars, symbolVars>>

-----------------------------------------------------------------------------
(* lookup_symbol serves invocations, internal_lookup_symbol the function     *)
(* pointers an application hands to the library.                             *)
LookupKinds == {"invoke", "internal"}

Address(i, n, kind) ==
  [image |-> i, name |-> n, kind |-> IF TwoTables THEN kind ELSE "invoke"]
Addresses == [image : Images, name : Names, kind : LookupKinds]
ASSUME NoAddressAssumption == NoAddress \notin Addresses

LookupSteps == {"idle", "resolve", "store", "use"}
LookupRecord(step, s, n, kind, answer) ==
  [step |-> step, sandbox |-> s, name |-> n, kind |-> kind, answer |-> answer]
Asking(step, me, answer) == LookupRecord(step, me.sandbox, me.name, me.kind, answer)
NoLookup == LookupRecord("idle", NoSandbox, NoAddress, "none", NoAddress)
Lookups ==
  [step : LookupSteps, sandbox : Serialized \union {NoSandbox},
   name : Names \union {NoAddress}, kind : LookupKinds \union {"none"},
   answer : Addresses \union {NoAddress}]

Looking(t) == lookup[t].step # "idle"
LookingIn(t, s) == Looking(t) /\ lookup[t].sandbox = s
Cached(s) == {n \in Names : func_ptr_map[s][n] # NoAddress}

SymbolInit ==
  /\ Init
  /\ image = [s \in Sandboxes |-> NoImage]
  /\ func_ptr_map = [s \in Sandboxes |-> [n \in Names |-> NoAddress]]
  /\ lookup = [t \in Threads |-> NoLookup]
  /\ asked = [s \in Sandboxes |-> {}]
  /\ inherited = [s \in Sandboxes |-> {}]

-----------------------------------------------------------------------------
(* Calls of SandboxLifecycle, now that symbol lookups use a sandbox too: the *)
(* application destroys a serialized sandbox when no lookup is under way.    *)
LifecycleCall(t, s) ==
  /\ ~Looking(t)
  /\ Call(t, s)
  /\ s \in Serialized => FindSandbox(t, s) \/ \A u \in Threads : ~LookingIn(u, s)
  /\ UNCHANGED symbolVars

(* The plugin's impl_create_sandbox loads the library. *)
LoadImage(t) ==
  /\ ImplCreate(t)
  /\ \E i \in Images : image' = [image EXCEPT ![on[t]] = i]
  /\ asked' = [asked EXCEPT ![on[t]] = {}]
  /\ inherited' = [inherited EXCEPT ![on[t]] = Cached(on[t])]
  /\ UNCHANGED <<func_ptr_map, lookup>>

(* It fails and leaves a null handle. *)
LoadFails(t) ==
  /\ ImplCreateFails(t)
  /\ image' = [image EXCEPT ![on[t]] = NoImage]
  /\ UNCHANGED <<func_ptr_map, lookup, asked, inherited>>

(* impl_destroy_sandbox closes the library; the map stays as it is. *)
UnloadImage(t) ==
  /\ ImplDestroy(t)
  /\ image' = [image EXCEPT ![on[t]] = NoImage]
  /\ UNCHANGED <<func_ptr_map, lookup, asked, inherited>>

OtherSteps(t) ==
  /\ \/ StoreCreated(t) \/ PushBack(t) \/ EraseFromList(t) \/ EraseFails(t)
     \/ StoreNotCreated(t) \/ UseFound(t)
  /\ UNCHANGED symbolVars

LifecycleContinue(t) ==
  LoadImage(t) \/ LoadFails(t) \/ UnloadImage(t) \/ OtherSteps(t)

-----------------------------------------------------------------------------
(* The search of the map under the shared lock: a hit is the answer. *)
BeginLookup(t, s, n, kind) ==
  /\ pc[t] = "idle" /\ ~Looking(t)
  /\ s \in Serialized /\ MayFind(s)
  /\ asked' = [asked EXCEPT ![s] = @ \union {<<n, kind>>}]
  /\ lookup' = [lookup EXCEPT ![t] =
       LookupRecord(IF n \in Cached(s) THEN "use" ELSE "resolve",
                    s, n, kind, func_ptr_map[s][n])]
  /\ UNCHANGED <<vars, image, func_ptr_map, inherited>>

(* impl_lookup_symbol or impl_internal_lookup_symbol finds the name. *)
Resolve(t) ==
  LET me == lookup[t]
  IN /\ me.step = "resolve"
     /\ image[me.sandbox] # NoImage /\ me.name \in Exports[image[me.sandbox]]
     /\ lookup' = [lookup EXCEPT ![t] =
          Asking("store", me, Address(image[me.sandbox], me.name, me.kind))]
     /\ UNCHANGED <<vars, image, func_ptr_map, asked, inherited>>

(* Mutant: the plugin's null answer is stored without a check. *)
ResolveFailureStored(t) ==
  LET me == lookup[t]
  IN /\ me.step = "resolve"
     /\ image[me.sandbox] = NoImage \/ me.name \notin Exports[image[me.sandbox]]
     /\ lookup' = [lookup EXCEPT ![t] = Asking("store", me, NoAddress)]
     /\ UNCHANGED <<vars, image, func_ptr_map, asked, inherited>>

(* "Symbol not found" is thrown, and nothing is stored. *)
ResolveFails(t) ==
  LET me == lookup[t]
  IN /\ me.step = "resolve"
     /\ image[me.sandbox] = NoImage \/ me.name \notin Exports[image[me.sandbox]]
     /\ lookup' = [lookup EXCEPT ![t] = NoLookup]
     /\ UNCHANGED <<vars, image, func_ptr_map, asked, inherited>>

(* The store under the unique lock, over whatever another thread stored. *)
StoreSymbol(t) ==
  LET me == lookup[t]
  IN /\ me.step = "store"
     /\ func_ptr_map' = [func_ptr_map EXCEPT ![me.sandbox][me.name] = me.answer]
     /\ lookup' = [lookup EXCEPT ![t] = Asking("use", me, me.answer)]
     /\ UNCHANGED <<vars, image, asked, inherited>>

(* The caller invokes the function, or passes its address on, and returns. *)
UseSymbol(t) ==
  /\ lookup[t].step = "use"
  /\ lookup' = [lookup EXCEPT ![t] = NoLookup]
  /\ UNCHANGED <<vars, image, func_ptr_map, asked, inherited>>

ContinueLookup(t) == Resolve(t) \/ ResolveFails(t) \/ StoreSymbol(t) \/ UseSymbol(t)

-----------------------------------------------------------------------------
SymbolNext ==
  \E t \in Threads :
    \/ LifecycleContinue(t) \/ ContinueLookup(t)
    \/ \E s \in Sandboxes :
         \/ LifecycleCall(t, s)
         \/ \E n \in Names, kind \in LookupKinds : BeginLookup(t, s, n, kind)

SymbolSpec == SymbolInit /\ [][SymbolNext]_allVars

(* A thread inside an operation keeps being scheduled; nothing makes it call. *)
FairSymbolSpec ==
  /\ SymbolSpec
  /\ \A t \in Threads : WF_allVars(LifecycleContinue(t) \/ ContinueLookup(t))

-----------------------------------------------------------------------------
SymbolTypeOK ==
  /\ TypeOK
  /\ image \in [Sandboxes -> Images \union {NoImage}]
  /\ func_ptr_map \in [Sandboxes -> [Names -> Addresses \union {NoAddress}]]
  /\ lookup \in [Threads -> Lookups]
  /\ \A t \in Threads : Looking(t) =>
       /\ lookup[t].sandbox \in Serialized /\ lookup[t].name \in Names
       /\ lookup[t].kind \in LookupKinds
  /\ asked \in [Sandboxes -> SUBSET (Names \X LookupKinds)]
  /\ inherited \in [Sandboxes -> SUBSET Names]

(* The address a caller is given belongs to the name it asked for and, but   *)
(* for names the map had kept from an earlier loading, to the library that   *)
(* is loaded now; and it is of the kind asked for unless the other kind was  *)
(* also looked up.  Racing lookups and failed ones make no difference.       *)
AnswersAreCurrent ==
  \A t \in Threads : lookup[t].step = "use" =>
    LET s == lookup[t].sandbox
        n == lookup[t].name
        answer == lookup[t].answer
    IN n \notin inherited[s] =>
         \E kind \in LookupKinds :
           answer = Address(image[s], n, kind) /\ <<n, kind>> \in asked[s]

-----------------------------------------------------------------------------
(* The refinement mapping, for the sandboxes whose callers are serial.  A    *)
(* sandbox is ready only once it is in the list, and gone only once the      *)
(* plugin has let go of its library.                                         *)
Quiet(s) == \A t \in Threads : ~At(t, s, CreateSteps \union DestroySteps)

PhaseOf(s) ==
  CASE \E t \in Threads : At(t, s, CreateSteps)  -> "coming"
    [] \E t \in Threads : At(t, s, DestroySteps) -> "going"
    [] /\ Quiet(s) /\ sandbox_created[s] = "CREATED"
       /\ Listed(s) /\ image[s] # NoImage         -> "ready"
    [] /\ Quiet(s) /\ sandbox_created[s] = "NOT_CREATED"
       /\ ~Listed(s) /\ image[s] = NoImage        -> "absent"
    [] OTHER                                     -> "failed"

(* The sandbox a thread converts a pointer or looks up a symbol with. *)
UserOf(t) ==
  IF Looking(t) THEN lookup[t].sandbox
  ELSE IF found[t] \in Serialized THEN found[t] ELSE NoSandbox

Promise == INSTANCE SandboxPromise
  WITH Sandboxes <- Serialized,
       phase <- [s \in Serialized |-> PhaseOf(s)],
       user <- [t \in Threads |-> UserOf(t)]

(* With serial callers the code keeps the promise of SandboxPromise: a       *)
(* thread only ever uses a sandbox that is ready and stays so, and creating  *)
(* and destroying a sandbox come to an end.                                  *)
ImplementsPromise == Promise!PromiseSpec
=============================================================================
