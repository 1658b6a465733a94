# A TLA+ verification of RLBox

RLBox (`src/code/include`) is a header-only C++ framework for running a library inside a sandbox and
using it from an application that does not trust it. The framework proper is
`rlbox_sandbox<T_Sbx>`, parameterised by a *plugin* `T_Sbx` that supplies the isolation (the no-op plugin
`rlbox_noop_sandbox.hpp` and the dynamic-library plugin `rlbox_dylib_sandbox.hpp` are part of the
repository). Most of what RLBox enforces is enforced by the C++ type checker, before the program runs:
`tainted<T>` values cannot be used without being verified. What remains at run time, and what is verified
here, is the *state*: which sandboxes exist, which callbacks the library may call and which function each
of its calls reaches, which numbers stand for which application pointers, which bytes an operation touches,
and what several threads do to all of that at the same time.

All line numbers below refer to `src/code/include/`; `PROJECT.json` maps every definition to its lines.

## 1. Inventory

| component | state | operations | hard behaviour | correct when |
|---|---|---|---|---|
| **Sandbox lifecycle** `rlbox_sandbox.hpp` 101–128, 328–472; `rlbox_dylib_sandbox.hpp` 111–155 | atomic `sandbox_created`, static `sandbox_list` under `sandbox_list_lock`, the plugin's resource | `create_sandbox`, `destroy_sandbox`, `find_sandbox_from_example` | several threads; status, list and resource change in separate steps; the plugin may fail half way; the list is shared by all sandboxes | one thread at a time holds a claim on a sandbox; CREATED means usable; the list holds exactly the usable sandboxes |
| **Callback registration and ownership** `rlbox_sandbox.hpp` 307–326, 888–992; `rlbox_policy_types.hpp` 20–158; plugin tables `rlbox_noop_sandbox.hpp` 57–61, 190–234 | `callback_keys` under `callback_lock`; the plugin's `callback_unique_keys`, `callbacks` under `callback_mutex`; fields of `sandbox_callback` objects | `register_callback`, `unregister_callback`, move, assignment, destruction of objects | two tables under two locks; move semantics; objects outlive the sandbox; a finite table | the tables agree; each key has one owner; an owned trampoline reaches its function; nothing leaks |
| **Invocation and callback dispatch** `rlbox_sandbox.hpp` 231–301, 776–842; `rlbox_noop_sandbox.hpp` 57–86, 177–221; `rlbox_dylib_sandbox.hpp` 74–102, 237–266 | thread-local `thread_data` (`sandbox`, `last_callback_invoked`), the plugin's table, the threads' call stacks, the transition hooks' state | `INTERNAL_invoke_with_func_ptr`, trampoline, interceptor, callback return and throw | nesting to any depth over several sandboxes, exceptions, tables read without a lock while others change them | the right function gets the right sandbox; IN and OUT hooks pair up |
| **App pointers** `rlbox_app_pointer.hpp`; `rlbox_policy_types.hpp` 178–276; `rlbox_sandbox.hpp` 1017–1057 | `pointer_map`, `counter` under `map_mutex`; fields of `app_pointer` objects | `get_app_pointer`, `lookup_app_ptr`, `unregister`, move, assignment | indices are reused; the search wraps around; the number of indices is small | an object's index looks up its own pointer; indices are not lost |
| **Symbol lookup** `rlbox_sandbox.hpp` 722–760 | `func_ptr_map` under `func_ptr_cache_lock` | `lookup_symbol`, `internal_lookup_symbol` | read, resolve and store are three steps, the middle one without a lock; two kinds of address share one map; the cache survives the sandbox | an address belongs to the library now loaded, the name and the kind asked for |
| **Transition timing** `rlbox_sandbox.hpp` 94–98, 246–263, 785–796, 1059–1087 | `transition_times` | push at the end of invocations and callbacks, total, clear | several threads push; the guard macro used names a lock but takes none; calls end by exceptions; a clear in mid-call | the total is the time spent in the sandbox |
| **Range checks, pointer arithmetic** `rlbox_range.hpp`, `rlbox.hpp` | none | `check_sandbox_pointer_range_is_contained`, `+ - []` on tainted pointers | unsigned wrap-around at the ends | a range that passes is inside the sandbox |
| **Sandbox memory allocation** `rlbox_sandbox.hpp` 535–640 | the plugin's heap | `malloc_in_sandbox`, `free_in_sandbox` | overflow of sizes; calls after destruction; the plugin's answer is checked, not trusted | what is returned lies inside the sandbox |
| **Memory operations** `rlbox_stdlib.hpp` | application and sandbox buffers | `memset`, `memcpy`, `memcmp`, `copy_memory_or_grant_access`, `copy_memory_or_deny_access` | several steps of which each may fail | exactly one side owns the buffer at the end |
| **Copy and verify** `rlbox.hpp` 480–760 | sandbox memory | `copy_and_verify`, `_range`, `_string`, `_address` | library threads write while the application measures and copies | the verifier sees one copy, of the size that was checked |
| **Conversion** `rlbox_conversion.hpp` | none | `convert_type` and its helpers | integer widths differ on the two sides | a value is preserved or refused |
| **Struct support, operators on sandbox data** `rlbox_struct_support.hpp` 72–294; `rlbox.hpp` 179–228, 967–983, 1150–1339; pointers in `rlbox_sandbox.hpp` 474–522 and the plugin | sandbox memory | load and store of a struct, `=`, `+=`, `++` and the like, `assign_raw_pointer` | one memory access per field, with library writes in between; a field that does not convert throws half way; pointers lose their upper bits | what is read was there; a store stops at the first refusal; pointers come home |
| **Tainted wrappers, type traits** `rlbox.hpp`, `rlbox_unwrap.hpp`, `rlbox_type_traits.hpp`, … | none | compile-time | — | decided by the C++ compiler |

How they interact. The application calls `create_sandbox`; from CREATED on it registers callbacks, allocates
sandbox memory, reads and writes structs there, makes app pointers and invokes functions by name through the symbol cache. An invocation
sets the thread's `thread_data.sandbox` and jumps into library code; library code that calls a registered
trampoline comes back through the interceptor, which reads `thread_data` and the plugin's table to find
sandbox and function; the callback may invoke again. Registration writes the table that dispatch reads.
Pointer conversion without a sandbox at hand goes through `find_sandbox_from_example` and the static list.
Every operation but invocation and dispatch asks `sandbox_created` first; for those two the comment at
`rlbox_sandbox.hpp:113` leaves the check to the application, and so do the models.

## 2. Modules

| module | what it is |
|---|---|
| `SandboxPromise` | what the application is promised about a sandbox's life |
| `SandboxLifecycle` | the code: status word, list, plugin resource, one action per atomic step |
| `SandboxSymbols` | the symbol cache, composed with the lifecycle that loads and unloads the library; extends `SandboxLifecycle` and implements `SandboxPromise` |
| `CallbackOwnership` | what registration and `sandbox_callback` objects promise |
| `CallbackRegistry` | the code: two tables, two locks, objects that move |
| `CallbackDispatch` | invocation, trampoline, interceptor, nesting, exceptions, hooks |
| `TransitionTimes` | the records of invocations and callbacks, composed with the calls they measure; extends `CallbackDispatch` |
| `AppPointerPromise` | what an `app_pointer` refers to |
| `AppPointerMap` | the code: map, counter, search, objects |
| `AddressSpace` | operators: addresses that wrap, regions, the range check of `rlbox_range.hpp` |
| `MemoryOps` | allocation, pointer arithmetic, `memset` and its relatives, buffer transfers; extends `AddressSpace` |
| `IntConversion` | operators: the checks and the cast of `convert_type_fundamental` |
| `CopyAndVerify` | copying out of memory that changes meanwhile; extends `AddressSpace` and `IntConversion` |
| `StructAccess` | structs in sandbox memory, operators and pointers there, composed with the copying calls on the same memory; extends `CopyAndVerify` |
| `MC…` | symmetry sets and values for TLC; each extends the module it instantiates |
| `…_proofs` | theorems and their TLAPS proofs; each extends the module it is about, `CopyAndVerify_proofs` with `IntConversion` |

Operators named `…Unchecked`, `…Keeps…`, `Copy…` and the like, each under a comment that starts with
"Mutant", are deliberate mistakes. No next-state relation uses them; each takes the place of the definition that follows
it to see that a property notices.

### Conventions

* **Atomic steps.** A compare-and-swap, an atomic store, a call into the plugin and a critical section are
  one action each; what a thread does to its own objects between two of them is folded into one of them.
* **Failed checks.** `detail::dynamic_check` throws, as it does when built with `RLBOX_USE_EXCEPTIONS`: the
  operation ends there and leaves behind what it has written. (In the other build the process aborts and
  there is no later state.)
* **Vectors** in which only membership is ever asked (`sandbox_list`, `callback_keys`) are functions
  that count occurrences; `push_back` adds one, `erase(find(..))` takes one away.
* **Contracts.** What the code's comments leave to the application is a constant where both settings are of
  interest (`Serialized`, the set of sandboxes whose callers keep the rules, `Overwrites`, `OutliveSandbox`), and is
  stated in the guard of the action where it is not.
* **Compositions** extend the module they add to and take its actions as they are, conjoined with what the added
  state does: `SandboxSymbols`, `TransitionTimes` and `StructAccess`. Each is proved to allow only behaviours
  of the module below it (section 4).

### SandboxLifecycle

`sandbox_created[s]` is the atomic of sandbox `s`, `sandbox_list[s]` how often it occurs in the static vector,
`backend[s]` whether the plugin holds its resource (the handle from `dlopen`). `pc[t]` says between
which two steps thread `t` is: `create_sandbox` is `BeginCreate` (the compare-and-swap) or `RefuseCreate`, `ImplCreate`
or `ImplCreateFails`, `StoreCreated`, `PushBack`; `destroy_sandbox` is `BeginDestroy` or `RefuseDestroy`, `EraseFromList` or
`EraseFails`, `StoreNotCreated`, `ImplDestroy`, in the order of the code. `find_sandbox_from_example` walks the list for the
sandbox that contains an example pointer; sandbox memories do not overlap, so the example is identified with the sandbox
that contains it, and `UseFound` is the use the caller makes of the raw pointer after the lock is released.

`Serialized` are the sandboxes whose callers keep the contract of the comment at line 113: calls about *one* of them do not
overlap, and pointers are converted only while it is created. Calls about the others overlap in any way, and all share the
list, so what unruly callers of one sandbox do to it is seen by the ruled ones of another.

### SandboxSymbols

`lookup[t]` is the lookup thread `t` is in: `BeginLookup` is the search of `func_ptr_map` under the shared lock, a hit being the answer;
`Resolve` or `ResolveFails` the plugin's `dlsym`; `StoreSymbol` the store under the unique lock, over whatever
is there; `UseSymbol` the invocation, or the function pointer handed to the library. `image[s]` is the library
`dlopen` loaded, and `Exports[i]` what it defines; one may be loaded at different places by
different calls of `create_sandbox`, and one may lack a name, as after an update. `TwoTables` is whether a plugin's internal address differs from the
invocable one (`needs_internal_lookup_symbol`); in the plugins of the repository it does not, and the instance checked is
the general one. The lifecycle's steps are those of `SandboxLifecycle`; `LoadImage`, `LoadFails` and `UnloadImage` add what
the plugin does. Lookups count as calls about the sandbox, so a serialized one is not destroyed under them. `asked` and `inherited` are histories:
which lookups there were since the library was loaded, and which names the map still had from before.

### CallbackRegistry

One sandbox (the tables are per sandbox), any number of threads, functions and objects, created and
destroyed repeatedly. A key is the address of the application function, so functions are keys. `callback_unique_keys` stands for
both arrays of the plugin: an entry's interceptor in `callbacks` is null exactly when its key is, since both are
written in the same critical section. Registering is `RegisterKey`, `RegisterImpl`, `RegisterBuild`; unregistering is
`UnregisterBegin`, `UnregisterImpl`, `UnregisterErase`, or `UnregisterSwallowed` when the sandbox is not created.
`MoveHandle` is the move constructor and assignment. A callback object is used by one thread at a time, as the
comment at `rlbox_policy_types.hpp:84` asks, and creation and destruction wait for calls in progress.

### CallbackDispatch

`stack[t]` is the call stack of thread `t`: an *invoke* frame carries `old_sandbox`, which
`impl_invoke_with_func_ptr` keeps in a local variable and puts back in a scope guard; a *trampoline* frame turns into an
*interceptor* frame and then into a *callback* frame as the code tail-calls from one to the next. `InvokeEnds` and
`CallbackThrows` are the two ways a scope ends and run the scope guards in both. `entered[t][s]` counts IN hooks minus OUT hooks.
The interceptor's read of the table takes no lock in the code, and other threads' `Register` and
`Unregister` interleave with it. A callback is not unregistered while a call is on its way to it
(between library code's jump to the trampoline and the interceptor's read of the key): the code cannot detect it, and
the application has to see to it; it may be unregistered while it runs, also by itself.
Conversions are modelled by whether they succeed: `CallbackParamFails` is an argument that does not convert, after the OUT hook
and before the callback; a result that does not convert leaves by `CallbackThrows` or `InvokeEnds`.

### TransitionTimes

`enter_time[t]` runs beside `stack[t]` and holds the clock at the start of each call; when the call ends its scope guard reads the
clock again and appends a record. `RLBOX_ACQUIRE_UNIQUE_GUARD(transition_times_lock)` has no second argument, so the macro
(`rlbox_helpers.hpp:82`) declares a function and locks nothing: `ReadSize` and `WriteRecord` are the two halves of the unlocked `push_back`, and
other threads run between them. Overlapping appends are a data race; the model loses a record, the build may do anything, so
`spoiled[s]` becomes `"raced"` and nothing is claimed of that vector until the next quiet `Clear`. `inside[s]` is what the total is
compared with: at each `Tick` it grows by the number of threads that execute code on behalf of `s`, defined from the stacks alone.
Hooks and trampolines take no time of their own.


### AppPointerMap

The constructor's entry 0, `counter`, the two loops of `get_unused_index` (`UpperRange`, then `WrappedRange`), and the objects.
Every operation is a single critical section of `map_mutex` followed by writes to an object of the calling thread, so it is
one action. `MaxIndex` is `min(get_total_memory() - 1, 4096)`; no plugin's integer type wraps there, so
`counter` is an unbounded integer that is *proved* to stay below `MaxIndex + 2`. `Representable` are the indices for which the check on line 1031 of
`rlbox_sandbox.hpp` succeeds; a failure there leaves the entry behind. `leaked` is a history variable: the indices lost through that check
or because a registered object was assigned to. No action reads it.

### AddressSpace and MemoryOps

`uintptr_t` and `size_t` are the integers modulo `Modulus`, and every sum and product of the code is wrapped where the code's
would be. Sandbox memory is one aligned region, and two pointers belong together when their upper bits agree, as in the
test plugin (`src/code/tests/rlbox/test_include.hpp:200`) and in plugins that mask pointers; the no-op plugin answers every such
question with yes and has nothing to check. One operation is one action, because the thread owns the tainted pointer `cursor` it
works on: `Malloc` (all checks of `malloc_in_sandbox`, for an allocator that returns any address), `Offset` (`+ - ++ --` and the
compound forms), `Index`, `AssignRaw`, `Receive` (a pointer read from sandbox memory), `Memset`, `Memcpy` (also `strncpy` and `memcmp`),
`SafePointer` and `BufferAddress`. `asked` is the set of bytes that the operation uses or hands out, computed from the *unwrapped*
request, and `outcome` how it ended: a `dynamic_check` refuses, a failed range check aborts the process.

`CopyOrGrant` and `CopyOrDeny` are the transfer functions, split by outcome. `homes[b]` is the set of sides that have a usable copy
of buffer `b`; `told[b]` is the set the caller computes from the result, from `free_source_on_copy` and from the flag
`copied`, which is one variable for all calls, so that a value left by an earlier one can mislead.
Three contracts are in guards: `unverified_safe_pointer_because` and `copy_and_verify_buffer_address` are asked for no more
bytes than the memory has (nothing else bounds their size), `[]` is applied to proper pointers (unlike `+` it does not look for null),
and a transfer out is given the pointer that the transfer in returned.

### IntConversion and CopyAndVerify

A type is its signedness and its number of values. `Accepted` has one disjunct per `constexpr` branch.

Memory is a few cells, each an integer as the sandbox lays it out. `call` is the call in progress, `copy` what it has copied so
far. `Begin` reads the pointer and tests it for null where the code does; `Strlen` reads one cell; `CheckNull` and `CheckRange` are
`verify_range_helper`, which reads the pointer *again*; `CopyElement` copies one element, with another read of the pointer
and the check of `operator[]` where the code indexes; `Verify` puts the terminator and calls the verifier. With
`volatile` the pointer itself is in sandbox memory (`slot`). Between any two steps library code may write a cell or move
that pointer. Cells outside the region read by `strlen` are arbitrary, or end the process (`overrun`); any other access outside
ends it as `strayed`. `Leave` is the application dropping the result of its last call. `dirty` and `stored` are histories that no action of the code reads.

### StructAccess

`Fields` is a struct: some of the cells (an array counts as its elements, since `convert_type` converts arrays of different
element sizes one by one) and one pointer, `Link`, which is the `slot` of `CopyAndVerify`. `access` is the load, store or compound
assignment in progress. `LoadField` and `StoreField` convert one field each, with `Load`, `Assign` and `PointerMoves` of `CopyAndVerify`, so a store throws
at the first field that the sandbox's `long` does not have; `AddReads` and then `StoreField` are `*p += n` and its relatives, two separate
accesses in the code too. Accesses to a single field are structs of one. Library code writes between any two steps.
Pointers in sandbox memory are offsets and are converted as the test plugin does
(`Sandboxed`, `Unsandboxed`: mask, and add the region's base; 0 is null, `rlbox_sandbox.hpp` 479, 491, 503, 517).
`AssignPointer` is `= nullptr` and `assign_raw_pointer`. `seen`, `noise` and `kept` are histories: the values each field had
during the access, whether the library wrote, and the pointer last assigned.

## 3. What TLC checks

| run | instance | shows |
|---|---|---|
| `lifecycle` | 2 sandboxes, one of them in `Serialized`, 2 threads, 1 symbol of 2 kinds, 2 libraries of which one lacks it, fair; 743,160 states | `SymbolTypeOK`; for both sandboxes `OneClaimant`: at most one thread is between compare-and-swap and store, and `ListedOnce`: no duplicate and no stale list entry; for the serialized one `FindReturnsReady`, `SerialDestroyFinds`, `AnswersAreCurrent`, and `ImplementsPromise`: refinement of `SandboxPromise` with its liveness |
| `lifecycle_erase` | 1 sandbox, 2 threads, no contract; **violation** | a `destroy_sandbox` between the store of CREATED (439) and the `push_back` (441) fails with "Destroying a sandbox that was never initialized." and leaves CLEANING_UP for good |
| `lifecycle_retry` | 1 sandbox; **violation** | after a failed `impl_create_sandbox` the status stays INITIALIZING, and a retry is refused as "already created/is being created concurrently" |
| `callbacks_any` | 2 threads, 3 functions, 3 objects, table of 2; objects overwritten and outliving the sandbox | `TypeOK`, `TablesAgree`, `OneOwner`, `UnregisterFindsKey`, `TrampolineReachesKey` |
| `callbacks_owners` | 2 threads, 2 functions, 3 objects, table of 2; objects used as owners, fair | `NoOrphanKeys`, `RegisteredIsCallable`; `ImplementsOwnership`: refinement of `CallbackOwnership` with its liveness |
| `callbacks_outlive` | 1 thread, 1 object; **violation** | an object destroyed after `destroy_sandbox` leaves its key in both tables, which survive; in the re-created sandbox the function is refused as "previously already registered" though nothing owns it |
| `callbacks_full` | table of 1, 2 functions; **violation** | with the table full `register_callback` returns a registered object with a null trampoline |
| `dispatch_nested` | 2 threads, 2 sandboxes, 2 functions, table of 2, 5 nested calls | `TypeOK`, `RightSandbox`, `RightFunction`, `HooksMatchStack` |
| `transition_times` | 2 threads, 1 sandbox, 1 callback, calls 3 deep, 2 ticks, calls start with fewer than 2 records; 3.0 million states | `TotalIsTimeInside`: the total is the time threads spent in the sandbox; `TotalNeverShort`: after a clear in mid-call it is at least that |
| `app_pointers` | 4 objects, 4 indices of which one is not representable, 2 pointers (null among them) | `TypeOK`, `OwnIndex`, `EntriesOwned`, `RefusedOnlyWhenFull`; `ImplementsPromise`: refinement of `AppPointerPromise` |
| `memory_ops` | 16 addresses, 4 regions of 4 bytes, every address and size, elements of 1 and 3 bytes, a buffer of 3 bytes | `TypeOK`, `PointersStayInside`, `AccessStaysInside`, `RefusalIsJustified`, `HomesAsTold` |
| `copy_verify` | 12 addresses, a region of 3 cells, ranges of 0, 1, 3 and 11 elements, strings, longs of 4 values in the sandbox and 16 in the application, a struct of a pointer and a long, `+= 1` and `+= -1`, elements of one cell and of two, pointers into the region, to its first byte, into another region and null; 374,176 states | `StructTypeOK`, `StraysOnlyIfTakenAway`, `AlwaysTerminated`, `ExactWhenQuiet`, `EndIsJustified`, `StoredIsRead`, `ReadsWereThere`, `StoresArePrefixes`, `PointersComeHome` |

Every property of a passing run has a mutant in `PROJECT.json`: a plausible slip in one definition under which the run
finds that property violated.

**Bounds.** Lifecycle: two threads are what a claim sets against each other and what a race of two lookups takes, and
two sandboxes share the list, so entries of one are erased while the other is added; two libraries give every order of loading one, the other,
and the same one again (the proofs of section 4 cover any number of all of these). Timing: three calls are invoke, callback, invoke again in the
same sandbox; two records let two appends overlap and a record follow a lost one; with two sandboxes the instance passes
15 million states, so calls that change sandbox are left to `dispatch_nested`, whose stacks the timing adds to. Callbacks: three functions and
a table of two give a full table and a freed entry that another function takes; three objects allow chains of moves. Dispatch: five
nested calls are invoke, callback, invoke (other sandbox), callback, invoke, the shortest stack with a sandbox
entered twice around another one; `MaxDepth` is the only bound on behaviours, in the guards of `Invoke` and `CallTrampoline`.
App pointers: more objects than usable indices, so the search wraps around, fails, and starts
everywhere. Memory: with 16 addresses every sum and product wraps in some case, a region of 4 has sizes below, at and above it, and
`TotalMemory` is one byte less than the region, so that the two limits differ. Copying: the pointer is at the first or the last
cell, the string ends in each cell or in none, 11 elements wrap around past null to end before the pointer. In the struct the pointer is stored before the long, so a refusal of the long leaves a changed pointer. `MaxDepth`, `MaxTime` and `MaxRecords` are
the only bounds in guards: all other counters are finite by the code's own checks.

**Fairness.** `FairSpec` gives each thread weak fairness on `Continue(t)`, the steps of an operation it has
begun, and `FairSymbolSpec` on these and the steps of a lookup: a thread inside a call keeps being scheduled, the plugin's calls return, and the locks are held for one step each, so none
is waited for indefinitely. Nothing makes a thread call. `CallbackDispatch`, `TransitionTimes`, `AppPointerMap`, `MemoryOps`, `CopyAndVerify` and
`StructAccess` assert safety only; a library function may run for ever, and `strlen` and the copies are loops over finite memory.

**Deadlock** is checked in all runs but two: an idle thread can always call. It is not in `memory_ops` and
`copy_verify`, where a failed range check ends the process.

**What the contracts are for.** For a sandbox outside `Serialized`, `FindReturnsReady` would fail: `destroy_sandbox` publishes
NOT_CREATED (470) before it calls `impl_destroy_sandbox`, and a `create_sandbox` let in by that store can lose the library it
has just loaded. With `Overwrites = TRUE`, `NoOrphanKeys` fails: `sandbox_callback::operator=` (136) forgets the key the object owned.
`OneClaimant`, `ListedOnce` and the invariants of `callbacks_any` need no contract.

**What a cached symbol is worth.** Within one loading of the library, `AnswersAreCurrent` holds for every race of lookups, found or failed. It excepts
the names that were cached when the library was loaded, since nothing empties the map: with another library, or the same one at
another place, such a name gives the old address. It also lets a lookup of one kind be answered with the other kind's address if
that was looked up too, which is what sharing one map does where `TwoTables` holds.

**What the total is worth.** `TotalIsTimeInside` needs the clear to come between calls and no two appends to overlap: the
first is the application's choice, the second the missing lock. A clear by a callback discards the records of callbacks that
have ended, while the invocation around them is still recorded in full, so the total then says too much.

**What the range check is worth.** `check_sandbox_pointer_range_is_contained` compares the regions of the first and the last byte, and the
last is computed with wrap-around: on its own it admits a size close to `SIZE_MAX`, and refuses size 0 at the first byte of the memory.
`AccessStaysInside` holds because each caller bounds the size first: by the total memory (`memset` and its relatives), by an allocation that
succeeded (`copy_and_verify_range`; no allocation of half the address space does), or by contract.

**What copying is worth.** For a pointer in sandbox memory, `copy_and_verify_range` and the `unique_ptr` form of
`copy_and_verify_string` read the pointer anew after the check. Non-null pointers are caught by the check in `operator[]`; a pointer that has
become null meanwhile is followed. A `long` that is narrower in the sandbox (`cells = 2`) is read as the application's, two cells at each
step of one: line 605 gives the verifier mixtures of neighbours (`WideRangeMixes`, section 4), so the exactness properties are about elements as large on both sides. The
last read takes in one cell more than the elements have, which the range checked covers, being as many of the application's; it is covered no longer when a pointer in
sandbox memory has moved since, as `operator[]` compares only the first cell, and for a single element (line 534) nothing is checked. `StraysOnlyIfTakenAway` says that these are the only ways out.

## 4. What is proved

TLAPS proves the following for every value of the constants; `tlapm` checks each to the last leaf. The only assumptions are
the named `ASSUME`s of the modules (null values differ from proper ones, table sizes and index bounds are positive, the region lies in the address space, the threads of `TransitionTimes` are finitely many), which TLC evaluates.

* **`SandboxLifecycle_proofs`** — `TypeCorrect`, `ClaimIsExclusive` (`OneClaimant`), `ListEntryUnique` (`ListedOnce`) for any callers. `OneClaimant` is
  not inductive: a second claimant is excluded only by the status. The invariant ties the
  status to the place of each thread that passed a compare-and-swap (`ClaimStatus`), and the list to the status and to the threads that have still
  to push, of which there is at most one and only while the entry is missing. For the sandboxes of `Serialized`, `FindReady` (`FindReturnsReady`) and `DestroyFindsEntry`
  (`SerialDestroyFinds`): the invariant says for each place a thread can be that it is alone with the sandbox, and what status, list and library are
  there. `SymbolsKeepLifecycle` shows that `SandboxSymbols` allows only behaviours of `SandboxLifecycle`, so all of this holds with lookups;
  `SymbolTypeCorrect` (`SymbolTypeOK`) and `SymbolAnswers` (`AnswersAreCurrent`) are about the cache: each of its entries, and each answer on its way there, is inherited or of the loaded
  library. `PromiseKept` is the safety half of `ImplementsPromise`: initial states are initial, and every step, lookups included, is a step or a stutter of
  `SandboxPromise`.
* **`CallbackRegistry_proofs`** — `TypeCorrect`, `SingleOwner` (`OneOwner`), `TablesConsistent` (`TablesAgree`), `UnregisterSafe`
  (`UnregisterFindsKey`), `TrampolineBound` (`TrampolineReachesKey`), for any use of the objects. The five need each other: the
  inductive invariant adds that the key of every object and of every call in progress is in `callback_keys`, and that a call's trampoline
  is bound to its key, so that the first table entry with a key is the only one. Two contracts of use give the rest. When objects are used as
  owners (`UsedAsOwners`: not assigned to while they own, unregistered before the sandbox goes), `KeysOwned` (`NoOrphanKeys`) and `RefusalJustified` (`RefusalMeansOwned`, the action property that the run
  `callbacks_outlive` refutes where an object outlives the sandbox: a second registration is refused only while somebody owns the first). When the plugin's table has an entry
  for each function (`RoomForAll`), `RegisteredCallable` (`RegisteredIsCallable`), by the pigeonhole principle: the keys in the table are distinct and none is the
  new one, so the search for a free entry succeeds. With both, `OwnershipKept`, the safety half of `ImplementsOwnership`: every step
  is a step or a stutter of `CallbackOwnership`. Where a contract is broken, section 3 gives the counterexample TLC finds.
  `TableAsDispatched` joins the registry to dispatch: `CallbackDispatch` lets its table change by whole registrations (a function that is not there takes the first
  free entry) and unregistrations (one entry is freed), and for any use of the objects every step of the registry comes to one of these or leaves the table alone. That it does rests
  on `TablesAgree` and `InProgress`: the key of a registration under way is not yet in the table, and is there once when it is taken out. What stays the application's part is not to unregister a callback
  that a call is on its way to.
* **`CallbackDispatch_proofs`** — `TypeCorrect`, `SandboxIsRight` (`RightSandbox`), `FunctionIsRight` (`RightFunction`), `HooksAreRight`
  (`HooksMatchStack`), for any nesting depth. The invariant describes each thread's stack (`WellNested`: frames
  alternate, and each callback carries its caller's sandbox), says that `thread_data.sandbox` is that of the innermost
  invocation and that the `saved` field of each invocation is that of the next one out — which is what makes
  restoring it correct —, and ties `last_callback_invoked` and the hook counts to the innermost frame.
* **`TransitionTimes_proofs`** — `TimesTypeCorrect`, `TotalIsRight` (`TotalIsTimeInside`), `TotalIsEnough` (`TotalNeverShort`), for any finite number of
  threads, any sandboxes, nesting of any depth and any hooks. `TimingKeepsCalls` shows first that `TransitionTimes` allows
  only behaviours of `CallbackDispatch`: measuring does not change what is measured, and the stacks are well nested.
  Both properties speak of a sandbox without calls and are far from inductive: while calls run, the vector holds only what has ended. The
  invariant, `TimesInv`, is a balance (`Balanced`): `Total(s) + Pending(s) = inside[s]`, where `Pending` sums over the threads what
  the frames on their stacks would still add if all ended now - the time since an invocation of `s` began, less that since a callback out of it began - and
  the records on their way into the vector; after a clear in the middle of calls `=` becomes `>=`. Each step keeps
  it for its own reason: a tick adds to `Pending` one for each thread that executes code of `s` (`StackTick`: the frames of a well-nested stack alternate,
  so the sum telescopes to the innermost); a call starts with nothing due; a call's end moves what is due from the frame to the append; a write
  moves it to the vector, which needs that no other append has been counting on the same place (`WritesAtEnd`); a clear needs that what remains due is not negative
  (`DueNotNegative`: each callback began after the invocation around it). The sums, over a vector and over the threads, are a recursive function on `0..n`; the lemmas about it (`SumRec`, `SumAdd`,
  `SumUpdate`, ...) are by induction in the form the provers can use, on the set of counterexamples (`SetInduction`, from the well-foundedness of `<`,
  `NatOrder`), and the threads are added up in the order of an enumeration of the finite set (`SumOver`).
* **`AppPointerMap_proofs`** — `TypeCorrect`, `IndexIsOwned` (`OwnIndex`), `NoEntryLeaks` (`EntriesOwned`), `RefusedWhenFull`
  (`RefusedOnlyWhenFull`), and `KeepsPromise`: the map implements `AppPointerPromise`. `RefusedWhenFull` counts: a failing search
  has seen every index, every index is owned or lost and not both, and the registered objects are in bijection with those not lost.
* **`MemoryOps_proofs`** — `TypeCorrect`, `PointersContained` (`PointersStayInside`), `AccessContained` (`AccessStaysInside`), `NoFalseRefusal`
  (`RefusalIsJustified`), `CallerKnowsHomes` (`HomesAsTold`), for every modulus, region, size and number of buffers. They rest on three
  facts about wrapping arithmetic, proved by themselves: a range that passes the check and is no larger than a region is contained
  (`RangeCheckContains`), a range that is contained and not empty passes (`RangeCheckAccepts`), and an allocation that passes its checks is contained
  (`AllocationContained`). `HomesAsTold` is inductive together with the fact that a buffer whose copy is in the sandbox has a place there.
* **`CopyAndVerify_proofs`** — `TypeCorrect`, `StraysJustified` (`StraysOnlyIfTakenAway`), `StringsTerminated` (`AlwaysTerminated`), `QuietCopyExact`
  (`ExactWhenQuiet`), `EndsJustified` (`EndIsJustified`) and `LongsSurvive` (`StoredIsRead`), so every property its run checks, and before them `BitsConvertExactly` about `IntConversion`: for all types whose
  numbers of values are powers of two, a conversion is accepted exactly if the target type has the number, and then the cast keeps it. It follows from `ConversionExact`, which
  asks only that the wider of two types has at least twice the values (`WholeBits`); `PowersApart` shows that of powers of two, defined as what is in every set that has 1 and is closed under doubling,
  so that the closure does the work of an induction. The first two hold
  while library code writes at any step and rest on `BoundsOK`: what is copied lies where the check found it, whatever the pointer says by
  now; for wide elements also on `StartKept`: a pointer that nobody moved is where the check found it. The two that need a quiet library rest on `Quiet`: `start` is still the pointer, the cells that `strlen` has seen are still not null, and the
  copy is still what the memory holds. `WideRangeMixes` says from the same invariant what a range of longs that are wider in the application becomes, where
  `rlbox.hpp:613` promises to "Copy a range of tainted values from sandbox": each number the verifier gets is made of an element and the one after it. `LongsSurvive` follows from `ConversionExact` and `StoredBits`.
* **`StructAccess_proofs`** — `StructsKeepCalls`: every behaviour of `StructAccess` is one of `CopyAndVerify`, so the theorems above hold while structs are
  loaded and stored. `StructTypeCorrect` (`StructTypeOK`), `ReadsAreOfMemory` (`ReadsWereThere`), `StoresEndAtRefusal` (`StoresArePrefixes`) and `PointersSurvive`
  (`PointersComeHome`), for any struct, region and width. `StoresArePrefixes` speaks of finished stores; the invariant says the same of one in
  progress, field by field up to the next, and needs that no two fields share a cell. `PointersComeHome` rests on what masking does to an address
  inside, at the start of, and outside the region.

**Only model-checked:** the liveness halves of the refinements of `SandboxPromise` and `CallbackOwnership`, since temporal reasoning about fairness and
`ENABLED` is out of the prover's reach. Every safety property of the passing runs is proved.

## 5. Not modelled

* The type system of `tainted`, `tainted_volatile`, `tainted_opaque`, the hints, the struct macros and the type traits: compile-time.
* Isolation itself, which is a plugin's business; library code is an arbitrary caller of registered trampolines.
* Two threads using one callback or app-pointer object at once, and threads that the library starts itself: excluded by the
  code's comments (`rlbox_policy_types.hpp:84`) and by the thread-local design: on a thread of the library's own `thread_data.sandbox` is null.
* Memory that nobody can reach any more: the transfer functions lose an allocation when a check throws after it (`rlbox_stdlib.hpp` 329 and 391).
* Structs passed by value to and from functions (`rlbox_struct_support.hpp` 202–215), whose conversion is `noexcept` and ends the process where a field does not
  fit; `copy_and_verify_address`; floating point and enums, which are plain assignments; a sandbox whose integers are wider than the
  application's, which no plugin of the repository has.
* The function table of the test plugin, which maps function pointers to indices, and the no-op plugin's symbol lookup, which is a compile-time error.
* The printing of transition times, and what a build does with the vector after a data race.

## 6. Plan

Done, in this order: lifecycle, callback registration, dispatch, app pointers, memory operations, copy-and-verify with
integer conversion; then symbol lookup with the lifecycle, transition timing with dispatch, structs and operators with copy-and-verify. Left:

1. Composition of the lifecycle with the registry (status changes while registrations are in progress), and of the registry with dispatch in one state
   (so far each step of the one is shown to be a step of the other's table).
2. Theorems about the two compositions.
