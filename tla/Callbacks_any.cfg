\* Objects are overwritten and outlive the sandbox; the table is smaller than the set of functions.
CONSTANTS
  Threads = {t1, t2}
  Functions = {f1, f2, f3}
  Handles = {h1, h2, h3}
  MAX_CALLBACKS = 2
  NoKey = NoKey
  NoHandle = NoHandle
  Overwrites = TRUE
  OutliveSandbox = TRUE
SPECIFICATION Spec
SYMMETRY Symmetry
INVARIANTS TypeOK TablesAgree OneOwner UnregisterFindsKey TrampolineReachesKey
