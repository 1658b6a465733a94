\* Objects are used as owners: never overwritten, unregistered before the sandbox goes.
CONSTANTS
  Threads = {t1, t2}
  Functions = {f1, f2}
  Handles = {h1, h2, h3}
  MAX_CALLBACKS = 2
  NoKey = NoKey
  NoHandle = NoHandle
  Overwrites = FALSE
  OutliveSandbox = FALSE
SPECIFICATION FairSpec
INVARIANTS NoOrphanKeys RegisteredIsCallable
PROPERTY ImplementsOwnership
