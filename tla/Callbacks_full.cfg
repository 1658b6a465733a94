\* One registration more than the plugin's table has entries.
CONSTANTS
  Threads = {t1}
  Functions = {f1, f2}
  Handles = {h1, h2}
  MAX_CALLBACKS = 1
  NoKey = NoKey
  NoHandle = NoHandle
  Overwrites = FALSE
  OutliveSandbox = FALSE
SPECIFICATION Spec
INVARIANT RegisteredIsCallable
