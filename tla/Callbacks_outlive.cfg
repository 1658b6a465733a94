\* An object outlives the sandbox, and the sandbox is created again.
CONSTANTS
  Threads = {t1}
  Functions = {f1}
  Handles = {h1}
  MAX_CALLBACKS = 1
  NoKey = NoKey
  NoHandle = NoHandle
  Overwrites = FALSE
  OutliveSandbox = TRUE
SPECIFICATION Spec
PROPERTY RefusalMeansOwned
