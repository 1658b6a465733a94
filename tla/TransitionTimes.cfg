\* Two threads call into one sandbox with one callback, calls three deep.
CONSTANTS
  Threads = {t1, t2}
  Sandboxes = {s1}
  Functions = {f1}
  MAX_CALLBACKS = 1
  NoSandbox = NoSandbox
  NoKey = NoKey
  MaxDepth = 3
  MaxTime = 2
  MaxRecords = 2
SPECIFICATION TimesSpec
SYMMETRY Symmetry
INVARIANTS TotalIsTimeInside TotalNeverShort
