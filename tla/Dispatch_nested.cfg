\* Two threads nest calls into two sandboxes; the tables change while they run.
CONSTANTS
  Threads = {t1, t2}
  Sandboxes = {s1, s2}
  Functions = {f1, f2}
  MAX_CALLBACKS = 2
  NoSandbox = NoSandbox
  NoKey = NoKey
  MaxDepth = 5
SPECIFICATION Spec
SYMMETRY Symmetry
INVARIANTS TypeOK RightSandbox HooksMatchStack
PROPERTY RightFunction
