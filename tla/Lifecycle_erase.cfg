CONSTANTS
  Sandboxes = {s1}
  Serialized = {}
  Threads = {t1, t2}
  NoSandbox = NoSandbox
SPECIFICATION Spec
INVARIANT DestroyFindsSandbox
