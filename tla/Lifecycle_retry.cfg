CONSTANTS
  Sandboxes = {s1}
  Serialized = {s1}
  Threads = {t1, t2}
  NoSandbox = NoSandbox
SPECIFICATION Spec
PROPERTY RefusalIsTruthful
