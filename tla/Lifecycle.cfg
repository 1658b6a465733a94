\* Calls about s1 are serial and look up symbols in it; calls about s2 overlap in
\* any way.  Two places a library can be at, one of which lacks the name.
CONSTANTS
  Sandboxes = {s1, s2}
  Serialized = {s1}
  Threads = {t1, t2}
  NoSandbox = NoSandbox
  n1 = n1
  i1 = i1
  i2 = i2
  Names = {n1}
  Images = {i1, i2}
  NoImage = NoImage
  Exports <- MCExports
  TwoTables = TRUE
  NoAddress = NoAddress
SPECIFICATION FairSymbolSpec
INVARIANTS SymbolTypeOK OneClaimant ListedOnce FindReturnsReady SerialDestroyFinds AnswersAreCurrent
PROPERTY ImplementsPromise
