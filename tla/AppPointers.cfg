\* One more object than there are usable indices; the plugin rejects index 4 after it was taken.
CONSTANTS
  Objects = {o1, o2, o3, o4}
  Null = Null
  Pointers = {Null, p1}
  Absent = Absent
  MaxIndex = 4
  Representable = {1, 2, 3}
SPECIFICATION Spec
SYMMETRY Symmetry
INVARIANTS TypeOK OwnIndex EntriesOwned RefusedOnlyWhenFull
PROPERTY ImplementsPromise
