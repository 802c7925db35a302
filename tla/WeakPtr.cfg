SPECIFICATION Spec
CONSTANTS
  Threads = {t1, t2}
  Pointers = {p, q}
  Flags = {f1, f2, f3}
  Null = Null
  nullptr = nullptr
  Asserts = TRUE
SYMMETRY Symmetry
INVARIANTS
  UsesLiveObject
  CountsReferences
  FailsDeservedly
PROPERTY ImplementsContract
CHECK_DEADLOCK FALSE
