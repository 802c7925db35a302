SPECIFICATION MCSpec
CONSTANTS
  Workers = {w1, w2}
  Externals = {x}
  Main = m
  Objects = {o}
  Iterations = 2
  MaxCallbacks = 2
  NONE = NONE
  Careful = TRUE
  Parts = {"base", "a", "b", "c"}
  Base = "base"
  Graphs <- SomeGraphs
  Callbacks = {"k1", "k2"}
  Asserts = TRUE
  Sizes = {2, 5}
  Alignments = {1, 4}
  MinBlockSize = 4
  MaxBlockSize = 8
  MaxAlign = 2
  Address = 2
  MaxBlocks = 3
  Readers = {r1, r2}
  Words = {a, b}
  None = None
  Modulus = 4
  MaxWrites = 3
  Reorders = FALSE
INVARIANTS
  
  
  CallbacksRun
  ExclusionHolds
  PartsInOrder
  AllocationsAreSafe
PROPERTIES
  WaitsEnd
  ReaderFinishes
CHECK_DEADLOCK FALSE
