SPECIFICATION Spec
CONSTANTS
  Callbacks = {c1, c2, c3, c4}
  MaxManagers = 2
  MaxRuns = 2
  Asserts = TRUE
SYMMETRY CallbackSymmetry
INVARIANTS
  
  RunsInReverse
PROPERTY NothingTimelyIsLost
CHECK_DEADLOCK FALSE
