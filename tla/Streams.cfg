SPECIFICATION MCSpec
CONSTANTS
  Inputs <- MCInputs
  BufferSizes = {1, 2}
  MaxLength = 4
  Whole = TRUE
  Asserts = FALSE
  Careful = TRUE
  Contents <- MCContents
  MinCapacity = 1
  MaxCapacity = 4
  Garbage = 9
  Slips <- MCSlips
  FileLength = 3
  Accesses = {"WriteOnly", "ReadWrite"}
  Other = 9
  Writers = {"a", "b", "c"}
  Readers = {"r"}
  Atomic = {"a", "b"}
  Value <- MCValue
  Old = "old"
  NONE = "none"
INVARIANTS
  
  FilesAreWhole
PROPERTIES
  
  
  FilesAreStreams
CHECK_DEADLOCK FALSE
