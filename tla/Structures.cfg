SPECIFICATION Spec
CONSTANTS
  NULL = NULL
  Root = Root
  Nodes = {n1, n2, n3, n4}
  Careful = TRUE
  Numbers = {1, 2, 3}
  MaxSize = 7
  PartitionSizeTreshold = 4
  Block = 4
  Low = 64
  MaxPiece = 9
  MaxLength = 18
INVARIANTS
  SortsAndSearches
  DigestsTakeAll
  

  
  
  
CHECK_DEADLOCK FALSE
