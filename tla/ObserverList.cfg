SPECIFICATION Spec
CONSTANTS
  Observers = {a, b, c}
  Null = Null
  MaxSlots = 4
  MaxDepth = 3
SYMMETRY ObserverSymmetry
INVARIANTS
  HolesAreTemporary
  StayersAreToldOnce
PROPERTY ImplementsContract
CHECK_DEADLOCK FALSE
