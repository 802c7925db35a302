SPECIFICATION Spec
CONSTANTS
  Threads = {t1, t2, t3}
  Events = {11, 12}
  Manual = {12}
  WaitArrays <- BothOrders
  NoEvent = 0
  NoThread = NoThread
SYMMETRY ThreadSymmetry
INVARIANTS
  TypeOK
  NoDanglingWaiter
  NoLostWakeup
  NoCircularWait
  WaitReturnsAfterSignal
PROPERTY ImplementsContract
