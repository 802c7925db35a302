SPECIFICATION FairSpec
CONSTANTS
  Threads = {t1, t2}
  Events = {11, 12}
  Manual = {12}
  WaitArrays <- BothOrders
  NoEvent = 0
  NoThread = NoThread
PROPERTY WaitsEnd
