SPECIFICATION Spec
CONSTANTS
  Key = {k1, k2}
  Pub = {p1, p2}
  Sub = {s1}
  QueueDepth = 1
  MaxBacklog = 1
  MaxRooms = 1
  MaxBytes = 3
  Sizes = {1, 4}
  ReplayTtl = 1
  RoomTtl = 2
  MaxRecords = 3
SYMMETRY Symmetry
INVARIANTS
  SubscriberSeesRun
  CleanEndIsComplete
  LoneWaiterIsWoken
  
PROPERTIES
  ReplayWindowIsKept
CHECK_DEADLOCK FALSE
