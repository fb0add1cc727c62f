CONSTANTS
  t1 = t1
  t2 = t2
  p1 = p1
  p2 = p2
  Tasks = {t1}
  Calls = {t1}
  Peers = {p1, p2}
  Service = Service
  NoTarget = NoTarget
  BatchSize = 1
  MaxFaults = 2
  FaultyTasks = 1
SPECIFICATION Spec
SYMMETRY PeerSymmetry
INVARIANT AtMostOnce
PROPERTY FirstResultStands
PROPERTY StopEndsDeliveries
PROPERTY UnfinishedCallKept
PROPERTY Contract
CHECK_DEADLOCK FALSE
