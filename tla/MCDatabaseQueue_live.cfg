CONSTANTS
  t1 = t1
  t2 = t2
  p1 = p1
  p2 = p2
  Tasks = {t1, t2}
  Calls = {t1}
  Peers = {p1}
  Service = Service
  NoTarget = NoTarget
  BatchSize = 2
  MaxFaults = 2
  FaultyTasks = 1
SPECIFICATION FairSpec
INVARIANT OrphanNeedsFault
PROPERTY CallEnds
PROPERTY RowsCollected
CHECK_DEADLOCK FALSE
