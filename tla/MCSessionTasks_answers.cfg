CONSTANTS
  n = n
  r = r
  k = k
  m1 = m1
  m2 = m2
  None = None
  Waits = {n, r}
  Messages = {m1, m2}
  Callbacks = {k}
  WaitType <- MCWaitType
  Reach <- MCReach
  Refers <- MCRefers
  Confirms = {}
  Failures = {"platform", "cancel"}
  MaxFaults = 1
SPECIFICATION FairSpec
INVARIANT ConsumedIsAnswer
INVARIANT HeldContexts
INVARIANT CallbackAlone
PROPERTY CheckEnds
CHECK_DEADLOCK FALSE
