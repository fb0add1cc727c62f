CONSTANTS
  l = l
  u = u
  r = r
  m = m
  n = n
  Modules = {m, n}
  Operations = {l, u, r}
  Generations = {1, 2}
  Kind <- MCKind
  Target <- MCTarget
  Package = {m}
  Users = {m}
  Failures = {"cancel", "database", "build", "slow"}
  MaxFaults = 1
SPECIFICATION FairSpec
INVARIANT AgreeAtRest
INVARIANT WindowQuiet
INVARIANT StoppedIsClosed
INVARIANT QuietAfterShutdown
PROPERTY OperationsEnd
CHECK_DEADLOCK FALSE
