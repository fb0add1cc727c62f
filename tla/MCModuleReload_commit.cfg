CONSTANTS
  l = l
  u = u
  r = r
  m = m
  n = n
  Modules = {m, n}
  Operations = {l, u, r}
  Generations = {1, 2}
  Kind <- MCKind
  Target <- MCTarget
  Package = {m, n}
  Users = {}
  Failures = {"cancel"}
  MaxFaults = 1
SPECIFICATION Spec
INVARIANT CommitIsFinal
CHECK_DEADLOCK FALSE
