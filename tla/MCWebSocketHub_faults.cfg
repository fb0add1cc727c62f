CONSTANTS
  t1 = t1
  t2 = t2
  c1 = c1
  s1 = s1
  NoServer = NoServer
  Tasks = {t1, t2}
  Calls = {t1}
  Callers = {c1}
  Servers = {s1}
  Source <- OneCaller
  QueueSize = 1
  Failures = {"link", "overload", "lease", "crash", "hub", "command", "cancel"}
  MaxFaults = 2
  MaxRequests = 1
SPECIFICATION FairSpec
INVARIANT WaiterAccounted
INVARIANT DeliveryInHand
INVARIANT OneResponse
INVARIANT NoStrayResponse
PROPERTY Contract
PROPERTY AnsweredInAnyCase
CHECK_DEADLOCK FALSE
