CONSTANTS
  a = a
  b = b
  x = x
  m1 = m1
  m2 = m2
  k = k
  l = l
  r = r
  q = q
  Senders = {a, b, x}
  Commands = {m1, m2, k, q}
  Bindings <- Together
  Traffic <- MergesOrReplies
  Sender <- SenderOf
  Merges = {m1, m2}
  Regex = {q}
  Replies = {m2, k, q}
SPECIFICATION Spec
INVARIANT LeasesDisjoint
INVARIANT NoLostWakeup
INVARIANT LeaseHasOwner
INVARIANT MergeBarrier
INVARIANT OneCommandPerUser
PROPERTY ReserveEnds
