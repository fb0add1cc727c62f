CONSTANTS
  a = a
  b = b
  x = x
  m1 = m1
  m2 = m2
  k = k
  l = l
  r = r
  q = q
  Senders = {a, b, x}
  Commands = {k, l, r}
  Bindings <- Alone
  Traffic <- Everything
  Sender <- SenderOf
  Merges = {}
  Regex = {}
  Replies = {r}
SPECIFICATION Spec
INVARIANT CommandsSerialised
