--------------------------- MODULE MCExecutionLock ---------------------------
EXTENDS ExecutionLock

CONSTANTS a, b, x, m1, m2, k, l, r, q

SenderOf == [c \in Commands |-> CASE c = m1 -> a [] c = m2 -> b [] OTHER -> x]

\* nobody shares a union; the sender of m2 shares one with x
Separate == [s \in Senders |-> CASE s = a -> 1 [] s = b -> 2 [] OTHER -> 3]
PairAndOne == [s \in Senders |-> IF s = a THEN 1 ELSE 2]
Alone == {Separate}
Together == {PairAndOne}

Everything == {Commands}
MergesOrReplies == {{m1, m2, k}, {k, q}}
=============================================================================
