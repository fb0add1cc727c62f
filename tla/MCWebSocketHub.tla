--------------------------- MODULE MCWebSocketHub ----------------------------
(* Instances of WebSocketHub for TLC: the requests of one caller.           *)
EXTENDS WebSocketHub

CONSTANTS t1, t2, c1, s1

OneCaller == [t \in Tasks |-> c1]
==============================================================================
