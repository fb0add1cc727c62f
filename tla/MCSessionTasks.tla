---------------------------- MODULE MCSessionTasks ----------------------------
(* A wait for the next message beside one for a reply, a callback, and two  *)
(* messages that may be meant for any of them.                              *)
EXTENDS SessionTasks

CONSTANTS n, r, k, m1, m2

MCWaitType == [w \in Waits |-> IF w = n THEN "next" ELSE "reply"]
MCRefers == [m \in Messages |-> IF m = m1 THEN {r, k} ELSE {r, k, None}]
MCReach == [m \in Messages |-> Waits]
===============================================================================
