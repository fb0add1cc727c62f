------------------------------- MODULE MCFleet -------------------------------
(* Instances of Fleet for TLC.  There are enough peers for every start.     *)
EXTENDS Fleet, TLC

CONSTANTS b1, b2, p1, p2
=============================================================================
