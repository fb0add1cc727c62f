--------------------------- MODULE MCDatabaseQueue ---------------------------
EXTENDS DatabaseQueue, TLC
CONSTANTS t1, t2, p1, p2
PeerSymmetry == Permutations({p1, p2})
=============================================================================
