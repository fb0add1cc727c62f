--------------------------- MODULE MCPeerLifecycle ---------------------------
(* Instances of PeerLifecycle for TLC: model values and the symmetry of     *)
(* handlers, which only runs without liveness properties use.               *)
EXTENDS PeerLifecycle, TLC

HandlerSymmetry == Permutations(Handlers)
==============================================================================
