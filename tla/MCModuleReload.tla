--------------------------- MODULE MCModuleReload ---------------------------
(* A load and an unload of one module beside a reload of its package.       *)
EXTENDS ModuleReload, TLC

CONSTANTS l, u, r, m, n

MCKind == (l :> "load") @@ (u :> "unload") @@ (r :> "reload")
MCTarget == [o \in {l, u, r} |-> m]
=============================================================================
