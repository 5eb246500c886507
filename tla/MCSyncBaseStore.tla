--------------------------- MODULE MCSyncBaseStore ---------------------------
(* Instances of the store for TLC: which target owns each Sync Unit.        *)
EXTENDS SyncBaseStore, TLC

CONSTANTS u1, u2, t1, t2

OneUnit   == u1 :> t1
OneTarget == u1 :> t1 @@ u2 :> t1
=============================================================================
