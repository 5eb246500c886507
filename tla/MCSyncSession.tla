---------------------------- MODULE MCSyncSession ----------------------------
(* Instances of SyncSession: what its rows share and how they are resolved. *)
EXTENDS SyncSession, TLC

CONSTANTS a, b, s, t, q, w

Shared  == a :> {s} @@ b :> {s}
Pushed == a :> "both" @@ b :> "push-only"
OneSided == a :> "both" @@ b :> "pull-only"
NoopCaptures == {<<b, "capture">>}
=============================================================================
