----------------------------- MODULE MCSyncAll -----------------------------
(***************************************************************************)
(* Instances of SyncAll for TLC: one chain, one wallet beside the cron.    *)
(***************************************************************************)
EXTENDS SyncAll

CONSTANTS w1, w2, p1, p2, c1, n1, n2, r1, r2

\* Moves of the numbers, and of the rest alone.
ThreeReadings == {<<n1, r1>>, <<n1, r2>>, <<n2, r1>>}
=============================================================================
