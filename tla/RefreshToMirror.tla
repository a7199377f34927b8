-------------------------- MODULE RefreshToMirror ---------------------------
(***************************************************************************)
(* The numbers of a refresh on their way to the other chain: LiveRefresh   *)
(* stores them, SnapshotCodec lays them out, reads them and prices them.   *)
(***************************************************************************)
EXTENDS LiveRefresh, SnapshotCodec

\* The program, the client and the mirror lay the snapshot out alike, in both
\* routers' frames (jupiter_position.rs 141-206, lendmirror.ts 94-125,
\* PositionSnapshotMsgCodec.sol 66-112), and the client chooses accounts by the
\* same bytes of Jupiter's accounts as the program decodes (jupiter.ts 49-141,
\* jupiter_position.rs 209-264).
SnapshotSurvives == AtStart => LayoutsAgree /\ ReadersAgree

\* The mirror works the debt out again from debt and dust, and arrives at the
\* net debt that the program stored (PositionSnapshotMsgCodec.sol 116-128,
\* get_jupiter_position.rs 223).
MirrorPricesNetDebt == snapshot # Missing => Priced(snapshot).borrow = snapshot.net
=============================================================================
