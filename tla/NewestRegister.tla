--------------------------- MODULE NewestRegister ---------------------------
(***************************************************************************)
(* What the mirror promises to a reader on an EVM chain, with no wallets,  *)
(* lanes' queues or configuration in it.  A publisher issues snapshots,    *)
(* each strictly newer than every earlier one of its position.  Every view *)
(* (a lane at a chain) shows nothing or one published snapshot per         *)
(* position, and replaces it only by a strictly newer one.                 *)
(***************************************************************************)
EXTENDS Naturals

CONSTANTS View, Position, Snapshot, Nothing

\* A Snapshot is a record with a position in Position and a time in Nat;
\* Nothing is not one.
VARIABLES published, shown

registerVars == <<published, shown>>

RegisterInit ==
    /\ published = {}
    /\ shown = [v \in View |-> [p \in Position |-> Nothing]]

Publish(b) ==
    /\ \A x \in published : x.position = b.position => x.time < b.time
    /\ published' = published \cup {b}
    /\ UNCHANGED shown

Show(v, b) ==
    /\ b \in published
    /\ \/ shown[v][b.position] = Nothing
       \/ shown[v][b.position].time < b.time
    /\ shown' = [shown EXCEPT ![v][b.position] = b]
    /\ UNCHANGED published

RegisterNext ==
    \/ \E b \in Snapshot : Publish(b)
    \/ \E v \in View, b \in Snapshot : Show(v, b)

RegisterSpec == RegisterInit /\ [][RegisterNext]_registerVars
=============================================================================
