-------------------------- MODULE MCSnapshotMirror --------------------------
(***************************************************************************)
(* Instances of SnapshotMirror for TLC.                                    *)
(***************************************************************************)
EXTENDS SnapshotMirror, TLC

CONSTANTS w1, w2, p1, p2, c1, c2

\* Only the admin and one caller list: roles stand still after wrapping.
JustAdmin == {{w1}}

\* One list is longer than the AllowlistLen of 1.
SmallLists == {{}, {w1}, {w1, w2}}

ToChains == Chain
ToAnywhere == Chain \cup {Nowhere}

MirrorOnly == {"mirror"}
BothKinds == {"elsewhere", "mirror"}

TurnOn == {TRUE}
OnAndOff == BOOLEAN

Symmetry == Permutations(Data)
=============================================================================
