--------------------------- MODULE MCLiveRefresh ---------------------------
(***************************************************************************)
(* Instances of LiveRefresh: 10-bit coefficients and a vault whose ticks   *)
(* are half as much again apart, instead of 35 bits and 0.15%.             *)
(***************************************************************************)
EXTENDS RefreshToMirror

\* 1024 / 1.5, and its square and fourth power.
ThreeFactors == <<682, 455, 202>>

InitTickValue == -100

TwoTicks == {-1, -2}

BelowThem == {-2, -3}

FullOnly == {3}
SomeWay == {2}

NearlyAll == {<<3, 8>>, <<1, 256>>}
OneHalf == {<<1, 2>>}
=============================================================================
