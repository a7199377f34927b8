------------------------------ MODULE MCCustody ------------------------------
(***************************************************************************)
(* Instances of Custody for TLC.                                           *)
(***************************************************************************)
EXTENDS Custody

CONSTANTS w1, w2, p1, p2

NoLists == {}

\* The list of nobody, of either wallet, and one that is too long.
CallerLists == {{}, {w1}, {w2}, {w1, w2}}

Leg(new, token0, token1, shares) ==
    [new |-> new, token0 |-> token0, token1 |-> token1, shares |-> shares]

\* Everything home, a claim, and one slot astray, whichever it is.
OneAstray ==
    {[claim |-> claim, astray |-> {}] : claim \in BOOLEAN}
        \cup {[claim |-> FALSE, astray |-> {slot}] : slot \in PayoutSlot}

Signs == {-1, 0, 1}

\* Normal legs, smart legs with every combination of signs, and a share bound
\* on its own.
EveryLeg ==
    {Leg(new, 0, 0, 0) : new \in Signs}
        \cup {Leg(0, t0, t1, 0) : t0 \in Signs, t1 \in Signs}
        \cup {Leg(0, 0, 0, s) : s \in Signs}

\* Two reserved levels and one that cannot be stored.
EveryLevel == 0..5
=============================================================================
