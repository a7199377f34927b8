---------------------------- MODULE WrapperLevel ----------------------------
(***************************************************************************)
(* PositionWrapper.level: what a wrapper's callers may do beside mirroring *)
(* (level constants in state/wrapper.rs, set_wrapper_level in              *)
(* instructions/custody.rs).  Custody and Bridge extend this module.       *)
(***************************************************************************)
EXTENDS Access, Integers

CONSTANT Levels  \* the levels the admin passes to set_wrapper_level

ASSUME LevelsAssumption == Levels \subseteq Nat

VARIABLE level   \* PositionWrapper.level

LevelMax == 4

LevelInit == level = [p \in Position |-> 0]

LevelTypeOK == level \in [Position -> 0..LevelMax]

\* A wrapper starts at level 0.
WrapAtLevelZero(a, p) ==
    /\ WrapAccess(a, p)
    /\ level' = [level EXCEPT ![p] = 0]

\* Mutant: reserved levels are not bounded.
MutLevelStorable(l) == TRUE

LevelStorable(l) == l <= LevelMax

StoreLevel(p, l) ==
    /\ Wrapped(p)
    /\ LevelStorable(l)
    /\ level' = [level EXCEPT ![p] = l]
    /\ UNCHANGED accessVars
=============================================================================
