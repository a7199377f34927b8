-------------------------- MODULE LiveRefreshProofs ---------------------------
(***************************************************************************)
(* Theorems about LiveRefresh, for every vault: any widths, table of       *)
(* factors, ticks, liquidations and number of branches and hops; about     *)
(* the arithmetic of factors and collateral; and about the snapshot's      *)
(* frames.                                                                 *)
(*                                                                         *)
(* The branch walk is a recursive function.  What it does is proved by     *)
(* induction over its turns, in first-order form: the turns at which a     *)
(* claim holds are a set that contains 0 and, with n, n + 1.               *)
(***************************************************************************)
EXTENDS RefreshToMirror, FiniteSetTheorems, TLAPS

LEMMA Induction ==
    ASSUME NEW S, 0 \in S, \A n \in Nat : n \in S => n + 1 \in S
    PROVE  Nat \subseteq S
<1> SUFFICES ASSUME Nat \ S # {} PROVE FALSE
  OBVIOUS
<1> DEFINE R == OpToRel(<, Nat)
<1>1. IsWellFoundedOn(R, Nat)
  BY NatLessThanWellFounded
<1>2. \A x, y \in Nat : x < y => <<x, y>> \in R
  BY DEF OpToRel
<1> HIDE DEF R
<1>3. PICK x \in Nat \ S : \A y \in Nat \ S : ~ (<<y, x>> \in R)
  BY <1>1, WFMin
<1>4. x # 0 /\ x - 1 \in Nat
  BY <1>3
<1>5. <<x - 1, x>> \in R
  BY <1>2, <1>3, <1>4
<1>6. x - 1 \in S
  BY <1>3, <1>4, <1>5
<1>7. (x - 1) + 1 \in S
  BY <1>4, <1>6
<1>8. (x - 1) + 1 = x
  BY <1>3
<1> QED BY <1>3, <1>7, <1>8

-----------------------------------------------------------------------------
(* The turns of the branch walk *)

LastTurn == MaxBranchHops + 1

Turn(f, h, start, factor, branches) ==
    IF h = 0 THEN [id |-> start, factor |-> factor, stop |-> FALSE]
    ELSE IF f[h - 1] = Failed THEN Failed ELSE Hop(f[h - 1], branches)

Turns(f, start, factor, branches) ==
    \A h \in 0..LastTurn : f[h] = Turn(f, h, start, factor, branches)

LEMMA HopsNat == MaxBranchHops \in Nat \ {0}
  BY LiveAssumption, Zenon

LEMMA LastTurnNat == LastTurn \in Nat
  BY HopsNat DEF LastTurn

LEMMA TurnsExist ==
    ASSUME NEW start, NEW factor, NEW branches
    PROVE  \E f : f = [h \in 0..LastTurn |-> f[h]] /\ Turns(f, start, factor, branches)
<1> DEFINE t(f, h) == Turn(f, h, start, factor, branches)
           Good == {n \in Nat : \E f : \A h \in 0..n : f[h] = t(f, h)}
<1>1. 0 \in Good
  <2> DEFINE f == [h \in 0..0 |-> [id |-> start, factor |-> factor, stop |-> FALSE]]
  <2>1. \A h \in 0..0 : f[h] = t(f, h)
    BY DEF Turn
  <2> HIDE DEF f
  <2> QED BY <2>1
<1>2. ASSUME NEW n \in Nat, n \in Good
      PROVE  n + 1 \in Good
  <2>1. PICK f : \A h \in 0..n : f[h] = t(f, h)
    BY <1>2
  <2> DEFINE g == [h \in 0..(n + 1) |-> IF h = n + 1 THEN t(f, h) ELSE f[h]]
  <2>2. \A h \in 0..n : g[h] = f[h]
    OBVIOUS
  <2>3. ASSUME NEW h \in 0..(n + 1) PROVE g[h] = t(g, h)
    <3>1. g[h] = t(f, h)
      BY <2>1
    <3>2. h = 0 \/ h - 1 \in 0..n
      OBVIOUS
    <3>3. CASE h = 0
      BY <3>1, <3>3 DEF Turn
    <3>4. CASE h # 0
      <4>1. g[h - 1] = f[h - 1]
        BY <2>2, <3>2, <3>4
      <4> HIDE DEF g
      <4> QED BY <3>1, <3>4, <4>1 DEF Turn
    <3> QED BY <3>3, <3>4
  <2> HIDE DEF g
  <2> QED BY <2>3
<1>3. LastTurn \in Good
  <2> HIDE DEF Good
  <2> QED BY <1>1, <1>2, Induction, LastTurnNat
<1>4. PICK f : \A h \in 0..LastTurn : f[h] = t(f, h)
  BY <1>3
<1> DEFINE g == [h \in 0..LastTurn |-> f[h]]
<1>5. ASSUME NEW h \in 0..LastTurn PROVE g[h] = t(g, h)
  <2>1. h = 0 \/ (h # 0 /\ h - 1 \in 0..LastTurn)
    BY LastTurnNat
  <2>2. CASE h = 0
    BY <1>4, <2>2 DEF Turn
  <2>3. CASE h # 0
    <3>1. g[h - 1] = f[h - 1] /\ g[h] = f[h]
      BY <2>1, <2>3
    <3> HIDE DEF g
    <3> QED BY <1>4, <2>3, <3>1 DEF Turn
  <2> QED BY <2>2, <2>3
<1>6. Turns(g, start, factor, branches)
  BY <1>5 DEF Turns
<1> QED BY <1>6

\* The recursive function is the one that its equation describes.
LEMMA BranchTurnsAre ==
    ASSUME NEW start, NEW factor, NEW branches
    PROVE  Turns(BranchTurns(start, factor, branches), start, factor, branches)
<1> DEFINE Eq(turn) == turn = [h \in 0..(MaxBranchHops + 1) |->
                IF h = 0 THEN [id |-> start, factor |-> factor, stop |-> FALSE]
                ELSE LET w == turn[h - 1] IN IF w = Failed THEN Failed ELSE Hop(w, branches)]
           choice == CHOOSE turn : Eq(turn)
<1>1. PICK f : f = [h \in 0..LastTurn |-> f[h]] /\ Turns(f, start, factor, branches)
  BY TurnsExist
<1>2. Eq(f)
  <2> DEFINE body == [h \in 0..LastTurn |-> Turn(f, h, start, factor, branches)]
  <2>1. \A h \in 0..LastTurn : f[h] = body[h]
    BY <1>1 DEF Turns
  <2>2. body = [h \in 0..LastTurn |-> f[h]]
    BY <2>1
  <2>3. f = body
    BY <1>1, <2>2
  <2> QED BY <2>3, Zenon DEF Turn, LastTurn
<1>3. Eq(choice)
  <2> HIDE DEF Eq
  <2> QED BY <1>2
<1>4. Turns(choice, start, factor, branches)
  <2>1. Eq(choice)
    BY <1>3
  <2> HIDE DEF choice
  <2>2. choice = [h \in 0..LastTurn |-> Turn(choice, h, start, factor, branches)]
    BY <2>1, Zenon DEF Turn, LastTurn
  <2>3. \A h \in 0..LastTurn : choice[h] = Turn(choice, h, start, factor, branches)
    BY <2>2
  <2> QED BY <2>3 DEF Turns
<1>5. BranchTurns(start, factor, branches) = choice
  BY DEF BranchTurns
<1> HIDE DEF choice
<1> QED BY <1>4, <1>5

\* EndOfWalk is what its last turn says.
LEMMA WalkTurns ==
    ASSUME NEW start, NEW factor, NEW branches
    PROVE  LET turns == BranchTurns(start, factor, branches)
           IN  /\ Turns(turns, start, factor, branches)
               /\ EndOfWalk(start, factor, branches)
                    = IF start \notin DOMAIN branches \/ turns[LastTurn] = Failed
                         \/ ~turns[LastTurn].stop
                      THEN Failed ELSE turns[LastTurn]
<1> DEFINE turns == BranchTurns(start, factor, branches)
<1>1. Turns(turns, start, factor, branches)
  BY BranchTurnsAre
<1>2. EndOfWalk(start, factor, branches)
        = IF start \in DOMAIN branches THEN Finished(turns[LastTurn]) ELSE Failed
  BY DEF EndOfWalk, LastTurn
<1> HIDE DEF turns
<1>3. EndOfWalk(start, factor, branches)
        = IF start \notin DOMAIN branches \/ turns[LastTurn] = Failed \/ ~turns[LastTurn].stop
          THEN Failed ELSE turns[LastTurn]
  BY <1>2 DEF Finished
<1> QED BY <1>1, <1>3 DEF turns

\* Every turn that has not failed stands on a branch at hand.
LEMMA TurnsStand ==
    ASSUME NEW f, NEW start, NEW factor, NEW branches, start \in DOMAIN branches,
           Turns(f, start, factor, branches)
    PROVE  \A h \in 0..LastTurn : f[h] # Failed => f[h].id \in DOMAIN branches
<1> DEFINE Good == {h \in Nat : h \in 0..LastTurn /\ f[h] # Failed => f[h].id \in DOMAIN branches}
<1>1. 0 \in Good
  BY LastTurnNat DEF Turns, Turn
<1>2. ASSUME NEW n \in Nat, n \in Good PROVE n + 1 \in Good
  <2> SUFFICES ASSUME n + 1 \in 0..LastTurn, f[n + 1] # Failed
               PROVE  f[n + 1].id \in DOMAIN branches
    OBVIOUS
  <2>1. n \in 0..LastTurn /\ n + 1 # 0 /\ (n + 1) - 1 = n
    BY LastTurnNat
  <2>2. f[n + 1] = IF f[n] = Failed THEN Failed ELSE Hop(f[n], branches)
    BY <2>1 DEF Turns, Turn
  <2>3. f[n] # Failed /\ f[n].id \in DOMAIN branches /\ f[n + 1] = Hop(f[n], branches)
    BY <1>2, <2>1, <2>2
  <2> QED BY <2>3 DEF Hop
<1>3. Nat \subseteq Good
  <2> HIDE DEF Good
  <2> QED BY <1>1, <1>2, Induction
<1> QED BY <1>3, LastTurnNat
-----------------------------------------------------------------------------
(* The accounts that a quiet client collects *)

\* Two sets of accounts between which a walk cannot tell: the smaller has the
\* start and every branch that one of its merged branches points at.
Alike(start, some, all) ==
    /\ DOMAIN some \subseteq DOMAIN all
    /\ \A b \in DOMAIN some : some[b] = all[b]
    /\ start \in DOMAIN all => start \in DOMAIN some
    /\ \A b \in DOMAIN some :
           (all[b].status = BranchMerged /\ all[b].connected \in DOMAIN all)
               => all[b].connected \in DOMAIN some

LEMMA HopsAlike ==
    ASSUME NEW start, NEW some, NEW all, Alike(start, some, all),
           NEW w, w.id \in DOMAIN some
    PROVE  Hop(w, some) = Hop(w, all)
<1>1. some[w.id] = all[w.id]
  BY DEF Alike
<1>2. CASE all[w.id].status # BranchMerged
  BY <1>1, <1>2 DEF Hop
<1>3. CASE all[w.id].status = BranchMerged
  <2>1. all[w.id].connected \in DOMAIN all <=> all[w.id].connected \in DOMAIN some
    BY <1>3 DEF Alike
  <2> QED BY <1>1, <2>1 DEF Hop
<1> QED BY <1>2, <1>3

LEMMA WalksAlike ==
    ASSUME NEW start, NEW factor, NEW stored, NEW some, NEW all, Alike(start, some, all)
    PROVE  WalkBranches(start, factor, stored, some) = WalkBranches(start, factor, stored, all)
<1>1. PICK f : /\ Turns(f, start, factor, some)
               /\ EndOfWalk(start, factor, some)
                    = IF start \notin DOMAIN some \/ f[LastTurn] = Failed \/ ~f[LastTurn].stop
                      THEN Failed ELSE f[LastTurn]
  BY WalkTurns
<1>2. PICK g : /\ Turns(g, start, factor, all)
               /\ EndOfWalk(start, factor, all)
                    = IF start \notin DOMAIN all \/ g[LastTurn] = Failed \/ ~g[LastTurn].stop
                      THEN Failed ELSE g[LastTurn]
  BY WalkTurns
<1>3. start \in DOMAIN some <=> start \in DOMAIN all
  BY DEF Alike
<1>4. ASSUME start \in DOMAIN some
      PROVE  f[LastTurn] = g[LastTurn]
  <2> DEFINE Good == {h \in Nat : h \in 0..LastTurn => f[h] = g[h]}
  <2>1. 0 \in Good
    BY <1>1, <1>2 DEF Turns, Turn
  <2>2. ASSUME NEW n \in Nat, n \in Good PROVE n + 1 \in Good
    <3> SUFFICES ASSUME n + 1 \in 0..LastTurn PROVE f[n + 1] = g[n + 1]
      OBVIOUS
    <3>1. n \in 0..LastTurn /\ n + 1 # 0 /\ (n + 1) - 1 = n
      BY LastTurnNat
    <3>2. f[n + 1] = IF f[n] = Failed THEN Failed ELSE Hop(f[n], some)
      BY <1>1, <3>1 DEF Turns, Turn
    <3>3. g[n + 1] = IF g[n] = Failed THEN Failed ELSE Hop(g[n], all)
      BY <1>2, <3>1 DEF Turns, Turn
    <3>4. f[n] = g[n]
      BY <2>2, <3>1
    <3>5. f[n] # Failed => f[n].id \in DOMAIN some
      BY <1>1, <1>4, <3>1, TurnsStand
    <3>6. f[n] # Failed => Hop(f[n], some) = Hop(f[n], all)
      BY <3>5, HopsAlike
    <3> QED BY <3>2, <3>3, <3>4, <3>6
  <2>3. Nat \subseteq Good
    <3> HIDE DEF Good
    <3> QED BY <2>1, <2>2, Induction
  <2> QED BY <2>3, LastTurnNat
<1>5. EndOfWalk(start, factor, some) = EndOfWalk(start, factor, all)
  BY <1>1, <1>2, <1>3, <1>4
<1> DEFINE w == EndOfWalk(start, factor, some)
<1>6. w # Failed => some[w.id] = all[w.id]
  <2> SUFFICES ASSUME w # Failed PROVE some[w.id] = all[w.id]
    OBVIOUS
  <2>1. start \in DOMAIN some /\ w = f[LastTurn]
    BY <1>1
  <2>2. f[LastTurn].id \in DOMAIN some
    BY <1>1, <2>1, TurnsStand, LastTurnNat
  <2> HIDE DEF w
  <2> QED BY <2>1, <2>2 DEF Alike
<1> HIDE DEF w
<1>7. w = EndOfWalk(start, factor, some) /\ w = EndOfWalk(start, factor, all)
  BY <1>5 DEF w
<1> QED BY <1>6, <1>7 DEF WalkBranches

StoredDebt == DebtRawAtTick(position.tick, Collateral)

\* The walk starts from it.
EnlargedDebt == LiquidationDebtRawAtTick(position.tick, Collateral)

Passed(ids) == [b \in {i \in ids : branch[i] # Missing} |-> branch[b]]

Live(ids) == WalkBranches(Record.branch, Record.factor, EnlargedDebt, Passed(ids))

LEMMA SameAccount == LiqOf(NormalizeTick(position.tick), position.tickId) = Account
<1>1. NormalizeTick(NormalizeTick(position.tick)) = NormalizeTick(position.tick)
  BY LiveAssumption DEF NormalizeTick
<1> QED BY <1>1 DEF LiqOf, Account

\* The TickIdLiquidation account is chosen when the program asks for it.
RightAccount ==
    plan.liq = IF PositionTick.totalIds = position.tickId \/ flushed[Account] = Missing
               THEN Missing ELSE Account

\* The branches on the way, and the one to be read next.
OnTheWay(ids, next) ==
    /\ ids \subseteq Existing
    /\ Record.branch \in ids \cup {next}
    /\ \A b \in ids : branch[b].status = BranchMerged => branch[b].connected \in ids \cup {next}

\* They are all part of the chain: of every set that a walk does not lead out of.
OfTheChain(ids, next) ==
    \A some \in SUBSET Existing :
        Collected(some) => ids \subseteq some /\ (next \in Existing => next \in some)

\* What the plan has of the position while the vault rests.
PlanOfPosition ==
    plan = [tick |-> position.tick, tickId |-> position.tickId,
            supplyOnly |-> position.supplyOnly, liq |-> plan.liq,
            branches |-> plan.branches, next |-> plan.next]

PlanSoFar ==
    /\ pc = "tick" => ~position.supplyOnly /\ plan.liq = Missing /\ plan.branches = {}
    /\ pc = "liq" => /\ Liquidated /\ PositionTick.totalIds # position.tickId
                     /\ plan.liq = Missing /\ plan.branches = {}
    /\ pc = "walk" => /\ Liquidated /\ RightAccount
                      /\ \/ RecordLost
                         \/ /\ ~Record.full
                            /\ OnTheWay(plan.branches, plan.next)
                            /\ OfTheChain(plan.branches, plan.next)
    /\ pc = "submit" =>
           \/ ~Liquidated
           \/ /\ RightAccount
              /\ RecordLost \/ Record.full \/ Collected(plan.branches) \/ ~ClientReaches

QuietInv ==
    /\ pc \in {"position", "tick", "liq", "walk", "submit"}
    /\ (~moved /\ pc # "position") => PlanOfPosition /\ PlanSoFar

LEMMA PlanFits ==
    ASSUME Liquidated, RightAccount, plan.tick = position.tick,
           RecordLost \/ Record.full \/ Collected(plan.branches)
    PROVE  Compute(plan.tick, plan.liq, plan.branches) = Truth
<1> DEFINE refused(liq) == \/ StoredDebt = Failed
                           \/ liq \notin {Missing, Account}
                           \/ PositionTick.totalIds # position.tickId /\ liq = Missing
                           \/ liq # Missing /\ flushed[liq] = Missing
           best == IF flushed[Account] = Missing THEN Missing ELSE Account
           answer(liq, ids) ==
               IF refused(liq) THEN Failed
               ELSE IF Record.full
                    THEN Snapshot(NothingLeft(Record.branch), StoredDebt, 0, TRUE, TRUE)
                    ELSE IF EnlargedDebt = Failed THEN Failed
                         ELSE IF Live(ids) = Failed THEN Failed
                              ELSE Snapshot(Live(ids), StoredDebt, Dust, TRUE, FALSE)
<1>2. ASSUME NEW liq, NEW ids
      PROVE  Compute(position.tick, liq, ids) = answer(liq, ids)
  BY SameAccount
     DEF Compute, Liquidated, PositionTick, Record, StoredDebt, EnlargedDebt, Live, Passed
<1>3. Truth = answer(best, Branches)
  BY <1>2 DEF Truth, Account
<1>4. Compute(plan.tick, plan.liq, plan.branches) = answer(plan.liq, plan.branches)
  BY <1>2
<1>5. refused(plan.liq) <=> refused(best)
  BY DEF RightAccount
<1>6. CASE RecordLost
  <2>1. best = Missing /\ plan.liq = Missing
    BY <1>6 DEF RecordLost, RightAccount
  <2>2. refused(plan.liq) /\ refused(best)
    BY <1>6, <2>1 DEF RecordLost
  <2> QED BY <1>3, <1>4, <2>2
<1>7. CASE Record.full
  BY <1>3, <1>4, <1>5, <1>7
<1>8. CASE Collected(plan.branches)
  <2>1. DOMAIN Passed(plan.branches) = plan.branches /\ DOMAIN Passed(Branches) = Existing
    BY <1>8 DEF Collected, Existing, Passed
  <2>2. /\ \A b \in plan.branches : Passed(plan.branches)[b] = branch[b]
        /\ \A b \in Existing : Passed(Branches)[b] = branch[b]
    BY <1>8 DEF Collected, Existing, Passed
  <2>3. Alike(Record.branch, Passed(plan.branches), Passed(Branches))
    BY <1>8, <2>1, <2>2 DEF Alike, Collected
  <2>4. Live(plan.branches) = Live(Branches)
    BY <2>3, WalksAlike DEF Live
  <2> HIDE DEF refused, best
  <2> QED BY <1>3, <1>4, <1>5, <2>4
<1> QED BY <1>6, <1>7, <1>8

LEMMA VaultAtRest ==
    ASSUME UNCHANGED vault
    PROVE  /\ UNCHANGED <<position, tickAt, flushed, branch, PositionTick, Account, Record>>
           /\ UNCHANGED <<Existing, Liquidated, RecordLost>>
           /\ \A ids : Collected(ids)' = Collected(ids)
           /\ \A ids, next : OfTheChain(ids, next)' = OfTheChain(ids, next)
           /\ ClientReaches' = ClientReaches
<1>1. UNCHANGED <<position, tickAt, flushed, branch>>
  BY DEF vault
<1>2. UNCHANGED <<PositionTick, Account>>
  BY <1>1 DEF PositionTick, Account, LiqOf
<1>3. UNCHANGED <<Record, Existing, Liquidated, RecordLost>>
  BY <1>1, <1>2 DEF Record, LiquidationRecord, Existing, Liquidated, RecordLost
<1>4. ASSUME NEW ids PROVE Collected(ids)' = Collected(ids)
  BY <1>1, <1>3 DEF Collected
<1>5. ASSUME NEW ids, NEW next PROVE OfTheChain(ids, next)' = OfTheChain(ids, next)
  BY <1>3, <1>4 DEF OfTheChain
<1>6. ClientReaches' = ClientReaches
  BY <1>3, <1>4 DEF ClientReaches
<1> QED BY <1>1, <1>2, <1>3, <1>4, <1>5, <1>6

LEMMA ChainAtRest ==
    ASSUME UNCHANGED vault, NEW ids, NEW next, plan'.branches = ids, plan'.next = next,
           OfTheChain(ids, next)
    PROVE  OfTheChain(plan.branches, plan.next)'
<1>1. Existing' = Existing /\ \A some : Collected(some)' = Collected(some)
  BY VaultAtRest
<1>2. \A some \in SUBSET Existing' :
          Collected(some)' => ids \subseteq some /\ (next \in Existing' => next \in some)
  BY <1>1 DEF OfTheChain
<1>3. OfTheChain(plan.branches, plan.next)'
        <=> \A some \in SUBSET Existing' : Collected(some)' =>
                plan'.branches \subseteq some /\ (plan'.next \in Existing' => plan'.next \in some)
  BY DEF OfTheChain
<1> QED BY <1>2, <1>3

LEMMA CollectedAtRest ==
    ASSUME UNCHANGED vault, NEW ids, plan'.branches = ids, Collected(ids)
    PROVE  Collected(plan.branches)'
<1>1. UNCHANGED <<branch, Record, Existing>>
  BY VaultAtRest
<1> QED BY <1>1 DEF Collected

\* A walk that has begun at the right record goes on, or has everything.
LEMMA WalkStarts ==
    ASSUME NEW record, record = Record, UNCHANGED vault, Liquidated, RightAccount',
           plan'.branches = {}, plan'.next = record.branch,
           pc' = IF record.full THEN "submit" ELSE "walk"
    PROVE  PlanSoFar'
<1>1. Record' = Record /\ Liquidated' /\ Existing' = Existing
  BY VaultAtRest
<1>2. pc' = "walk" => ~Record'.full /\ OnTheWay(plan.branches, plan.next)'
  BY <1>1 DEF OnTheWay
<1>3. pc' = "submit" => Record'.full
  BY <1>1
<1>4. pc' \in {"walk", "submit"}
  OBVIOUS
<1>5. OfTheChain(plan.branches, plan.next)'
  <2>1. OfTheChain({}, Record.branch)
    BY DEF OfTheChain, Collected
  <2> QED BY <2>1, ChainAtRest
<1> QED BY <1>1, <1>2, <1>3, <1>4, <1>5 DEF PlanSoFar

LEMMA ReadPositionQuiet ==
    ASSUME ReadPosition PROVE QuietInv'
<1>1. UNCHANGED vault
  BY DEF ReadPosition, ClientTurns
<1>2. plan' = [tick |-> position.tick, tickId |-> position.tickId,
               supplyOnly |-> position.supplyOnly, liq |-> Missing, branches |-> {}, next |-> 0]
  BY DEF ReadPosition, NoPlan
<1>3. pc' = IF position.supplyOnly THEN "submit" ELSE "tick"
  BY DEF ReadPosition
<1>4. PlanOfPosition'
  BY <1>1, <1>2, VaultAtRest DEF PlanOfPosition
<1>5. PlanSoFar'
  BY <1>1, <1>2, <1>3, VaultAtRest DEF PlanSoFar, Liquidated
<1> QED BY <1>3, <1>4, <1>5 DEF QuietInv

LEMMA ReadTickQuiet ==
    ASSUME QuietInv, ReadTick PROVE QuietInv'
<1> DEFINE tick == tickAt[NormalizeTick(plan.tick)]
<1>1. pc = "tick" /\ moved' = moved /\ UNCHANGED vault
  BY DEF ReadTick, ClientTurns
<1>2. pc' \in {"submit", "walk", "liq"}
  BY DEF ReadTick, FollowRecord
<1> SUFFICES ASSUME ~moved PROVE PlanOfPosition' /\ PlanSoFar'
  BY <1>1, <1>2 DEF QuietInv
<1>3. /\ PlanOfPosition /\ ~position.supplyOnly /\ plan.liq = Missing /\ plan.branches = {}
      /\ plan.tick = position.tick /\ plan.tickId = position.tickId
  BY <1>1 DEF QuietInv, PlanSoFar, PlanOfPosition
<1>4. tick = PositionTick
  BY <1>3 DEF PositionTick
<1>5. CASE ~IsLiquidated(tick, plan.tickId)
  <2>1. pc' = "submit" /\ plan' = plan
    BY <1>5 DEF ReadTick
  <2>2. ~Liquidated
    BY <1>3, <1>4, <1>5 DEF Liquidated
  <2>3. PlanOfPosition'
    BY <1>1, <1>3, <2>1, VaultAtRest DEF PlanOfPosition
  <2> QED BY <1>1, <2>1, <2>2, <2>3, VaultAtRest DEF PlanSoFar
<1>6. CASE IsLiquidated(tick, plan.tickId) /\ tick.totalIds = plan.tickId
  <2>1. FollowRecord(tick.record, plan)
    BY <1>6 DEF ReadTick
  <2>2. /\ plan' = [plan EXCEPT !.next = tick.record.branch]
        /\ pc' = IF tick.record.full THEN "submit" ELSE "walk"
    BY <2>1 DEF FollowRecord
  <2>3. plan' = [tick |-> position.tick, tickId |-> position.tickId,
                 supplyOnly |-> position.supplyOnly, liq |-> Missing, branches |-> {},
                 next |-> tick.record.branch]
    BY <1>3, <2>2 DEF PlanOfPosition
  <2>4. PlanOfPosition'
    BY <1>1, <2>3, VaultAtRest DEF PlanOfPosition
  <2>5. tick.record = Record /\ Liquidated
    BY <1>3, <1>4, <1>6 DEF Record, LiquidationRecord, Liquidated
  <2>6. RightAccount'
    BY <1>1, <1>3, <1>4, <1>6, <2>3, VaultAtRest DEF RightAccount
  <2> HIDE DEF tick
  <2>7. PlanSoFar'
    BY <1>1, <2>2, <2>3, <2>5, <2>6, WalkStarts
  <2> QED BY <2>4, <2>7
<1>7. CASE IsLiquidated(tick, plan.tickId) /\ tick.totalIds # plan.tickId
  <2>1. pc' = "liq" /\ plan' = [plan EXCEPT !.next = tick.record.branch]
    BY <1>7 DEF ReadTick
  <2>2. plan' = [tick |-> position.tick, tickId |-> position.tickId,
                 supplyOnly |-> position.supplyOnly, liq |-> Missing, branches |-> {},
                 next |-> tick.record.branch]
    BY <1>3, <2>1 DEF PlanOfPosition
  <2>3. Liquidated /\ PositionTick.totalIds # position.tickId
    BY <1>3, <1>4, <1>7 DEF Liquidated
  <2>4. PlanOfPosition'
    BY <1>1, <2>2, VaultAtRest DEF PlanOfPosition
  <2> QED BY <1>1, <2>1, <2>2, <2>3, <2>4, VaultAtRest DEF PlanSoFar
<1> QED BY <1>5, <1>6, <1>7

LEMMA ReadLiqQuiet ==
    ASSUME QuietInv, ReadLiq PROVE QuietInv'
<1> DEFINE account == LiqOf(plan.tick, plan.tickId)
           record == flushed[account][SlotOf(plan.tickId)]
<1>1. pc = "liq" /\ moved' = moved /\ UNCHANGED vault
  BY DEF ReadLiq, ClientTurns
<1>2. pc' \in {"submit", "walk"}
  BY DEF ReadLiq, FollowRecord
<1> SUFFICES ASSUME ~moved PROVE PlanOfPosition' /\ PlanSoFar'
  BY <1>1, <1>2 DEF QuietInv
<1>3. /\ PlanOfPosition /\ Liquidated /\ PositionTick.totalIds # position.tickId
      /\ plan.liq = Missing /\ plan.branches = {}
      /\ plan.tick = position.tick /\ plan.tickId = position.tickId
  BY <1>1 DEF QuietInv, PlanSoFar, PlanOfPosition
<1>4. account = Account
  BY <1>3 DEF Account
<1>5. CASE flushed[account] = Missing
  <2>1. pc' = "walk" /\ plan' = plan
    BY <1>5 DEF ReadLiq
  <2>2. PlanOfPosition'
    BY <1>1, <1>3, <2>1, VaultAtRest DEF PlanOfPosition
  <2>3. RecordLost /\ RightAccount
    BY <1>3, <1>4, <1>5 DEF RecordLost, RightAccount
  <2>4. RightAccount'
    BY <1>1, <2>1, <2>3, VaultAtRest DEF RightAccount
  <2> QED BY <1>1, <1>3, <2>1, <2>2, <2>3, <2>4, VaultAtRest DEF PlanSoFar
<1>6. CASE flushed[account] # Missing
  <2>1. FollowRecord(record, [plan EXCEPT !.liq = account])
    BY <1>6 DEF ReadLiq
  <2>2. /\ plan' = [[plan EXCEPT !.liq = account] EXCEPT !.next = record.branch]
        /\ pc' = IF record.full THEN "submit" ELSE "walk"
    BY <2>1 DEF FollowRecord
  <2>3. plan' = [tick |-> position.tick, tickId |-> position.tickId,
                 supplyOnly |-> position.supplyOnly, liq |-> Account, branches |-> {},
                 next |-> record.branch]
    <3>1. [plan EXCEPT !.liq = account]
            = [tick |-> position.tick, tickId |-> position.tickId,
               supplyOnly |-> position.supplyOnly, liq |-> Account, branches |-> {},
               next |-> plan.next]
      BY <1>3, <1>4 DEF PlanOfPosition
    <3> HIDE DEF account, record
    <3> QED BY <2>2, <3>1
  <2>4. PlanOfPosition'
    BY <1>1, <2>3, VaultAtRest DEF PlanOfPosition
  <2>5. record = Record
    BY <1>3, <1>4 DEF Record, LiquidationRecord
  <2>6. RightAccount'
    BY <1>1, <1>3, <1>4, <1>6, <2>3, VaultAtRest DEF RightAccount
  <2> HIDE DEF record
  <2>7. PlanSoFar'
    BY <1>1, <1>3, <2>2, <2>3, <2>5, <2>6, WalkStarts
  <2> QED BY <2>4, <2>7
<1> QED BY <1>5, <1>6

LEMMA BranchesFinite == IsFiniteSet(Branches)
<1>1. MaxBranches \in Nat \ {0}
  BY RefreshAssumption
<1> QED BY <1>1, FS_Interval DEF Branches

LEMMA ReadBranchQuiet ==
    ASSUME QuietInv, ReadBranch PROVE QuietInv'
<1> DEFINE b == plan.next
           seen == plan.branches \cup {b}
           found == b \in Branches /\ b \notin plan.branches /\ branch[b] # Missing
<1>1. pc = "walk" /\ moved' = moved /\ UNCHANGED vault
  BY DEF ReadBranch, ClientTurns
<1>2. pc' \in {"submit", "walk"}
  BY DEF ReadBranch
<1> SUFFICES ASSUME ~moved PROVE PlanOfPosition' /\ PlanSoFar'
  BY <1>1, <1>2 DEF QuietInv
<1>3. /\ PlanOfPosition /\ Liquidated /\ RightAccount
      /\ \/ RecordLost
         \/ /\ ~Record.full
            /\ OnTheWay(plan.branches, plan.next)
            /\ OfTheChain(plan.branches, plan.next)
  BY <1>1 DEF QuietInv, PlanSoFar
<1>4. \/ ~found /\ pc' = "submit" /\ plan' = plan
      \/ /\ found
         /\ plan' = [plan EXCEPT !.branches = seen, !.next = branch[b].connected]
         /\ pc' = IF branch[b].status = BranchMerged /\ Cardinality(seen) < ClientHops
                  THEN "walk" ELSE "submit"
  BY DEF ReadBranch
<1>5. /\ plan' = [tick |-> position.tick, tickId |-> position.tickId,
                  supplyOnly |-> position.supplyOnly, liq |-> plan.liq,
                  branches |-> plan'.branches, next |-> plan'.next]
      /\ plan'.branches = IF found THEN seen ELSE plan.branches
      /\ plan'.next = IF found THEN branch[b].connected ELSE b
  <2> DEFINE c == branch[b].connected
  <2>1. plan' = plan \/ plan' = [plan EXCEPT !.branches = seen, !.next = c]
    BY <1>4
  <2>2. ASSUME NEW ids, NEW n
        PROVE  [plan EXCEPT !.branches = ids, !.next = n]
                 = [tick |-> position.tick, tickId |-> position.tickId,
                    supplyOnly |-> position.supplyOnly, liq |-> plan.liq,
                    branches |-> ids, next |-> n]
    <3> DEFINE more == [plan EXCEPT !.branches = ids]
    <3>1. more = [tick |-> position.tick, tickId |-> position.tickId,
                  supplyOnly |-> position.supplyOnly, liq |-> plan.liq,
                  branches |-> ids, next |-> plan.next]
      BY <1>3 DEF PlanOfPosition
    <3>2. [plan EXCEPT !.branches = ids, !.next = n] = [more EXCEPT !.next = n]
      OBVIOUS
    <3> HIDE DEF more
    <3>3. [more EXCEPT !.next = n]
            = [tick |-> position.tick, tickId |-> position.tickId,
               supplyOnly |-> position.supplyOnly, liq |-> plan.liq,
               branches |-> ids, next |-> n]
      BY <3>1
    <3> QED BY <3>2, <3>3, Zenon
  <2> HIDE DEF seen, found, c
  <2> QED BY <1>3, <1>4, <2>1, <2>2 DEF PlanOfPosition, c
<1>6. PlanOfPosition'
  BY <1>1, <1>5, VaultAtRest DEF PlanOfPosition
<1>7. RightAccount'
  BY <1>1, <1>3, <1>5, VaultAtRest DEF RightAccount
<1>8. CASE RecordLost
  BY <1>1, <1>2, <1>3, <1>6, <1>7, <1>8, VaultAtRest DEF PlanSoFar
<1>9. CASE /\ ~RecordLost /\ ~Record.full
          /\ OnTheWay(plan.branches, plan.next)
          /\ OfTheChain(plan.branches, plan.next)
  <2>1. CASE ~found
    <3>1. b \notin Existing \/ b \in plan.branches
      BY <2>1 DEF Existing
    <3>2. Collected(plan.branches)
      BY <1>9, <3>1 DEF Collected, OnTheWay
    <3>3. Collected(plan.branches)' /\ pc' = "submit"
      BY <1>1, <1>4, <2>1, <3>2, VaultAtRest DEF Collected
    <3> QED BY <1>6, <1>7, <3>3 DEF PlanSoFar
  <2>2. CASE found
    <3>1. /\ plan'.branches = seen /\ plan'.next = branch[b].connected
          /\ seen \subseteq Existing /\ Record.branch \in seen
          /\ \A i \in plan.branches : branch[i].status = BranchMerged => branch[i].connected \in seen
          /\ b \in Existing
      BY <1>5, <1>9, <2>2 DEF OnTheWay, Existing
    <3>5. ASSUME NEW some \in SUBSET Existing, Collected(some) PROVE seen \subseteq some
      BY <1>9, <3>1, <3>5 DEF OfTheChain
    <3>2. CASE pc' = "walk"
      <4>1. OnTheWay(seen, branch[b].connected)
        BY <3>1 DEF OnTheWay
      <4>2. OnTheWay(plan.branches, plan.next)' /\ ~Record.full'
        <5> HIDE DEF seen
        <5> QED BY <1>1, <1>9, <3>1, <4>1, VaultAtRest DEF OnTheWay
      <4>3. Liquidated'
        BY <1>1, <1>3, VaultAtRest
      <4>4. OfTheChain(seen, branch[b].connected)
        <5>1. branch[b].status = BranchMerged
          BY <1>4, <2>2, <3>2
        <5> HIDE DEF seen
        <5> SUFFICES ASSUME NEW some \in SUBSET Existing, Collected(some)
                     PROVE  /\ seen \subseteq some
                            /\ branch[b].connected \in Existing => branch[b].connected \in some
          BY DEF OfTheChain
        <5>2. seen \subseteq some
          BY <3>5
        <5>3. b \in some
          BY <5>2 DEF seen
        <5> QED BY <5>1, <5>2, <5>3 DEF Collected
      <4>5. OfTheChain(plan.branches, plan.next)'
        <5> HIDE DEF seen
        <5> QED BY <1>1, <3>1, <4>4, ChainAtRest
      <4> QED BY <1>6, <1>7, <3>2, <4>2, <4>3, <4>5 DEF PlanSoFar
    <3>3. CASE pc' = "submit" /\ branch[b].status # BranchMerged
      <4>1. Collected(seen)
        BY <3>1, <3>3 DEF Collected
      <4>2. Collected(plan.branches)'
        <5> HIDE DEF seen
        <5> QED BY <1>1, <3>1, <4>1, CollectedAtRest
      <4> QED BY <1>6, <1>7, <3>3, <4>2 DEF PlanSoFar
    <3>4. CASE pc' = "submit" /\ ~(Cardinality(seen) < ClientHops)
      <4>1. ASSUME ClientReaches PROVE Collected(seen)
        <5>1. PICK some \in SUBSET Existing : Collected(some) /\ Cardinality(some) <= ClientHops
          BY <1>3, <1>9, <4>1 DEF ClientReaches
        <5>2. seen \subseteq some
          BY <3>5, <5>1
        <5>3. IsFiniteSet(some)
          BY BranchesFinite, FS_Subset DEF Existing
        <5>4. /\ Cardinality(seen) \in Nat /\ Cardinality(some) \in Nat
              /\ seen # some => Cardinality(seen) < Cardinality(some)
          <6> HIDE DEF seen
          <6> QED BY <5>2, <5>3, FS_Subset, FS_CardinalityType
        <5>5. ClientHops \in Nat
          BY RefreshAssumption
        <5>6. seen = some
          <6> HIDE DEF seen
          <6> QED BY <3>4, <5>1, <5>4, <5>5
        <5> QED BY <5>1, <5>6
      <4>2. Collected(plan.branches)' \/ ~ClientReaches'
        <5> HIDE DEF seen
        <5>1. ClientReaches' = ClientReaches
          BY <1>1, VaultAtRest
        <5> QED BY <1>1, <3>1, <4>1, <5>1, CollectedAtRest
      <4> QED BY <1>6, <1>7, <3>4, <4>2 DEF PlanSoFar
    <3> QED BY <1>4, <2>2, <3>2, <3>3, <3>4
  <2> QED BY <2>1, <2>2
<1> QED BY <1>3, <1>8, <1>9

LEMMA VaultMovesIt ==
    ASSUME Vault PROVE moved' = TRUE /\ UNCHANGED client
  BY DEF Vault, Operate, OthersOperate, Repay, Liquidate, Absorb, VaultMoves, Reopen, BranchFor,
         Taken

LEMMA QuietInductive ==
    ASSUME QuietInv, [Next]_vars PROVE QuietInv'
<1>1. CASE Vault
  BY <1>1, VaultMovesIt DEF QuietInv, client
<1>2. CASE Reads
  BY <1>2, ReadPositionQuiet, ReadTickQuiet, ReadLiqQuiet, ReadBranchQuiet DEF Reads
<1>3. CASE Submit
  BY <1>3 DEF Submit, QuietInv
<1>4. CASE UNCHANGED vars
  <2>1. UNCHANGED <<pc, plan, moved>> /\ UNCHANGED vault
    BY <1>4 DEF vars, client
  <2>2. QuietInv' = QuietInv
    BY <2>1, VaultAtRest
       DEF QuietInv, PlanOfPosition, PlanSoFar, RightAccount, OnTheWay, OfTheChain, Collected
  <2> QED BY <2>2
<1> QED BY <1>1, <1>2, <1>3, <1>4 DEF Next

LEMMA QuietEnough == QuietInv => QuietPlanSuffices
<1> SUFFICES ASSUME QuietInv, pc = "submit", ~moved, Truth # Failed, ClientReaches
             PROVE  Compute(plan.tick, plan.liq, plan.branches) = Truth
  BY DEF QuietPlanSuffices
<1>1. PlanOfPosition /\ PlanSoFar
  BY DEF QuietInv
<1>2. plan.tick = position.tick
  BY <1>1 DEF PlanOfPosition
<1>3. CASE Liquidated
  BY <1>1, <1>2, <1>3, PlanFits DEF PlanSoFar
<1>4. CASE ~Liquidated
  <2>1. ASSUME NEW liq, NEW ids
        PROVE  Compute(position.tick, liq, ids) = NotLiquidated
    BY <1>4 DEF Compute, Liquidated, PositionTick
  <2>2. Truth = NotLiquidated
    BY <2>1 DEF Truth
  <2> QED BY <1>2, <2>1, <2>2
<1> QED BY <1>3, <1>4

\* When the vault did not move while the client read, the program gets from
\* the accounts the client chose what it would get from every account there
\* is, as long as the position's chain has no more branches than the client's
\* loop has turns; the vault may have any number of them
\* (lendmirror.ts 127-190, live_position.rs 169-220).
THEOREM ClientCollectsEnough == Spec => []QuietPlanSuffices
<1>1. Init => QuietInv
  BY DEF Init, QuietInv
<1>2. QuietInv /\ [Next]_vars => QuietInv'
  BY QuietInductive
<1>3. QuietInv => QuietPlanSuffices
  BY QuietEnough
<1> QED BY <1>1, <1>2, <1>3, PTL DEF Spec
-----------------------------------------------------------------------------
(* What the program stores *)

LEMMA ComputeCases ==
    ASSUME NEW seed, NEW liq, NEW ids, Compute(seed, liq, ids) # Failed
    PROVE  \/ Compute(seed, liq, ids) = NotLiquidated
           \/ /\ StoredDebt # Failed /\ ~position.supplyOnly /\ ~RecordLost
              /\ Compute(seed, liq, ids)
                   = Snapshot(NothingLeft(Record.branch), StoredDebt, 0, TRUE, TRUE)
           \/ /\ StoredDebt # Failed /\ EnlargedDebt # Failed /\ Live(ids) # Failed
              /\ ~position.supplyOnly /\ ~RecordLost
              /\ Compute(seed, liq, ids) = Snapshot(Live(ids), StoredDebt, Dust, TRUE, FALSE)
  BY SameAccount
     DEF Compute, Record, PositionTick, RecordLost, StoredDebt, EnlargedDebt, Passed, Live

IsSnapshot(s) ==
    \E live, stored, dust, liquidated, full : s = Snapshot(live, stored, dust, liquidated, full)

LEMMA ComputeMakesSnapshots ==
    ASSUME NEW seed, NEW liq, NEW ids, Compute(seed, liq, ids) # Failed
    PROVE  IsSnapshot(Compute(seed, liq, ids))
<1>1. NotLiquidated = Failed \/ IsSnapshot(NotLiquidated)
  BY DEF NotLiquidated, IsSnapshot
<1>2. ASSUME NEW live, NEW stored, NEW dust, NEW liquidated, NEW full
      PROVE  IsSnapshot(Snapshot(live, stored, dust, liquidated, full))
  BY DEF IsSnapshot
<1> QED BY <1>1, <1>2, ComputeCases

LEMMA SnapshotIsPriced ==
    ASSUME NEW s, IsSnapshot(s) PROVE Priced(s).borrow = s.net
  BY DEF IsSnapshot, Snapshot, Priced

\* The mirror works the debt out again from the debt and the dust it gets,
\* and arrives at the net debt that the program stored, whatever the numbers
\* (PositionSnapshotMsgCodec.sol 116-128, get_jupiter_position.rs 223).
THEOREM MirrorsPriceAlike == Spec => []MirrorPricesNetDebt
<1> DEFINE Stored == snapshot # Missing => IsSnapshot(snapshot)
<1>1. Init => Stored
  BY DEF Init
<1>2. Stored /\ [Next]_vars => Stored'
  <2> SUFFICES ASSUME Stored, [Next]_vars PROVE Stored'
    OBVIOUS
  <2>1. CASE Submit
    <3> DEFINE result == Compute(plan.tick, plan.liq, plan.branches)
    <3>1. snapshot' = IF result = Failed THEN snapshot ELSE result
      BY <2>1 DEF Submit
    <3>2. result # Failed => IsSnapshot(result)
      BY ComputeMakesSnapshots
    <3>3. ASSUME NEW s, s = snapshot', IsSnapshot(s)
          PROVE  IsSnapshot(snapshot)'
      BY <3>3 DEF IsSnapshot, Snapshot
    <3> HIDE DEF result
    <3> QED BY <3>1, <3>2, <3>3
  <2>2. CASE ~Submit
    <3>1. UNCHANGED snapshot
      BY <2>2 DEF Next, vars, Vault, Operate, OthersOperate, Repay, Liquidate, Absorb, Reads,
                  ReadPosition, ReadTick, ReadLiq, ReadBranch, ClientTurns
    <3> QED BY <3>1 DEF IsSnapshot, Snapshot
  <2> QED BY <2>1, <2>2
<1>3. Stored => MirrorPricesNetDebt
  BY SnapshotIsPriced DEF MirrorPricesNetDebt
<1> HIDE DEF Stored
<1> QED BY <1>1, <1>2, <1>3, PTL DEF Spec
-----------------------------------------------------------------------------
(* The arithmetic stays within its types *)

LEMMA Product == ASSUME NEW x \in Nat, NEW y \in Nat PROVE x * y \in Nat
  OBVIOUS

LEMMA Quotient == ASSUME NEW x \in Nat, NEW y \in Nat \ {0} PROVE x \div y \in Nat
  OBVIOUS

\* A part of a number is no larger than the number.
LEMMA Share ==
    ASSUME NEW x \in Nat, NEW a \in Nat, NEW b \in Nat \ {0}, a < b
    PROVE  (x * a) \div b <= x
<1>1. x * (b - a) \in Nat /\ x * (b - a) = x * b - x * a
  BY Product
<1>2. x * a <= x * b /\ x * a \in Nat /\ x * b \in Nat
  BY <1>1, Product
<1> DEFINE q == (x * a) \div b
<1>3. q \in Nat /\ q * b <= x * a
  BY <1>2, Quotient
<1>4. q > x => (q - x) * b >= b
  OBVIOUS
<1> QED BY <1>2, <1>3, <1>4

LEMMA ConstantTypes ==
    /\ CoefficientBits \in Nat \ {0} /\ ExponentBits \in Nat \ {0} /\ OneBits \in Nat \ {0}
    /\ MaxAmount \in Nat \ {0} /\ MaxTick \in Nat \ {0} /\ RatioShift \in Nat \ {0}
    /\ TickSpacing \in Nat \ {0} /\ FourDecimals \in Nat \ {0} /\ FullPartials \in Nat \ {0}
    /\ WideBits \in Nat /\ RatioShift < OneBits /\ OneBits < WideBits
    /\ 2 * CoefficientBits <= WideBits /\ CoefficientBits < WideBits /\ ExponentBits < WideBits
    /\ FourDecimals < TickSpacing
    /\ InitTick \in Int /\ InitTick < MinTick
<1>1. /\ CoefficientBits \in Nat \ {0} /\ ExponentBits \in Nat \ {0} /\ OneBits \in Nat \ {0}
      /\ MaxAmount \in Nat \ {0} /\ MaxTick \in Nat \ {0} /\ RatioShift \in Nat \ {0}
      /\ TickSpacing \in Nat \ {0} /\ FourDecimals \in Nat \ {0} /\ FullPartials \in Nat \ {0}
      /\ WideBits = 2 * OneBits /\ RatioShift < OneBits
      /\ 2 * CoefficientBits <= WideBits /\ ExponentBits < WideBits
      /\ FourDecimals < TickSpacing
      /\ InitTick \in Int /\ InitTick < MinTick
  BY LiveAssumption, Zenon
<1> QED BY <1>1

\* Powers of 2 up to the wide integer's are positive and double.
LEMMA Doubles ==
    /\ \A n \in 0..WideBits : 2^n \in Nat \ {0}
    /\ \A n \in 1..WideBits : 2^n = 2 * 2^(n - 1) /\ 2^(n - 1) < 2^n
<1>1. WideBits \in Nat
  BY ConstantTypes
<1> DEFINE S == {n \in Nat : n <= WideBits => 2^n \in Nat \ {0}}
<1>2. 0 \in S
  BY PowersOfTwo
<1>3. ASSUME NEW n \in Nat, n \in S PROVE n + 1 \in S
  <2>1. CASE n + 1 <= WideBits
    <3>1. n + 1 \in 1..WideBits /\ (n + 1) - 1 = n /\ n <= WideBits
      BY <1>1, <2>1
    <3>2. 2^(n + 1) = 2 * 2^((n + 1) - 1)
      BY <3>1, PowersOfTwo
    <3>3. 2^(n + 1) = 2 * 2^n /\ 2^n \in Nat \ {0}
      BY <1>3, <3>1, <3>2
    <3> QED BY <3>3
  <2> QED BY <2>1
<1> HIDE DEF S
<1>4. Nat \subseteq S
  BY <1>2, <1>3, Induction
<1>5. \A n \in 0..WideBits : 2^n \in Nat \ {0}
  BY <1>1, <1>4 DEF S
<1>6. ASSUME NEW n \in 1..WideBits PROVE 2^n = 2 * 2^(n - 1) /\ 2^(n - 1) < 2^n
  <2>1. 2^n = 2 * 2^(n - 1) /\ n - 1 \in 0..WideBits
    BY <1>1, PowersOfTwo
  <2>2. 2^(n - 1) \in Nat \ {0}
    BY <1>5, <2>1
  <2> QED BY <2>1, <2>2
<1> QED BY <1>5, <1>6

\* Exponents add up where powers are multiplied.
LEMMA ExponentsAdd ==
    ASSUME NEW m \in Nat, NEW n \in Nat, m + n <= WideBits
    PROVE  2^(m + n) = 2^m * 2^n
<1>1. WideBits \in Nat
  BY ConstantTypes
<1> DEFINE S == {k \in Nat : m + k <= WideBits => 2^(m + k) = 2^m * 2^k}
<1>2. 0 \in S
  <2>1. m + 0 = m /\ (m + 0 <= WideBits => 2^m \in Nat)
    BY <1>1, Doubles
  <2> QED BY <2>1, PowersOfTwo
<1>3. ASSUME NEW k \in Nat, k \in S PROVE k + 1 \in S
  <2>1. CASE m + (k + 1) <= WideBits
    <3>1. /\ m + (k + 1) \in 1..WideBits /\ k + 1 \in 1..WideBits
          /\ (m + (k + 1)) - 1 = m + k /\ (k + 1) - 1 = k /\ m + k <= WideBits
          /\ m \in 0..WideBits /\ k \in 0..WideBits
      BY <1>1, <2>1
    <3>2. 2^(m + (k + 1)) = 2 * 2^((m + (k + 1)) - 1)
      BY <3>1, Doubles
    <3>3. 2^(k + 1) = 2 * 2^((k + 1) - 1)
      BY <3>1, Doubles
    <3>4. 2^m \in Nat /\ 2^k \in Nat
      BY <3>1, Doubles
    <3>5. 2^(m + k) = 2^m * 2^k
      BY <1>3, <3>1
    <3>6. 2^(m + (k + 1)) = 2 * (2^m * 2^k) /\ 2^(k + 1) = 2 * 2^k
      BY <3>1, <3>2, <3>3, <3>5
    <3> DEFINE p == 2^m
               q == 2^k
    <3>7. p \in Nat /\ q \in Nat
      BY <3>4
    <3> HIDE DEF p, q
    <3>8. 2 * (p * q) = p * (2 * q)
      BY <3>7
    <3> QED BY <3>6, <3>8 DEF p, q
  <2> QED BY <2>1
<1> HIDE DEF S
<1>4. Nat \subseteq S
  BY <1>2, <1>3, Induction
<1> QED BY <1>4 DEF S

LEMMA Widths ==
    /\ 2^CoefficientBits \in Nat \ {0} /\ 2^(CoefficientBits - 1) \in Nat \ {0}
    /\ 2^(CoefficientBits - 1) < 2^CoefficientBits
    /\ 2^ExponentBits \in Nat \ {0} /\ 2^(ExponentBits - 1) \in Nat \ {0}
    /\ 2^(ExponentBits - 1) < 2^ExponentBits
    /\ 2^WideBits \in Nat \ {0} /\ 2^RatioShift \in Nat \ {0}
    /\ ZeroTickRatio \in Nat \ {0}
<1>1. /\ CoefficientBits \in 1..WideBits /\ CoefficientBits - 1 \in 0..WideBits
      /\ ExponentBits \in 1..WideBits /\ ExponentBits - 1 \in 0..WideBits
      /\ WideBits \in 0..WideBits /\ RatioShift \in 0..WideBits
      /\ OneBits - RatioShift \in 0..WideBits
  BY ConstantTypes
<1> QED BY <1>1, Doubles DEF ZeroTickRatio

LEMMA FactorTypes ==
    /\ [c |-> 0, e |-> 0] \in DebtFactor
    /\ InitialFactor \in DebtFactor
    /\ MaxDebtFactor \in DebtFactor
  BY Widths DEF DebtFactor, InitialFactor, MaxDebtFactor, ExponentBias, ExponentMax

LEMMA RatioOfTick ==
    ASSUME NEW tick \in MinTick..MaxTick PROVE RatioAtTick(tick) \in Nat
<1>1. MaxTick \in Nat /\ MinTick = -MaxTick
  BY ConstantTypes DEF MinTick
<1>2. tick \in MinTick..MaxTick
  OBVIOUS
<1>3. CASE tick \in 1..MaxTick
  <2> DEFINE inverse == (2^WideBits - 1) \div FactorOf(tick)
  <2>1. FactorOf(tick) \in Nat \ {0}
    BY <1>1, <1>3, TableAssumption
  <2>2. 2^WideBits - 1 \in Nat
    BY Widths
  <2>3. inverse \in Nat
    BY <2>1, <2>2, Quotient
  <2>4. inverse \div 2^RatioShift \in Nat
    BY <2>3, Widths, Quotient
  <2>5. RatioAtTick(tick) = inverse \div 2^RatioShift
                            + (IF inverse % 2^RatioShift = 0 THEN 0 ELSE 1)
    BY <1>2, <1>3 DEF RatioAtTick
  <2> HIDE DEF inverse
  <2> QED BY <1>2, <2>4, <2>5
<1>4. CASE tick \notin 1..MaxTick
  <2>1. RatioAtTick(tick) = FactorOf(-tick) \div 2^RatioShift
    BY <1>2, <1>4 DEF RatioAtTick
  <2>2. FactorOf(-tick) \in Nat
    <3>1. -tick \in 0..MaxTick
      BY <1>1, <1>2, <1>4
    <3> QED BY <3>1, TableAssumption
  <2> QED BY <1>2, <2>1, <2>2, Widths, Quotient
<1> QED BY <1>3, <1>4

LEMMA RatioType ==
    ASSUME NEW tick \in Int, RatioAtTick(tick) # Failed
    PROVE  tick \in MinTick..MaxTick /\ RatioAtTick(tick) \in Nat
<1>1. MaxTick \in Nat /\ MinTick = -MaxTick
  BY ConstantTypes DEF MinTick
<1>2. tick \in MinTick..MaxTick
  <2> SUFFICES ASSUME tick \notin MinTick..MaxTick PROVE FALSE
    OBVIOUS
  <2>1. tick \notin 1..MaxTick
    BY <1>1
  <2> QED BY <2>1, Zenon DEF RatioAtTick
<1> QED BY <1>2, RatioOfTick

LEMMA DebtType ==
    ASSUME NEW tick \in Int, NEW col \in Nat, NEW extra \in Nat,
           DebtFor(tick, col, extra) # Failed
    PROVE  DebtFor(tick, col, extra) \in 0..MaxAmount
<1> DEFINE t == NormalizeTick(tick)
           debt == (RatioAtTick(t) * col) \div ZeroTickRatio + extra
<1>1. t \in Int /\ MinTick \in Int /\ MaxAmount \in Nat
  BY ConstantTypes DEF NormalizeTick, MinTick
<1>2. CASE t <= MinTick
  BY <1>1, <1>2 DEF DebtFor
<1>3. CASE ~(t <= MinTick)
  <2>1. t > MinTick
    BY <1>1, <1>3
  <2>2. RatioAtTick(t) # Failed /\ ~(debt > MaxAmount) /\ DebtFor(tick, col, extra) = debt
    BY <1>3, <2>1 DEF DebtFor
  <2>3. RatioAtTick(t) \in Nat
    BY <1>1, <2>2, RatioType
  <2>4. (RatioAtTick(t) * col) \div ZeroTickRatio \in Nat
    BY <2>3, Product, Quotient, Widths
  <2>5. debt \in Nat
    BY <2>4
  <2> HIDE DEF debt, t
  <2> QED BY <1>1, <2>2, <2>5
<1> QED BY <1>2, <1>3

\* A factor on the way of a walk: its exponent may leave the packed range.
LooseFactor == [c : Nat, e : Int]

LEMMA LooseFactors == DebtFactor \subseteq LooseFactor
  BY Widths DEF DebtFactor, LooseFactor, ExponentMax

LEMMA ProductType ==
    ASSUME NEW a \in LooseFactor, NEW b \in LooseFactor, MulDebtFactors(a, b) # Failed
    PROVE  MulDebtFactors(a, b) \in LooseFactor
<1> DEFINE product == a.c * b.c
           exponent == a.e + b.e + MulShift(product) - ExponentBias
<1>1. product \in Nat
  BY Product DEF LooseFactor
<1>2. MulShift(product) \in {CoefficientBits, CoefficientBits - 1}
  BY DEF MulShift
<1>3. 2^MulShift(product) \in Nat \ {0} /\ MulShift(product) \in Int
  BY <1>2, Widths, ConstantTypes
<1>4. product \div 2^MulShift(product) \in Nat
  BY <1>1, <1>3, Quotient
<1>5. exponent \in Int
  BY <1>3, Widths DEF LooseFactor, ExponentBias
<1>6. [c |-> product \div 2^MulShift(product), e |-> exponent] \in LooseFactor
  BY <1>4, <1>5 DEF LooseFactor
<1>7. MaxDebtFactor \in LooseFactor
  BY FactorTypes, LooseFactors
<1>8. MulDebtFactors(a, b) \in
        {Failed, MaxDebtFactor, [c |-> product \div 2^MulShift(product), e |-> exponent]}
  BY DEF MulDebtFactors
<1> QED BY <1>6, <1>7, <1>8

LEMMA ScaledType ==
    ASSUME NEW amount \in Nat, NEW num \in LooseFactor, NEW den \in LooseFactor,
           MulDivDebtFactors(amount, num, den) # Failed
    PROVE  MulDivDebtFactors(amount, num, den) \in 0..MaxAmount
<1> DEFINE gap == den.e - num.e
           bottom == den.c * 2^gap
           quotient == (amount * num.c) \div bottom
           result == MulDivDebtFactors(amount, num, den)
<1> SUFFICES result \in 0..MaxAmount
  OBVIOUS
<1>1. gap \in Int /\ num.c \in Nat /\ den.c \in Nat /\ MaxAmount \in Nat /\ WideBits \in Nat
  BY ConstantTypes DEF LooseFactor
<1>2. result = 0 \/ (/\ ~(gap < 0) /\ ~(gap > WideBits) /\ bottom # 0
                     /\ ~(quotient > MaxAmount) /\ result = quotient)
  BY DEF MulDivDebtFactors
<1>3. CASE result = 0
  BY <1>1, <1>3
<1>4. CASE result # 0
  <2>1. gap \in 0..WideBits
    BY <1>1, <1>2, <1>4
  <2>2. 2^gap \in Nat
    <3> HIDE DEF gap
    <3> QED BY <2>1, Doubles
  <2>3. bottom \in Nat \ {0}
    BY <1>1, <1>2, <1>4, <2>2, Product
  <2>4. quotient \in Nat
    <3> HIDE DEF bottom
    <3> QED BY <1>1, <2>3, Product, Quotient
  <2> HIDE DEF quotient, result
  <2> QED BY <1>1, <1>2, <1>4, <2>4
<1> QED BY <1>3, <1>4

\* What CollateralAtMinima divides by, where it succeeds.
LEMMA CollateralIs ==
    ASSUME NEW b, b.minima \in Int, b.partials \in Nat, NEW debt \in Nat,
           CollateralAtMinima(b, debt) # Failed
    PROVE  LET top == RatioAtTick(b.minima)
               below == (top * FourDecimals) \div TickSpacing
               ratio == MinimaRatio(top, below, b.partials)
           IN  /\ top \in Nat /\ below \in 0..top /\ ratio \in Nat \ {0}
               /\ CollateralAtMinima(b, debt) = (debt * ZeroTickRatio) \div ratio
               /\ CollateralAtMinima(b, debt) \in 0..MaxAmount
               /\ b.minima \in MinTick..MaxTick
<1> DEFINE top == RatioAtTick(b.minima)
           below == (top * FourDecimals) \div TickSpacing
           ratio == MinimaRatio(top, below, b.partials)
           col == (debt * ZeroTickRatio) \div ratio
<1>1. top # Failed /\ ratio # 0 /\ ~(col > MaxAmount) /\ CollateralAtMinima(b, debt) = col
  BY DEF CollateralAtMinima
<1>2. top \in Nat /\ b.minima \in MinTick..MaxTick
  BY <1>1, RatioType
<1> HIDE DEF top
<1>3. /\ FourDecimals \in Nat /\ TickSpacing \in Nat \ {0} /\ FourDecimals < TickSpacing
      /\ FullPartials \in Nat \ {0} /\ MaxAmount \in Nat
  BY ConstantTypes
<1>4. below \in Nat /\ below <= top
  BY <1>2, <1>3, Product, Quotient, Share
<1> HIDE DEF below
<1>5. ((top - below) * b.partials) \div FullPartials \in Nat
  BY <1>2, <1>3, <1>4, Product, Quotient
<1>6. ratio \in Nat \ {0}
  BY <1>1, <1>4, <1>5 DEF MinimaRatio
<1> HIDE DEF ratio
<1>7. col \in Nat
  BY <1>6, Product, Quotient, Widths
<1> HIDE DEF col
<1>8. col \in 0..MaxAmount /\ below \in 0..top
  BY <1>1, <1>2, <1>3, <1>4, <1>7
<1> QED BY <1>1, <1>2, <1>6, <1>8 DEF top, below, ratio, col

LEMMA CollateralType ==
    ASSUME NEW b, b.minima \in Int, b.partials \in Nat, NEW debt \in Nat,
           CollateralAtMinima(b, debt) # Failed
    PROVE  CollateralAtMinima(b, debt) \in 0..MaxAmount
  BY CollateralIs

Walker(w) == \E id, factor, stop : /\ factor \in LooseFactor
                                   /\ w = [id |-> id, factor |-> factor, stop |-> stop]

LEMMA HopType ==
    ASSUME NEW w, Walker(w), NEW branches, branches[w.id].factor \in LooseFactor,
           Hop(w, branches) # Failed
    PROVE  Walker(Hop(w, branches))
<1>1. PICK i, g, stop : g \in LooseFactor /\ w = [id |-> i, factor |-> g, stop |-> stop]
  BY DEF Walker
<1> DEFINE factor == MulDebtFactors(w.factor, branches[w.id].factor)
           next == branches[w.id].connected
<1>2. \/ Hop(w, branches) = w
      \/ Hop(w, branches) = [w EXCEPT !.stop = TRUE]
      \/ /\ factor # Failed
         /\ \/ Hop(w, branches) = [w EXCEPT !.factor = factor, !.stop = TRUE]
            \/ Hop(w, branches) = [id |-> next, factor |-> factor, stop |-> FALSE]
  BY DEF Hop
<1>3. factor # Failed => factor \in LooseFactor
  <2>1. w.factor \in LooseFactor
    BY <1>1
  <2> QED BY <2>1, ProductType
<1>4. ASSUME NEW v, NEW h, v = [id |-> i, factor |-> h, stop |-> stop]
      PROVE  [v EXCEPT !.stop = TRUE] = [id |-> i, factor |-> h, stop |-> TRUE]
  <2>1. ASSUME NEW t PROVE [v EXCEPT !.stop = t] = [id |-> i, factor |-> h, stop |-> t]
    BY ONLY <1>4
  <2> QED BY ONLY <2>1, Zenon
<1>5. [w EXCEPT !.factor = factor, !.stop = TRUE] = [id |-> i, factor |-> factor, stop |-> TRUE]
  <2> HIDE DEF factor
  <2> DEFINE v == [w EXCEPT !.factor = factor]
  <2>1. v = [id |-> i, factor |-> factor, stop |-> stop]
    BY <1>1
  <2>2. [w EXCEPT !.factor = factor, !.stop = TRUE] = [v EXCEPT !.stop = TRUE]
    OBVIOUS
  <2> HIDE DEF v
  <2> QED BY <1>4, <2>1, <2>2
<1>6. ASSUME NEW v, NEW id, NEW h \in LooseFactor, NEW s, v = [id |-> id, factor |-> h, stop |-> s]
      PROVE  Walker(v)
  BY <1>6 DEF Walker
<1> HIDE DEF factor, next
<1> QED BY <1>1, <1>2, <1>3, <1>4, <1>5, <1>6

AccountsTyped(branches) ==
    \A b \in DOMAIN branches :
        /\ branches[b].factor \in DebtFactor
        /\ branches[b].minima \in Int
        /\ branches[b].partials \in Nat

LEMMA EndOfWalkType ==
    ASSUME NEW start, NEW factor \in LooseFactor, NEW branches, AccountsTyped(branches),
           EndOfWalk(start, factor, branches) # Failed
    PROVE  LET w == EndOfWalk(start, factor, branches)
           IN  w.id \in DOMAIN branches /\ w.factor \in LooseFactor
<1> DEFINE w == EndOfWalk(start, factor, branches)
<1>1. PICK f : /\ Turns(f, start, factor, branches)
               /\ w = IF start \notin DOMAIN branches \/ f[LastTurn] = Failed
                         \/ ~f[LastTurn].stop
                      THEN Failed ELSE f[LastTurn]
  BY WalkTurns
<1>2. w = f[LastTurn] /\ f[LastTurn] # Failed /\ start \in DOMAIN branches
  BY <1>1
<1> HIDE DEF w
<1> DEFINE Good == {h \in Nat : h \in 0..LastTurn /\ f[h] # Failed => Walker(f[h])}
<1>3. 0 \in Good
  <2>1. 0 \in 0..LastTurn
    BY LastTurnNat
  <2>2. f[0] = [id |-> start, factor |-> factor, stop |-> FALSE]
    BY <1>1, <2>1 DEF Turns, Turn
  <2>3. Walker(f[0])
    BY <2>2 DEF Walker
  <2> QED BY <2>3
<1>4. ASSUME NEW n \in Nat, n \in Good PROVE n + 1 \in Good
  <2> SUFFICES ASSUME n + 1 \in 0..LastTurn, f[n + 1] # Failed PROVE Walker(f[n + 1])
    OBVIOUS
  <2>1. n \in 0..LastTurn /\ n + 1 # 0 /\ (n + 1) - 1 = n
    BY LastTurnNat
  <2>2. f[n + 1] = IF f[n] = Failed THEN Failed ELSE Hop(f[n], branches)
    BY <1>1, <2>1 DEF Turns, Turn
  <2>3. f[n] # Failed /\ Walker(f[n]) /\ f[n + 1] = Hop(f[n], branches)
    BY <1>4, <2>1, <2>2
  <2>4. f[n].id \in DOMAIN branches
    BY <1>1, <1>2, <2>1, <2>3, TurnsStand
  <2>5. branches[f[n].id].factor \in LooseFactor
    BY <2>4, LooseFactors DEF AccountsTyped
  <2>6. Walker(Hop(f[n], branches))
    BY <2>2, <2>3, <2>5, HopType
  <2> QED BY <2>3, <2>6
<1>5. Nat \subseteq Good
  <2> HIDE DEF Good
  <2> QED BY <1>3, <1>4, Induction
<1>6. w.factor \in LooseFactor
  <2>1. Walker(f[LastTurn])
    BY <1>2, <1>5, LastTurnNat
  <2> QED BY <1>2, <2>1 DEF Walker
<1>7. w.id \in DOMAIN branches
  BY <1>1, <1>2, TurnsStand, LastTurnNat
<1> QED BY <1>6, <1>7 DEF w

LEMMA WalkType ==
    ASSUME NEW start, NEW factor \in LooseFactor, NEW stored \in Nat, NEW branches,
           AccountsTyped(branches), WalkBranches(start, factor, stored, branches) # Failed
    PROVE  {WalkBranches(start, factor, stored, branches).col,
            WalkBranches(start, factor, stored, branches).debt} \subseteq 0..MaxAmount
<1> DEFINE w == EndOfWalk(start, factor, branches)
           b == branches[w.id]
           scaled == MulDivDebtFactors(stored, b.factor, w.factor)
           debt == KeptDebt(scaled, stored)
           col == CollateralAtMinima(b, debt)
           live == WalkBranches(start, factor, stored, branches)
<1> SUFFICES {live.col, live.debt} \subseteq 0..MaxAmount
  OBVIOUS
<1>1. \/ live = NothingLeft(w.id)
      \/ /\ w # Failed /\ scaled # Failed /\ col # Failed
         /\ live = [tick |-> b.minima, col |-> col, debt |-> debt, branch |-> w.id]
  BY DEF WalkBranches
<1>2. CASE live = NothingLeft(w.id)
  <2>1. live.col = 0 /\ live.debt = 0
    <3> HIDE DEF live, w
    <3> QED BY <1>2 DEF NothingLeft
  <2> HIDE DEF live
  <2> QED BY <2>1, ConstantTypes
<1>3. CASE /\ w # Failed /\ scaled # Failed /\ col # Failed
           /\ live = [tick |-> b.minima, col |-> col, debt |-> debt, branch |-> w.id]
  <2>1. w.id \in DOMAIN branches /\ w.factor \in LooseFactor
    BY <1>3, EndOfWalkType
  <2>2. b.factor \in LooseFactor /\ b.minima \in Int /\ b.partials \in Nat
    BY <2>1, LooseFactors DEF AccountsTyped
  <2>3. scaled \in 0..MaxAmount
    <3> HIDE DEF b, w
    <3> QED BY <1>3, <2>1, <2>2, ScaledType
  <2>4. debt \in 0..MaxAmount
    <3> HIDE DEF scaled
    <3> QED BY <2>3, ConstantTypes DEF KeptDebt
  <2>5. col \in 0..MaxAmount
    <3> HIDE DEF b, debt
    <3> QED BY <1>3, <2>2, <2>4, CollateralType
  <2>6. live.col = col /\ live.debt = debt
    <3> HIDE DEF col, debt, b, w, live
    <3> QED BY <1>3
  <2> HIDE DEF live, col, debt
  <2> QED BY <2>4, <2>5, <2>6
<1> QED BY <1>1, <1>2, <1>3
-----------------------------------------------------------------------------
(* The type invariant *)

RecordType == [full : BOOLEAN, branch : {0} \cup Branches, factor : DebtFactor]

BranchType ==
    [status : 0..3, minima : Minima \cup {InitTick}, partials : 0..FullPartials,
     factor : DebtFactor, connected : {0} \cup Branches]

TickType == [liquidated : BOOLEAN, record : RecordType, totalIds : 0..(FirstId + steps)]

FlushedTyped ==
    /\ DOMAIN flushed = LiqAccounts
    /\ \A a \in LiqAccounts : flushed[a] # Missing => flushed[a] \in [0..2 -> RecordType]

TicksTyped ==
    /\ steps \in 0..MaxSteps
    /\ tickAt \in [AllTicks -> TickType]
    /\ FlushedTyped

PositionTyped ==
    position \in [tick : Ticks \cup {InitTick}, tickId : 0..(FirstId + steps),
                  supplyOnly : BOOLEAN]

\* The branches that were made are joined to one another; the rest are missing.
Joined(made) ==
    /\ DOMAIN branch = Branches
    /\ made \subseteq Branches /\ current \in made
    /\ \A b \in made : branch[b] \in BranchType /\ branch[b].connected \in {0} \cup made
    /\ \A b \in Branches \ made : branch[b] = Missing

BranchesTyped == \E made : Joined(made)

ClientTyped ==
    /\ pc \in {"position", "tick", "liq", "walk", "submit"}
    /\ "branches" \in DOMAIN plan /\ plan.branches \subseteq Branches

SnapshotTyped == snapshot # Missing => {snapshot.col, snapshot.debt, snapshot.net} \subseteq 0..MaxAmount

TypeInv ==
    /\ TicksTyped /\ PositionTyped /\ BranchesTyped /\ ClientTyped /\ SnapshotTyped
    /\ home \in {0} \cup Branches

LEMMA RefreshTypes ==
    /\ Ticks \subseteq Int /\ Minima \subseteq Int /\ InitTick \notin Ticks
    /\ Ticks \subseteq AllTicks /\ MinTick \notin Ticks /\ MinTick \in AllTicks
    /\ Partials \subseteq 0..FullPartials
    /\ Fractions \subseteq (Nat \ {0}) \X (Nat \ {0})
    /\ Collateral \in 0..MaxAmount /\ Dust \in 0..MaxAmount
    /\ FirstId \in Nat \ {0} /\ MaxBranches \in Nat \ {0} /\ MaxSteps \in Nat \ {0}
    /\ MaxGap \in Nat \ {0}
<1>1. /\ Ticks \cup Minima \subseteq (MinTick + 1)..MaxTick
      /\ Partials \subseteq 0..FullPartials
      /\ Fractions \subseteq (Nat \ {0}) \X (Nat \ {0})
      /\ Collateral \in 0..MaxAmount /\ Dust \in 0..MaxAmount
      /\ FirstId \in Nat \ {0} /\ MaxBranches \in Nat \ {0} /\ MaxSteps \in Nat \ {0}
      /\ MaxGap \in Nat \ {0}
  BY RefreshAssumption, Zenon
<1>2. MinTick \in Int /\ MaxTick \in Int /\ InitTick \in Int /\ InitTick < MinTick
  BY ConstantTypes DEF MinTick
<1> QED BY <1>1, <1>2 DEF AllTicks

LEMMA NoRecordType == NoRecord \in RecordType /\ [NoRecord EXCEPT !.full = TRUE] \in RecordType
<1>1. NoRecord \in RecordType
  BY FactorTypes DEF NoRecord, RecordType
<1>2. ASSUME NEW r \in RecordType, NEW t \in BOOLEAN PROVE [r EXCEPT !.full = t] \in RecordType
  BY DEF RecordType
<1> QED BY <1>1, <1>2

LEMMA NewBranchType ==
    ASSUME NEW base \in {0} \cup Branches
    PROVE  NewBranch(base) \in BranchType /\ NewBranch(base).connected = base
<1>1. 0 \in 0..FullPartials /\ 0 \in 0..3
  BY ConstantTypes
<1> QED BY <1>1, FactorTypes DEF NewBranch, BranchType

LEMMA TypesInit == Init => TypeInv
<1> SUFFICES ASSUME Init PROVE TypeInv
  OBVIOUS
<1> USE RefreshTypes
<1>1. steps \in 0..MaxSteps /\ steps = 0
  BY DEF Init
<1>2. tickAt \in [AllTicks -> TickType]
  <2>1. \A t \in AllTicks : tickAt[t] = [liquidated |-> FALSE, record |-> NoRecord,
                                         totalIds |-> IF t = MinTick THEN 0 ELSE FirstId]
    BY DEF Init
  <2>2. ASSUME NEW t \in AllTicks PROVE tickAt[t] \in TickType
    <3> DEFINE ids == IF t = MinTick THEN 0 ELSE FirstId
    <3>1. ids \in 0..(FirstId + steps)
      BY <1>1
    <3>2. tickAt[t] = [liquidated |-> FALSE, record |-> NoRecord, totalIds |-> ids]
      BY <2>1
    <3> HIDE DEF ids
    <3> QED BY ONLY <3>1, <3>2, NoRecordType DEF TickType
  <2>3. tickAt = [t \in AllTicks |-> tickAt[t]]
    BY DEF Init
  <2> QED BY <2>2, <2>3
<1>3. FlushedTyped
  <2> DEFINE full == [s \in 0..2 |-> [NoRecord EXCEPT !.full = TRUE]]
  <2>1. full \in [0..2 -> RecordType]
    BY NoRecordType
  <2>2. /\ DOMAIN flushed = LiqAccounts
        /\ \A a \in LiqAccounts : flushed[a] \in {full, Missing}
    BY DEF Init
  <2> HIDE DEF full
  <2> QED BY <2>1, <2>2 DEF FlushedTyped
<1>4. PositionTyped
  BY <1>1 DEF Init, PositionTyped
<1>5. Joined({1})
  <2>1. 1 \in Branches
    BY DEF Branches
  <2>2. /\ DOMAIN branch = Branches /\ current = 1 /\ branch[1] = NewBranch(0)
        /\ \A b \in Branches \ {1} : branch[b] = Missing
    BY <2>1 DEF Init
  <2> QED BY <2>1, <2>2, NewBranchType DEF Joined
<1>6. ClientTyped
  BY DEF Init, ClientTyped, NoPlan
<1>7. BranchesTyped
  BY <1>5 DEF BranchesTyped
<1>8. SnapshotTyped /\ home \in {0} \cup Branches
  BY DEF Init, SnapshotTyped
<1> QED BY <1>1, <1>2, <1>3, <1>4, <1>6, <1>7, <1>8 DEF TypeInv, TicksTyped

LEMMA ReopenTypes ==
    ASSUME TicksTyped, VaultMoves, NEW t \in Ticks, Reopen(t)
    PROVE  TicksTyped' /\ tickAt'[t].totalIds \in 0..(FirstId + steps')
<1> USE RefreshTypes
<1> DEFINE tick == tickAt[t]
           account == <<t, VaultGroup(tick.totalIds)>>
           slots == IF flushed[account] = Missing THEN [s \in 0..2 |-> NoRecord]
                    ELSE flushed[account]
           later == TickType'
<1>1. steps \in 0..MaxSteps /\ steps' = steps + 1 /\ steps' \in 0..MaxSteps
  BY DEF VaultMoves, TicksTyped
<1>2. \A x \in TickType : x \in later
  BY <1>1 DEF TickType
<1>3. t \in AllTicks /\ tick \in TickType
  BY DEF TicksTyped
<1>4. \A s \in AllTicks : tickAt[s] \in later
  BY <1>2 DEF TicksTyped
<1>5. CASE ~tick.liquidated
  <2>1. tickAt' = tickAt /\ flushed' = flushed
    BY <1>5 DEF Reopen
  <2>2. tickAt' \in [AllTicks -> later]
    <3> HIDE DEF later
    <3> QED BY <1>4, <2>1 DEF TicksTyped
  <2>3. FlushedTyped'
    BY <2>1 DEF FlushedTyped, TicksTyped
  <2>4. tickAt'[t] \in later
    <3> HIDE DEF later
    <3> QED BY <1>3, <2>2
  <2> QED BY <1>1, <2>2, <2>3, <2>4 DEF TicksTyped, TickType
<1>6. CASE tick.liquidated
  <2> DEFINE new == [liquidated |-> FALSE, record |-> NoRecord, totalIds |-> tick.totalIds + 1]
  <2>1. /\ tickAt' = [tickAt EXCEPT ![t] = new]
        /\ flushed' = [flushed EXCEPT ![account] = [slots EXCEPT ![VaultSlot(tick.totalIds)]
                                                       = tick.record]]
    BY <1>6 DEF Reopen
  <2>2. tick.totalIds \in 0..(FirstId + steps) /\ tick.record \in RecordType
    BY <1>3 DEF TickType
  <2>3. new \in later
    BY <1>1, <2>2, NoRecordType DEF TickType
  <2>4. tickAt' \in [AllTicks -> later]
    <3> HIDE DEF new, later
    <3> QED BY <1>4, <2>1, <2>3 DEF TicksTyped
  <2>5. account \in LiqAccounts
    <3>1. (tick.totalIds + 2) \div 3 \in 0..(FirstId + MaxSteps)
      <4> HIDE DEF tick
      <4> QED BY <1>1, <2>2
    <3> HIDE DEF tick
    <3> QED BY <1>3, <3>1 DEF LiqAccounts, VaultGroup
  <2>6. slots \in [0..2 -> RecordType]
    <3>1. flushed[account] # Missing => flushed[account] \in [0..2 -> RecordType]
      <4> HIDE DEF account
      <4> QED BY <2>5 DEF TicksTyped, FlushedTyped
    <3>2. [s \in 0..2 |-> NoRecord] \in [0..2 -> RecordType]
      BY NoRecordType
    <3> HIDE DEF account
    <3> QED BY <3>1, <3>2
  <2>7. [slots EXCEPT ![VaultSlot(tick.totalIds)] = tick.record] \in [0..2 -> RecordType]
    <3> HIDE DEF slots, tick
    <3> QED BY <2>2, <2>6
  <2>8. FlushedTyped'
    <3> HIDE DEF slots, tick, account
    <3>1. DOMAIN flushed = LiqAccounts
      BY DEF TicksTyped, FlushedTyped
    <3> DEFINE record == [slots EXCEPT ![VaultSlot(tick.totalIds)] = tick.record]
    <3>2. \A a \in LiqAccounts : flushed'[a] = record \/ flushed'[a] = flushed[a]
      <4> HIDE DEF record
      <4> QED BY <2>1, <3>1 DEF record
    <3>3. DOMAIN flushed' = LiqAccounts
      BY <2>1, <3>1
    <3>4. \A a \in LiqAccounts : flushed[a] # Missing => flushed[a] \in [0..2 -> RecordType]
      BY DEF TicksTyped, FlushedTyped
    <3> HIDE DEF record
    <3>5. record \in [0..2 -> RecordType]
      BY <2>7 DEF record
    <3>6. \A a \in LiqAccounts : flushed'[a] # Missing => flushed'[a] \in [0..2 -> RecordType]
      BY <3>2, <3>4, <3>5
    <3> QED BY <3>3, <3>6 DEF FlushedTyped, RecordType, LiqAccounts
  <2>9. tickAt'[t] \in later
    <3> HIDE DEF later
    <3> QED BY <1>3, <2>4
  <2> QED BY <1>1, <2>4, <2>8, <2>9 DEF TicksTyped, TickType
<1> QED BY <1>5, <1>6

\* A new branch is joined to the current one.
LEMMA BranchForTypes ==
    ASSUME BranchesTyped, NEW t, BranchFor(t)
    PROVE  BranchesTyped'
<1>1. PICK made : Joined(made)
  BY DEF BranchesTyped
<1>2. CASE UNCHANGED <<branch, current>>
  <2>1. Joined(made)'
    BY <1>1, <1>2 DEF Joined
  <2> QED BY <2>1 DEF BranchesTyped
<1>3. ASSUME NEW new \in Branches,
             branch' = [branch EXCEPT ![new] = NewBranch(current)], current' = new
      PROVE  BranchesTyped'
  <2> DEFINE more == made \cup {new}
  <2>1. made \subseteq Branches /\ current \in made
    BY <1>1 DEF Joined
  <2>2. /\ DOMAIN branch' = Branches /\ branch'[new] = NewBranch(current)
        /\ \A b \in Branches : b # new => branch'[b] = branch[b]
    BY <1>1, <1>3 DEF Joined
  <2>3. NewBranch(current) \in BranchType /\ NewBranch(current).connected = current
    BY <2>1, NewBranchType
  <2>4. ASSUME NEW b \in more
        PROVE  branch'[b] \in BranchType /\ branch'[b].connected \in {0} \cup more
    BY <1>1, <2>1, <2>2, <2>3 DEF Joined
  <2>5. \A b \in Branches \ more : branch'[b] = Missing
    BY <1>1, <2>2 DEF Joined
  <2>6. ASSUME NEW m, m = more PROVE Joined(m)'
    <3>1. DOMAIN branch' = Branches /\ m \subseteq Branches /\ current' \in m
      BY <1>3, <2>1, <2>2, <2>6
    <3> HIDE DEF more
    <3> QED BY <2>4, <2>5, <2>6, <3>1 DEF Joined, BranchType, Branches
  <2> QED BY <2>6 DEF BranchesTyped
<1> QED BY <1>2, <1>3 DEF BranchFor

LEMMA TakenTypes ==
    ASSUME TicksTyped, VaultMoves, NEW ticks, NEW record \in RecordType,
           Taken(ticks, record), UNCHANGED flushed
    PROVE  TicksTyped'
<1> USE RefreshTypes
<1> DEFINE later == TickType'
<1>1. steps \in 0..MaxSteps /\ steps' = steps + 1 /\ steps' \in 0..MaxSteps
  BY DEF VaultMoves, TicksTyped
<1>2. \A x \in TickType : x \in later
  BY <1>1 DEF TickType
<1>3. ASSUME NEW t \in AllTicks
      PROVE  [tickAt[t] EXCEPT !.liquidated = TRUE, !.record = record] \in TickType
  <2>1. tickAt[t] \in TickType
    BY DEF TicksTyped
  <2>2. ASSUME NEW x \in TickType, NEW l \in BOOLEAN
        PROVE  [x EXCEPT !.liquidated = l, !.record = record] \in TickType
    BY DEF TickType
  <2> QED BY <2>1, <2>2
<1>4. \A t \in AllTicks : tickAt[t] \in TickType
  BY DEF TicksTyped
<1>5. tickAt' \in [AllTicks -> TickType]
  BY <1>3, <1>4 DEF Taken
<1>6. tickAt' \in [AllTicks -> later]
  <2> HIDE DEF later
  <2> QED BY <1>2, <1>5
<1>7. FlushedTyped'
  BY DEF TicksTyped, FlushedTyped
<1> QED BY <1>1, <1>6, <1>7 DEF TicksTyped

\* An id of before is one of now.
LEMMA PositionLater ==
    ASSUME TicksTyped, PositionTyped, VaultMoves, UNCHANGED position
    PROVE  PositionTyped'
  BY RefreshTypes DEF TicksTyped, PositionTyped, VaultMoves

LEMMA OperateTypes ==
    ASSUME TypeInv, NEW t \in Ticks, Operate(t) PROVE TypeInv'
<1>1. /\ VaultMoves /\ Reopen(t) /\ BranchFor(t) /\ UNCHANGED <<client, snapshot>>
      /\ position' = [tick |-> t, tickId |-> tickAt'[t].totalIds, supplyOnly |-> FALSE]
      /\ home' = 0
  BY DEF Operate
<1>2. TicksTyped' /\ tickAt'[t].totalIds \in 0..(FirstId + steps')
  BY <1>1, ReopenTypes DEF TypeInv
<1>3. PositionTyped'
  BY <1>1, <1>2 DEF PositionTyped
<1>4. BranchesTyped'
  BY <1>1, BranchForTypes DEF TypeInv
<1>5. ClientTyped' /\ SnapshotTyped'
  BY <1>1 DEF TypeInv, ClientTyped, SnapshotTyped, client, Branches
<1> QED BY <1>1, <1>2, <1>3, <1>4, <1>5 DEF TypeInv

LEMMA OthersOperateTypes ==
    ASSUME TypeInv, NEW t \in Ticks, OthersOperate(t) PROVE TypeInv'
<1>1. /\ VaultMoves /\ Reopen(t) /\ BranchFor(t)
      /\ UNCHANGED <<position, home, client, snapshot>>
  BY DEF OthersOperate
<1>2. TicksTyped'
  BY <1>1, ReopenTypes DEF TypeInv
<1>3. PositionTyped' /\ BranchesTyped'
  BY <1>1, PositionLater, BranchForTypes DEF TypeInv
<1>4. ClientTyped' /\ SnapshotTyped'
  BY <1>1 DEF TypeInv, ClientTyped, SnapshotTyped, client, Branches
<1> QED BY <1>1, <1>2, <1>3, <1>4 DEF TypeInv, Branches

LEMMA RepayTypes ==
    ASSUME TypeInv, Repay PROVE TypeInv'
<1>1. /\ VaultMoves /\ home' = 0
      /\ UNCHANGED <<tickAt, flushed, branch, current, client, snapshot>>
      /\ position' = [tick |-> InitTick, tickId |-> 0, supplyOnly |-> TRUE]
  BY DEF Repay
<1>2. steps \in 0..MaxSteps /\ steps' = steps + 1 /\ steps' \in 0..MaxSteps
  BY <1>1, RefreshTypes DEF VaultMoves, TypeInv, TicksTyped
<1>3. PositionTyped'
  BY <1>1, <1>2, RefreshTypes DEF PositionTyped
<1>4. TicksTyped'
  <2> DEFINE later == TickType'
  <2>1. \A x \in TickType : x \in later
    BY <1>2, RefreshTypes DEF TickType
  <2> HIDE DEF later
  <2>2. tickAt' \in [AllTicks -> later]
    BY <1>1, <2>1 DEF TypeInv, TicksTyped
  <2> QED BY <1>1, <1>2, <2>2 DEF TypeInv, TicksTyped, FlushedTyped, later
<1>5. BranchesTyped'
  <2>1. PICK made : Joined(made)
    BY DEF TypeInv, BranchesTyped
  <2>2. Joined(made)'
    BY <1>1, <2>1 DEF Joined
  <2> QED BY <2>2 DEF BranchesTyped
<1>6. ClientTyped' /\ SnapshotTyped'
  BY <1>1 DEF TypeInv, ClientTyped, SnapshotTyped, client, Branches
<1> QED BY <1>1, <1>3, <1>4, <1>5, <1>6 DEF TypeInv

\* A liquidation rewrites the current branch and leaves it where it is joined.
LEMMA CurrentTypes ==
    ASSUME NEW made, Joined(made), NEW x \in BranchType, x.connected = branch[current].connected,
           branch' = [branch EXCEPT ![current] = x],
           current' \in {current, branch[current].connected}, current' # 0
    PROVE  BranchesTyped'
<1>1. made \subseteq Branches /\ current \in made /\ DOMAIN branch = Branches
  BY DEF Joined
<1>2. /\ DOMAIN branch' = Branches /\ branch'[current] = x
      /\ \A b \in Branches : b # current => branch'[b] = branch[b]
  BY <1>1
<1>3. branch[current].connected \in {0} \cup made
  BY <1>1 DEF Joined
<1>4. current' \in made
  BY <1>1, <1>3
<1>5. \A b \in made : branch'[b] \in BranchType /\ branch'[b].connected \in {0} \cup made
  BY <1>1, <1>2, <1>3 DEF Joined
<1>6. \A b \in Branches \ made : branch'[b] = Missing
  BY <1>1, <1>2 DEF Joined
<1>7. Joined(made)'
  BY <1>1, <1>2, <1>4, <1>5, <1>6 DEF Joined, BranchType, Branches
<1> QED BY <1>7 DEF BranchesTyped

LEMMA LiquidateTypes ==
    ASSUME TypeInv, NEW fraction \in Fractions, NEW minima \in Minima, NEW partials \in Partials,
           Liquidate(fraction, minima, partials)
    PROVE  TypeInv'
<1> USE RefreshTypes
<1> DEFINE b == branch[current]
           base == b.connected
           joins == {t \in Ticks : t > minima /\ ~tickAt[t].liquidated}
           here == (\E t \in joins : Holds(t)) \/ home = current
           factor == Scale(b.factor, fraction)
           merges == base # 0 /\ minima = branch[base].minima
           merged == IF merges THEN Divide(branch[base].factor, factor) ELSE factor
           record == [full |-> FALSE, branch |-> current, factor |-> b.factor]
<1>1. PICK made : Joined(made)
  BY DEF TypeInv, BranchesTyped
<1>2. b \in BranchType /\ current \in Branches /\ base \in {0} \cup Branches
  BY <1>1 DEF Joined
<1>3. /\ VaultMoves /\ factor \in DebtFactor /\ merged \in DebtFactor
      /\ Taken(joins, record)
      /\ UNCHANGED <<position, flushed, client, snapshot>>
  BY DEF Liquidate
<1>4. /\ current' = IF merges THEN base ELSE current
      /\ home' = IF ~here THEN home ELSE IF merges THEN base ELSE current
  BY DEF Liquidate
<1>5. branch' = [branch EXCEPT ![current] =
          IF merges
          THEN [@ EXCEPT !.status = BranchMerged, !.minima = minima, !.factor = merged]
          ELSE [@ EXCEPT !.status = 1, !.minima = minima, !.partials = partials,
                         !.factor = factor]]
  BY DEF Liquidate
<1>6. record \in RecordType
  <2> HIDE DEF b
  <2> QED BY <1>2 DEF RecordType, BranchType
<1>7. TicksTyped'
  <2> HIDE DEF joins, record
  <2> QED BY <1>3, <1>6, TakenTypes DEF TypeInv
<1>8. PositionTyped'
  BY <1>3, PositionLater DEF TypeInv
<1>9. BranchesTyped'
  <2> DEFINE x == IF merges
                  THEN [b EXCEPT !.status = BranchMerged, !.minima = minima, !.factor = merged]
                  ELSE [b EXCEPT !.status = 1, !.minima = minima, !.partials = partials,
                                 !.factor = factor]
  <2>1. branch' = [branch EXCEPT ![current] = x]
    <3> HIDE DEF merges, merged, factor
    <3> QED BY <1>5
  <2>2. x \in BranchType /\ x.connected = base
    <3>1. minima \in Minima \cup {InitTick} /\ partials \in 0..FullPartials
          /\ BranchMerged \in 0..3 /\ 1 \in 0..3
      BY DEF BranchMerged
    <3> HIDE DEF b, factor, merged, merges
    <3>2. /\ [b EXCEPT !.status = BranchMerged, !.minima = minima, !.factor = merged]
               \in BranchType
          /\ [b EXCEPT !.status = BranchMerged, !.minima = minima, !.factor = merged].connected
               = base
      BY <1>2, <1>3, <3>1 DEF BranchType
    <3>3. /\ [b EXCEPT !.status = 1, !.minima = minima, !.partials = partials, !.factor = factor]
               \in BranchType
          /\ [b EXCEPT !.status = 1, !.minima = minima, !.partials = partials,
                       !.factor = factor].connected = base
      BY <1>2, <1>3, <3>1 DEF BranchType
    <3> QED BY <3>2, <3>3
  <2>3. current' \in {current, base} /\ current' # 0
    <3>1. current # 0
      BY <1>2 DEF Branches
    <3> QED BY <1>4, <3>1
  <2> HIDE DEF x
  <2> QED BY <1>1, <2>1, <2>2, <2>3, CurrentTypes
<1>10. home' \in {0} \cup Branches
  <2> HIDE DEF merges, here
  <2> QED BY <1>2, <1>4 DEF TypeInv
<1>11. ClientTyped' /\ SnapshotTyped'
  BY <1>3 DEF TypeInv, ClientTyped, SnapshotTyped, client, Branches
<1> QED BY <1>7, <1>8, <1>9, <1>10, <1>11 DEF TypeInv, Branches

LEMMA AbsorbTypes ==
    ASSUME TypeInv, Absorb PROVE TypeInv'
<1> DEFINE joins == {t \in Ticks : ~tickAt[t].liquidated}
           base == branch[current].connected
           record == [NoRecord EXCEPT !.full = TRUE]
           x == [branch[current] EXCEPT !.status = BranchClosed]
<1>1. /\ VaultMoves /\ base # 0 /\ Taken(joins, record)
      /\ branch' = [branch EXCEPT ![current] = x]
      /\ current' = base
      /\ UNCHANGED <<position, flushed, home, client, snapshot>>
  BY DEF Absorb
<1>2. TicksTyped'
  <2> HIDE DEF joins, record
  <2> QED BY <1>1, TakenTypes, NoRecordType DEF TypeInv, record
<1>3. PositionTyped'
  BY <1>1, PositionLater DEF TypeInv
<1>4. PICK made : Joined(made)
  BY DEF TypeInv, BranchesTyped
<1>5. x \in BranchType /\ x.connected = base
  <2>1. branch[current] \in BranchType
    BY <1>4 DEF Joined
  <2> QED BY <2>1 DEF BranchType, BranchClosed
<1>6. BranchesTyped'
  <2> HIDE DEF x
  <2> QED BY <1>1, <1>4, <1>5, CurrentTypes
<1>7. ClientTyped' /\ SnapshotTyped'
  BY <1>1 DEF TypeInv, ClientTyped, SnapshotTyped, client, Branches
<1> QED BY <1>1, <1>2, <1>3, <1>6, <1>7 DEF TypeInv, Branches
\* Only the walk adds to the branches, and it adds one that exists.
LEMMA ReadsTypes ==
    ASSUME TypeInv, Reads PROVE TypeInv'
<1>1. UNCHANGED <<vault, snapshot>>
  BY DEF Reads, ReadPosition, ReadTick, ReadLiq, ReadBranch, ClientTurns
<1>2. pc' \in {"position", "tick", "liq", "walk", "submit"}
  BY DEF Reads, ReadPosition, ReadTick, ReadLiq, ReadBranch, FollowRecord
<1>3. "branches" \in DOMAIN plan /\ plan.branches \subseteq Branches
  BY DEF TypeInv, ClientTyped
<1>4. ASSUME NEW p, "branches" \in DOMAIN p, p.branches \subseteq Branches, NEW x
      PROVE  /\ "branches" \in DOMAIN [p EXCEPT !.next = x]
             /\ [p EXCEPT !.next = x].branches \subseteq Branches
             /\ "branches" \in DOMAIN [p EXCEPT !.liq = x]
             /\ [p EXCEPT !.liq = x].branches \subseteq Branches
  BY <1>4
<1>5. "branches" \in DOMAIN plan' /\ plan'.branches \subseteq Branches
  <2>1. CASE ReadPosition
    BY <2>1 DEF ReadPosition, NoPlan
  <2>2. CASE ReadTick
    <3>1. \/ plan' = plan
          \/ \E x : plan' = [plan EXCEPT !.next = x]
      BY <2>2 DEF ReadTick, FollowRecord
    <3> QED BY <1>3, <1>4, <3>1
  <2>3. CASE ReadLiq
    <3>1. \/ plan' = plan
          \/ \E x, y : plan' = [[plan EXCEPT !.liq = x] EXCEPT !.next = y]
      BY <2>3 DEF ReadLiq, FollowRecord
    <3> QED BY <1>3, <1>4, <3>1
  <2>4. CASE ReadBranch
    <3> DEFINE seen == plan.branches \cup {plan.next}
               c == branch[plan.next].connected
    <3>1. plan' = plan \/ (/\ plan.next \in Branches
                           /\ plan' = [plan EXCEPT !.branches = seen, !.next = c])
      BY <2>4 DEF ReadBranch
    <3>2. plan.next \in Branches => seen \subseteq Branches
      BY <1>3
    <3>3. /\ "branches" \in DOMAIN [plan EXCEPT !.branches = seen, !.next = c]
          /\ [plan EXCEPT !.branches = seen, !.next = c].branches = seen
      <4> HIDE DEF seen, c
      <4> QED BY <1>3
    <3> HIDE DEF seen, c
    <3> QED BY <1>3, <3>1, <3>2, <3>3
  <2> QED BY <2>1, <2>2, <2>3, <2>4 DEF Reads
<1>6. ClientTyped'
  BY <1>2, <1>5 DEF ClientTyped, Branches
<1> QED BY <1>1, <1>6
        DEF vault, TypeInv, TicksTyped, TickType, FlushedTyped, PositionTyped, BranchesTyped, Joined,
            SnapshotTyped

LEMMA RecordIsTyped ==
    ASSUME TypeInv, ~RecordLost PROVE Record \in RecordType
<1> USE RefreshTypes
<1>1. position.tick \in Ticks \cup {InitTick} /\ position.tickId \in 0..(FirstId + steps)
      /\ steps \in 0..MaxSteps
  BY DEF TypeInv, PositionTyped, TicksTyped
<1>2. NormalizeTick(position.tick) \in AllTicks
  BY <1>1 DEF NormalizeTick, AllTicks
<1>3. PositionTick \in TickType
  BY <1>2 DEF PositionTick, TypeInv, TicksTyped
<1>4. PositionTick.record \in RecordType
  BY <1>3 DEF TickType
<1>5. Account \in LiqAccounts
  <2>1. (position.tickId + 2) \div 3 \in 0..(FirstId + MaxSteps)
    BY <1>1
  <2> QED BY <1>2, <2>1 DEF Account, LiqOf, GroupOf, LiqAccounts
<1>6. SlotOf(position.tickId) \in 0..2
  BY <1>1 DEF SlotOf
<1>7. PositionTick.totalIds # position.tickId =>
          flushed[Account][SlotOf(position.tickId)] \in RecordType
  BY <1>5, <1>6 DEF RecordLost, TypeInv, TicksTyped, FlushedTyped
<1> QED BY <1>4, <1>7 DEF Record, LiquidationRecord

LEMMA RecordTyped ==
    ASSUME TypeInv, ~RecordLost PROVE Record.factor \in LooseFactor
<1>1. Record.factor \in DebtFactor
  BY RecordIsTyped DEF RecordType
<1> QED BY <1>1, LooseFactors

LEMMA PassedTyped ==
    ASSUME BranchesTyped, NEW ids, ids \subseteq Branches PROVE AccountsTyped(Passed(ids))
<1>1. PICK made : Joined(made)
  BY DEF BranchesTyped
<1>2. ASSUME NEW b \in DOMAIN Passed(ids)
      PROVE  Passed(ids)[b] \in BranchType
  BY <1>1 DEF Passed, Joined
<1>3. ASSUME NEW x \in BranchType
      PROVE  x.factor \in DebtFactor /\ x.minima \in Int /\ x.partials \in Nat
  <2>1. /\ x.factor \in DebtFactor /\ x.minima \in Minima \cup {InitTick}
        /\ x.partials \in 0..FullPartials
    BY DEF BranchType
  <2>2. InitTick \in Int /\ FullPartials \in Nat /\ Minima \subseteq Int
    BY ConstantTypes, RefreshTypes
  <2>3. x.minima \in Int
    BY <2>1, <2>2, Zenon
  <2>4. x.partials \in Nat
    BY <2>1, <2>2
  <2> QED BY <2>1, <2>3, <2>4
<1> QED BY <1>2, <1>3 DEF AccountsTyped

LEMMA SnapshotType ==
    ASSUME NEW live, {live.col, live.debt} \subseteq 0..MaxAmount, NEW dust \in 0..MaxAmount,
           NEW stored, NEW liquidated, NEW full
    PROVE  LET s == Snapshot(live, stored, dust, liquidated, full)
           IN  {s.col, s.debt, s.net} \subseteq 0..MaxAmount
  BY ConstantTypes DEF Snapshot

LEMMA PositionTickInt == PositionTyped => position.tick \in Int
  BY ConstantTypes, RefreshTypes DEF PositionTyped

LEMMA ComputeTypes ==
    ASSUME TypeInv, NEW seed, NEW liq, NEW ids, ids \subseteq Branches,
           Compute(seed, liq, ids) # Failed
    PROVE  LET s == Compute(seed, liq, ids)
           IN  {s.col, s.debt, s.net} \subseteq 0..MaxAmount
<1> DEFINE s == Compute(seed, liq, ids)
<1> SUFFICES {s.col, s.debt, s.net} \subseteq 0..MaxAmount
  OBVIOUS
<1>1. position.tick \in Int /\ Collateral \in 0..MaxAmount /\ Dust \in 0..MaxAmount
      /\ 0 \in 0..MaxAmount /\ MaxAmount \in Nat
  BY PositionTickInt, RefreshTypes, ConstantTypes DEF TypeInv
<1>2. StoredDebt # Failed => StoredDebt \in 0..MaxAmount
  BY <1>1, DebtType DEF StoredDebt, DebtRawAtTick
<1>3. EnlargedDebt # Failed => EnlargedDebt \in Nat
  BY <1>1, DebtType DEF EnlargedDebt, LiquidationDebtRawAtTick
<1>4. CASE s = NotLiquidated
  <2> DEFINE stored == IF position.supplyOnly THEN 0 ELSE StoredDebt
             live == [tick |-> NormalizeTick(position.tick), col |-> Collateral,
                      debt |-> stored, branch |-> 0]
  <2>1. stored # Failed /\ s = Snapshot(live, stored, Dust, FALSE, FALSE)
    BY <1>4 DEF NotLiquidated, StoredDebt
  <2>2. stored \in 0..MaxAmount
    BY <1>1, <1>2, <2>1
  <2>3. {live.col, live.debt} \subseteq 0..MaxAmount
    BY <1>1, <2>2
  <2> HIDE DEF stored, live, s
  <2> QED BY <1>1, <2>1, <2>3, SnapshotType
<1>5. CASE s = Snapshot(NothingLeft(Record.branch), StoredDebt, 0, TRUE, TRUE)
  <2>1. {NothingLeft(Record.branch).col, NothingLeft(Record.branch).debt} \subseteq 0..MaxAmount
    BY <1>1 DEF NothingLeft
  <2> HIDE DEF s
  <2> QED BY <1>1, <1>5, <2>1, SnapshotType
<1>6. CASE /\ EnlargedDebt # Failed /\ Live(ids) # Failed /\ ~RecordLost
           /\ s = Snapshot(Live(ids), StoredDebt, Dust, TRUE, FALSE)
  <2>1. AccountsTyped(Passed(ids)) /\ Record.factor \in LooseFactor
    BY <1>6, PassedTyped, RecordTyped DEF TypeInv
  <2>2. {Live(ids).col, Live(ids).debt} \subseteq 0..MaxAmount
    BY <1>3, <1>6, <2>1, WalkType DEF Live
  <2> HIDE DEF s
  <2> QED BY <1>1, <1>6, <2>2, SnapshotType
<1> QED BY <1>4, <1>5, <1>6, ComputeCases

LEMMA SubmitTypes ==
    ASSUME TypeInv, Submit PROVE TypeInv'
<1> DEFINE result == Compute(plan.tick, plan.liq, plan.branches)
<1>1. /\ snapshot' = IF result = Failed THEN snapshot ELSE result
      /\ pc' = "position" /\ plan' = NoPlan /\ UNCHANGED vault
  BY DEF Submit
<1>2. result # Failed => {result.col, result.debt, result.net} \subseteq 0..MaxAmount
  BY ComputeTypes DEF TypeInv, ClientTyped
<1> HIDE DEF result
<1>3. SnapshotTyped'
  BY <1>1, <1>2 DEF TypeInv, SnapshotTyped
<1>4. ClientTyped'
  BY <1>1 DEF ClientTyped, NoPlan
<1> QED BY <1>1, <1>3, <1>4
        DEF vault, TypeInv, TicksTyped, TickType, FlushedTyped, PositionTyped, BranchesTyped, Joined

LEMMA TypesInductive == TypeInv /\ [Next]_vars => TypeInv'
<1> SUFFICES ASSUME TypeInv, [Next]_vars PROVE TypeInv'
  OBVIOUS
<1>1. ASSUME NEW t \in Ticks, Operate(t) \/ OthersOperate(t) PROVE TypeInv'
  BY <1>1, OperateTypes, OthersOperateTypes
<1>2. CASE Repay
  BY <1>2, RepayTypes
<1>3. ASSUME NEW f \in Fractions, NEW t \in Minima, NEW p \in Partials, Liquidate(f, t, p)
      PROVE  TypeInv'
  BY <1>3, LiquidateTypes
<1>4. CASE Absorb
  BY <1>4, AbsorbTypes
<1>5. CASE Reads
  BY <1>5, ReadsTypes
<1>6. CASE Submit
  BY <1>6, SubmitTypes
<1>7. CASE UNCHANGED vars
  BY <1>7
     DEF vars, vault, client, TypeInv, TicksTyped, TickType, FlushedTyped, PositionTyped,
         BranchesTyped, Joined, ClientTyped, SnapshotTyped
<1> QED BY <1>1, <1>2, <1>3, <1>4, <1>5, <1>6, <1>7 DEF Next, Vault

LEMMA TypesEnough == TypeInv => LiveTypeOK
<1> SUFFICES ASSUME TypeInv PROVE LiveTypeOK
  OBVIOUS
<1>1. PICK made : Joined(made)
  BY DEF TypeInv, BranchesTyped
<1>2. current \in Branches /\ \A b \in Branches : branch[b] # Missing => branch[b].factor \in DebtFactor
  BY <1>1 DEF Joined, BranchType
<1>3. position \in [tick : Ticks \cup {InitTick}, tickId : Nat, supplyOnly : BOOLEAN]
  BY RefreshTypes DEF TypeInv, PositionTyped, TicksTyped
<1>4. \A t \in AllTicks : tickAt[t].record.factor \in DebtFactor
  BY DEF TypeInv, TicksTyped, TickType, RecordType
<1> QED BY <1>2, <1>3, <1>4 DEF TypeInv, ClientTyped, SnapshotTyped, LiveTypeOK

\* Whatever liquidations, merges and absorptions do to the vault and whenever
\* a refresh runs, every packed factor stays within its bits and every amount
\* that a refresh stores fits the account's u64 (live_position.rs 118-237,
\* get_jupiter_position.rs 140-221).
THEOREM RefreshesStayTyped == Spec => []LiveTypeOK
<1>1. Init => TypeInv
  BY TypesInit
<1>2. TypeInv /\ [Next]_vars => TypeInv'
  BY TypesInductive
<1>3. TypeInv => LiveTypeOK
  BY TypesEnough
<1> QED BY <1>1, <1>2, <1>3, PTL DEF Spec
-----------------------------------------------------------------------------
(* What the vault leaves for the program to read *)

\* A branch that a liquidation has worked on.
Worked(b) == b \in Existing /\ branch[b].status # 0

\* A record says that nothing is left, or where the rest of the debt went.
Readable(record) == record.full \/ Worked(record.branch)

Written(t, id) ==
    LET account == <<t, VaultGroup(id)>>
    IN  flushed[account] # Missing /\ Readable(flushed[account][VaultSlot(id)])

\* A branch is joined to an older one, which was liquidated down to a tick.
JoinedToOlder(b) ==
    /\ branch[b].connected # 0 => Worked(branch[b].connected) /\ branch[b].connected < b
    /\ branch[b].status = BranchMerged => branch[b].connected # 0
    /\ branch[b].status # 0 => branch[b].minima \in Minima

BranchesInv == \A b \in Existing : JoinedToOlder(b)

\* The record of a tick's last id is in the tick once it was liquidated; those
\* of the ids before it are in the flushed accounts.
TickInv(t) ==
    /\ tickAt[t].totalIds >= 1
    /\ tickAt[t].liquidated => Readable(tickAt[t].record)
    /\ \A id \in 1..(tickAt[t].totalIds - 1) : Written(t, id)

TicksInv == \A t \in Ticks : TickInv(t)

\* A position that owes has one of the ids of its tick.
PositionInv ==
    position.supplyOnly \/ (/\ position.tick \in Ticks
                            /\ position.tickId \in 1..tickAt[position.tick].totalIds)

RecordsInv == BranchesInv /\ TicksInv /\ PositionInv

LEMMA BranchIsThere ==
    ASSUME NEW x \in BranchType PROVE x # Missing
<1>1. 0..3 \subseteq Int /\ 0..FullPartials \subseteq Int
  BY ConstantTypes
<1>2. Minima \cup {InitTick} \subseteq Int /\ {0} \cup Branches \subseteq Int
  BY RefreshTypes, ConstantTypes DEF Branches
<1>3. x \in [status : Int, minima : Int, partials : Int, factor : DebtFactor, connected : Int]
  BY <1>1, <1>2 DEF BranchType
<1> QED BY <1>3, MissingAssumption

LEMMA FlushedIsThere ==
    ASSUME NEW x \in [0..2 -> RecordType] PROVE x # Missing
<1>1. {0} \cup Branches \subseteq Int
  BY RefreshTypes DEF Branches
<1>2. RecordType \subseteq [full : BOOLEAN, branch : Int, factor : DebtFactor]
  BY <1>1 DEF RecordType
<1>3. x \in [0..2 -> [full : BOOLEAN, branch : Int, factor : DebtFactor]]
  BY <1>2
<1> QED BY <1>3, MissingAssumption

LEMMA AccountsExist ==
    ASSUME NEW made, Joined(made) PROVE Existing = made
  BY BranchIsThere DEF Joined, Existing

\* The branches there are, typed.
LEMMA ExistingTyped ==
    ASSUME BranchesTyped
    PROVE  /\ Existing \subseteq Branches /\ current \in Existing
           /\ \A b \in Existing : branch[b] \in BranchType
           /\ DOMAIN branch = Branches
<1>1. PICK made : Joined(made)
  BY DEF BranchesTyped
<1>2. Existing = made
  BY <1>1, AccountsExist
<1> QED BY <1>1, <1>2 DEF Joined

LEMMA RecordsInit == Init => RecordsInv
<1> SUFFICES ASSUME Init PROVE RecordsInv
  OBVIOUS
<1>1. FirstId \in Nat \ {0} /\ MinTick \notin Ticks /\ Ticks \subseteq AllTicks
  BY RefreshTypes
<1>2. BranchesInv
  <2>1. \A b \in Existing : branch[b] = NewBranch(0)
    BY DEF Init, Existing
  <2> QED BY <2>1 DEF BranchesInv, JoinedToOlder, NewBranch, BranchMerged
<1>3. ASSUME NEW t \in Ticks
      PROVE  /\ tickAt[t].totalIds = FirstId /\ ~tickAt[t].liquidated
             /\ \A id \in 1..(FirstId - 1) : Written(t, id)
  <2>1. t \in AllTicks /\ t # MinTick
    BY <1>1
  <2>2. tickAt[t].totalIds = FirstId /\ ~tickAt[t].liquidated
    BY <2>1 DEF Init
  <2>3. ASSUME NEW id \in 1..(FirstId - 1) PROVE Written(t, id)
    <3> DEFINE account == <<t, VaultGroup(id)>>
               slots == [s \in 0..2 |-> [NoRecord EXCEPT !.full = TRUE]]
    <3>1. account \in LiqAccounts
      <4>1. (id + 2) \div 3 \in 0..(FirstId + MaxSteps)
        BY <1>1, RefreshTypes
      <4> QED BY <2>1, <4>1 DEF LiqAccounts, VaultGroup
    <3>2. flushed[account] = slots
      BY <2>1, <3>1 DEF Init
    <3>3. slots[VaultSlot(id)].full
      <4>1. (id - 1) % 3 \in 0..2
        BY <1>1
      <4> QED BY <4>1 DEF VaultSlot, NoRecord
    <3>4. slots # Missing
      <4>1. slots \in [0..2 -> RecordType]
        BY NoRecordType
      <4> QED BY <4>1, FlushedIsThere
    <3> HIDE DEF account, slots
    <3>5. flushed[account] # Missing /\ Readable(flushed[account][VaultSlot(id)])
      BY <3>2, <3>3, <3>4 DEF Readable
    <3> QED BY <3>5 DEF Written, account
  <2> QED BY <2>2, <2>3
<1>4. TicksInv
  BY <1>1, <1>3 DEF TicksInv, TickInv
<1>5. PositionInv
  <2>1. PICK t \in Ticks : position = [tick |-> t, tickId |-> FirstId, supplyOnly |-> FALSE]
    BY DEF Init
  <2> QED BY <1>1, <1>3, <2>1 DEF PositionInv
<1> QED BY <1>2, <1>4, <1>5 DEF RecordsInv

\* Once worked on, a branch stays so, and a record that can be read can be read
\* for ever.
StillWorked == \A b : Worked(b) => Worked(b)'

\* A new branch is numbered after all others and joined to the current one,
\* which was liquidated.
LEMMA BranchForRecords ==
    ASSUME BranchesTyped, BranchesInv, NEW t, BranchFor(t)
    PROVE  BranchesInv' /\ StillWorked
<1>1. Existing \subseteq Branches /\ current \in Existing /\ DOMAIN branch = Branches
  BY ExistingTyped
<1>2. CASE UNCHANGED <<branch, current>>
  BY <1>2 DEF BranchesInv, JoinedToOlder, StillWorked, Worked, Existing, Branches
<1>3. ASSUME branch[current].status = 1, NEW new \in Branches,
             \A b \in Branches : branch[b] = Missing <=> b >= new,
             branch' = [branch EXCEPT ![new] = NewBranch(current)]
      PROVE  BranchesInv' /\ StillWorked
  <2>1. new \notin Existing /\ current # new /\ current < new /\ current # 0
    BY <1>1, <1>3 DEF Existing, Branches
  <2>2. /\ branch'[new] = NewBranch(current)
        /\ \A b \in Branches : b # new => branch'[b] = branch[b]
    BY <1>1, <1>3
  <2>3. \A b \in Existing : b \in Existing' /\ branch'[b] = branch[b]
    BY <1>1, <2>1, <2>2 DEF Existing, Branches
  <2>4. \A b : b \in Existing' => b \in Existing \/ b = new
    BY <1>1, <2>2 DEF Existing, Branches
  <2>5. StillWorked
    BY <2>3 DEF StillWorked, Worked
  <2>6. PICK base : base = current
    OBVIOUS
  <2>7. Worked(base)'
    BY <1>1, <1>3, <2>5, <2>6 DEF StillWorked, Worked
  <2>8. ASSUME NEW b \in Existing' PROVE JoinedToOlder(b)'
    <3>1. CASE b = new
      <4>1. branch'[b].status = 0 /\ branch'[b].connected = base /\ base < b
        BY <2>1, <2>2, <2>6, <3>1 DEF NewBranch
      <4> QED BY <2>7, <4>1 DEF JoinedToOlder, BranchMerged
    <3>2. CASE b \in Existing
      <4>1. branch'[b] = branch[b] /\ JoinedToOlder(b)
        BY <2>3, <3>2 DEF BranchesInv
      <4> QED BY <2>5, <4>1 DEF JoinedToOlder, StillWorked
    <3> QED BY <2>4, <3>1, <3>2
  <2>9. BranchesInv'
    BY <2>8 DEF BranchesInv
  <2> QED BY <2>5, <2>9
<1> QED BY <1>2, <1>3 DEF BranchFor

LEMMA StillReadable ==
    ASSUME StillWorked, NEW record, Readable(record) PROVE Readable(record)'
  BY DEF StillWorked, Readable

\* What is written stays so when no flushed account changes.
LEMMA StillWritten ==
    ASSUME StillWorked, UNCHANGED flushed, NEW t, NEW id, Written(t, id) PROVE Written(t, id)'
  BY StillReadable DEF Written

\* The account that a record is flushed to, with what it holds already.
LEMMA SlotsTyped ==
    ASSUME TicksTyped, NEW t \in Ticks, NEW account, account = <<t, VaultGroup(tickAt[t].totalIds)>>
    PROVE  /\ account \in LiqAccounts
           /\ (IF flushed[account] = Missing THEN [s \in 0..2 |-> NoRecord] ELSE flushed[account])
                  \in [0..2 -> RecordType]
           /\ tickAt[t].record \in RecordType /\ tickAt[t].totalIds \in Nat
           /\ DOMAIN flushed = LiqAccounts
<1>1. tickAt[t].totalIds \in 0..(FirstId + steps) /\ steps \in 0..MaxSteps
      /\ tickAt[t].record \in RecordType /\ t \in AllTicks
  BY RefreshTypes DEF TicksTyped, TickType
<1>2. (tickAt[t].totalIds + 2) \div 3 \in 0..(FirstId + MaxSteps)
  BY <1>1, RefreshTypes
<1>3. account \in LiqAccounts
  BY <1>1, <1>2 DEF LiqAccounts, VaultGroup
<1>4. flushed[account] # Missing => flushed[account] \in [0..2 -> RecordType]
  BY <1>3 DEF TicksTyped, FlushedTyped
<1>5. [s \in 0..2 |-> NoRecord] \in [0..2 -> RecordType]
  BY NoRecordType
<1>6. tickAt[t].totalIds \in Nat
  BY <1>1, RefreshTypes
<1>7. DOMAIN flushed = LiqAccounts
  BY DEF TicksTyped, FlushedTyped
<1> QED BY <1>1, <1>3, <1>4, <1>5, <1>6, <1>7

\* No id is taken back.
MoreIds == \A t \in Ticks : tickAt'[t].totalIds >= tickAt[t].totalIds

LEMMA ReopenRecords ==
    ASSUME TicksTyped, TicksInv, StillWorked, NEW t \in Ticks, Reopen(t)
    PROVE  TicksInv' /\ MoreIds
<1> USE RefreshTypes
<1>1. ASSUME NEW s \in Ticks
      PROVE  tickAt[s].totalIds \in Nat /\ s \in AllTicks
  BY DEF TicksTyped, TickType
<1>2. tickAt = [s \in AllTicks |-> tickAt[s]]
  BY DEF TicksTyped
<1>3. CASE ~tickAt[t].liquidated
  <2>1. tickAt' = tickAt /\ flushed' = flushed
    BY <1>3 DEF Reopen
  <2>2. ASSUME NEW s \in Ticks PROVE TickInv(s)'
    <3>1. tickAt[s].liquidated => Readable(tickAt[s].record)'
      BY <2>1, StillReadable DEF TicksInv, TickInv
    <3>2. \A id \in 1..(tickAt[s].totalIds - 1) : Written(s, id)'
      BY <2>1, StillWritten DEF TicksInv, TickInv
    <3> QED BY <2>1, <3>1, <3>2 DEF TicksInv, TickInv
  <2>3. TicksInv'
    BY <2>2 DEF TicksInv
  <2> QED BY <1>1, <2>1, <2>3 DEF MoreIds
<1>4. CASE tickAt[t].liquidated
  <2> DEFINE n == tickAt[t].totalIds
             account == <<t, VaultGroup(n)>>
             slots == IF flushed[account] = Missing THEN [s \in 0..2 |-> NoRecord]
                      ELSE flushed[account]
             record == tickAt[t].record
             after == [slots EXCEPT ![VaultSlot(n)] = record]
             new == [liquidated |-> FALSE, record |-> NoRecord, totalIds |-> n + 1]
  <2>1. tickAt' = [tickAt EXCEPT ![t] = new] /\ flushed' = [flushed EXCEPT ![account] = after]
    BY <1>4 DEF Reopen
  <2>2. /\ account \in LiqAccounts /\ slots \in [0..2 -> RecordType] /\ record \in RecordType
        /\ n \in Nat /\ DOMAIN flushed = LiqAccounts
    BY SlotsTyped
  <2>3. Readable(record) /\ n >= 1
    BY <1>4 DEF TicksInv, TickInv
  <2>4. /\ tickAt'[t] = new
        /\ \A s \in Ticks : s # t => tickAt'[s] = tickAt[s]
    <3> HIDE DEF new
    <3> QED BY <1>1, <1>2, <2>1
  <2>5. /\ flushed'[account] = after
        /\ \A a : a # account => flushed'[a] = flushed[a]
    <3> HIDE DEF account, after
    <3> QED BY <2>1, <2>2
  <2>6. after # Missing
    <3>1. after \in [0..2 -> RecordType]
      <4> HIDE DEF slots, record, n
      <4> QED BY <2>2
    <3> HIDE DEF after
    <3> QED BY <3>1, FlushedIsThere
  <2>7. ASSUME NEW s \in Ticks, NEW id \in Nat, Written(s, id), <<s, VaultGroup(id)>> # account
        PROVE  Written(s, id)'
    <3> HIDE DEF account, after
    <3>1. flushed'[<<s, VaultGroup(id)>>] = flushed[<<s, VaultGroup(id)>>]
      BY <2>5, <2>7
    <3> QED BY <2>7, <3>1, StillReadable DEF Written
  <2>8. ASSUME NEW id \in 1..n PROVE Written(t, id)'
    <3>1. VaultSlot(id) \in 0..2
      BY <2>2 DEF VaultSlot
    <3>2. CASE <<t, VaultGroup(id)>> # account
      <4>1. id # n
        BY <3>2
      <4>2. Written(t, id)
        BY <2>2, <4>1 DEF TicksInv, TickInv
      <4> HIDE DEF account, n
      <4> QED BY <2>2, <2>7, <3>2, <4>2
    <3>3. CASE <<t, VaultGroup(id)>> = account
      <4>1. Readable(after[VaultSlot(id)])
        <5>1. CASE VaultSlot(id) = VaultSlot(n)
          <6>1. after[VaultSlot(id)] = record
            <7> HIDE DEF slots, record, n
            <7> QED BY <2>2, <3>1, <5>1
          <6> HIDE DEF after, record
          <6> QED BY <2>3, <6>1
        <5>2. CASE VaultSlot(id) # VaultSlot(n)
          <6>1. id # n
            BY <5>2
          <6>2. Written(t, id)
            BY <2>2, <6>1 DEF TicksInv, TickInv
          <6>3. flushed[account] # Missing /\ Readable(flushed[account][VaultSlot(id)])
            <7> HIDE DEF account
            <7> QED BY <3>3, <6>2 DEF Written
          <6>4. after[VaultSlot(id)] = flushed[account][VaultSlot(id)]
            <7> HIDE DEF account, record, n
            <7> QED BY <2>2, <3>1, <5>2, <6>3
          <6> HIDE DEF after, account
          <6> QED BY <6>3, <6>4
        <5> QED BY <5>1, <5>2
      <4> HIDE DEF after, account
      <4>2. flushed'[<<t, VaultGroup(id)>>] = after
        BY <2>5, <3>3
      <4> QED BY <2>6, <4>1, <4>2, StillReadable DEF Written
    <3> QED BY <3>2, <3>3
  <2>9. ASSUME NEW s \in Ticks
        PROVE  TickInv(s)' /\ tickAt'[s].totalIds >= tickAt[s].totalIds
    <3>1. CASE s = t
      <4>1. tickAt'[s].totalIds = n + 1 /\ ~tickAt'[s].liquidated
        BY <2>4, <3>1
      <4>2. \A id \in 1..n : Written(s, id)'
        BY <2>8, <3>1
      <4> HIDE DEF n
      <4>3. 1..(tickAt'[s].totalIds - 1) = 1..n /\ tickAt'[s].totalIds >= 1
        BY <2>2, <4>1
      <4>4. tickAt'[s].totalIds >= tickAt[s].totalIds
        BY <2>2, <3>1, <4>1 DEF n
      <4> QED BY <4>1, <4>2, <4>3, <4>4 DEF TickInv
    <3>2. CASE s # t
      <4>1. tickAt'[s] = tickAt[s] /\ TickInv(s)
        BY <2>4, <3>2 DEF TicksInv
      <4>2. PICK x : x = tickAt[s]
        OBVIOUS
      <4>3. x.liquidated => Readable(x.record)'
        BY <4>1, <4>2, StillReadable DEF TickInv
      <4>4. ASSUME NEW id \in 1..(x.totalIds - 1) PROVE Written(s, id)'
        <5>1. Written(s, id) /\ id \in Nat
          BY <1>1, <4>1, <4>2 DEF TickInv
        <5>2. <<s, VaultGroup(id)>> # account
          BY <3>2
        <5> HIDE DEF account
        <5> QED BY <2>7, <5>1, <5>2
      <4>5. tickAt'[s] = x /\ x.totalIds \in Nat /\ x.totalIds >= 1
        BY <1>1, <4>1, <4>2 DEF TickInv
      <4> QED BY <4>2, <4>3, <4>4, <4>5 DEF TickInv, Readable, Worked
    <3> QED BY <3>1, <3>2
  <2>10. TicksInv' /\ MoreIds
    BY <2>9 DEF TicksInv, MoreIds
  <2> QED BY <2>10
<1> QED BY <1>3, <1>4

\* A liquidation leaves the same record in every tick that it takes.
LEMMA TakenRecords ==
    ASSUME TicksTyped, TicksInv, StillWorked, UNCHANGED flushed, NEW ticks, NEW record,
           Readable(record)', Taken(ticks, record)
    PROVE  TicksInv' /\ MoreIds
<1>1. ASSUME NEW t \in Ticks
      PROVE  TickInv(t)' /\ tickAt'[t].totalIds >= tickAt[t].totalIds
  <2>1. t \in AllTicks /\ tickAt[t] \in TickType
    BY RefreshTypes DEF TicksTyped
  <2>2. PICK x : x = tickAt[t]
    OBVIOUS
  <2>3. x.totalIds \in Nat /\ x.totalIds >= 1 /\ DOMAIN x = {"liquidated", "record", "totalIds"}
    BY <2>1, <2>2, RefreshTypes DEF TickType, TicksTyped, TicksInv, TickInv
  <2>4. ASSUME NEW id \in 1..(x.totalIds - 1) PROVE Written(t, id)'
    BY <2>2, StillWritten DEF TicksInv, TickInv
  <2>5. tickAt'[t] = IF t \in ticks THEN [x EXCEPT !.liquidated = TRUE, !.record = record] ELSE x
    BY <2>1, <2>2 DEF Taken
  <2>6. CASE t \in ticks
    <3>1. tickAt'[t].totalIds = x.totalIds /\ tickAt'[t].record = record
      BY <2>3, <2>5, <2>6
    <3> QED BY <2>2, <2>3, <2>4, <3>1 DEF TickInv, Readable, Worked
  <2>7. CASE t \notin ticks
    <3>1. tickAt'[t] = x
      BY <2>5, <2>7
    <3>2. x.liquidated => Readable(x.record)'
      BY <2>2, StillReadable DEF TicksInv, TickInv
    <3> QED BY <2>2, <2>3, <2>4, <3>1, <3>2 DEF TickInv, Readable, Worked
  <2> QED BY <2>6, <2>7
<1> QED BY <1>1 DEF TicksInv, MoreIds

LEMMA PositionKept ==
    ASSUME TicksTyped, TicksTyped', PositionTyped, PositionInv, MoreIds, UNCHANGED position
    PROVE  PositionInv'
<1> SUFFICES ASSUME ~position.supplyOnly PROVE PositionInv'
  BY DEF PositionInv
<1>1. position.tick \in Ticks /\ position.tickId \in 1..tickAt[position.tick].totalIds
  BY DEF PositionInv
<1>2. PICK t \in Ticks : t = position.tick
  BY <1>1
<1>3. tickAt[t].totalIds \in Nat /\ tickAt'[t].totalIds \in Nat
      /\ tickAt'[t].totalIds >= tickAt[t].totalIds
  <2>1. t \in AllTicks
    BY RefreshTypes
  <2>2. tickAt[t].totalIds \in Nat
    BY <2>1, RefreshTypes DEF TicksTyped, TickType
  <2>3. tickAt'[t].totalIds \in Nat
    BY <2>1, RefreshTypes DEF TicksTyped, TickType, AllTicks
  <2> QED BY <2>2, <2>3 DEF MoreIds
<1>4. position.tickId \in 1..tickAt'[t].totalIds
  BY <1>1, <1>2, <1>3
<1> QED BY <1>2, <1>4 DEF PositionInv

\* A liquidation rewrites the current branch, and leaves it where it is joined.
LEMMA CurrentRecords ==
    ASSUME BranchesTyped, BranchesInv, NEW x \in BranchType,
           x.connected = branch[current].connected, x.status # 0, x.minima \in Minima,
           x.status = BranchMerged => x.connected # 0,
           branch' = [branch EXCEPT ![current] = x]
    PROVE  BranchesInv' /\ StillWorked /\ \A c : c = current => Worked(c)'
<1>1. current \in Existing /\ DOMAIN branch = Branches /\ Existing \subseteq Branches
  BY ExistingTyped
<1>2. PICK c : c = current
  OBVIOUS
<1>3. x # Missing
  BY BranchIsThere
<1>4. branch'[c] = x /\ \A b : b # c => branch'[b] = branch[b]
  BY <1>1, <1>2
<1>5. \A b : b \in Existing' <=> b \in Existing
  BY <1>1, <1>2, <1>3, <1>4 DEF Existing, Branches
<1>6. Worked(c)'
  BY <1>1, <1>2, <1>4, <1>5 DEF Worked
<1>7. StillWorked
  BY <1>4, <1>5, <1>6 DEF StillWorked, Worked
<1>8. ASSUME NEW b \in Existing' PROVE JoinedToOlder(b)'
  <2>1. JoinedToOlder(b)
    BY <1>5 DEF BranchesInv
  <2>2. CASE b = c
    BY <1>2, <1>4, <1>7, <2>1, <2>2 DEF JoinedToOlder, StillWorked
  <2>3. CASE b # c
    BY <1>4, <1>7, <2>1, <2>3 DEF JoinedToOlder, StillWorked
  <2> QED BY <2>2, <2>3
<1>9. BranchesInv'
  BY <1>8 DEF BranchesInv
<1> QED BY <1>2, <1>6, <1>7, <1>9

LEMMA OperateRecords ==
    ASSUME TypeInv, TypeInv', RecordsInv, NEW t \in Ticks, Operate(t) \/ OthersOperate(t)
    PROVE  RecordsInv'
<1>1. Reopen(t) /\ BranchFor(t)
  BY DEF Operate, OthersOperate
<1>2. BranchesInv' /\ StillWorked
  BY <1>1, BranchForRecords DEF TypeInv, RecordsInv
<1>3. TicksInv' /\ MoreIds
  BY <1>1, <1>2, ReopenRecords DEF TypeInv, RecordsInv
<1>4. PositionInv'
  <2>1. CASE OthersOperate(t)
    BY <1>3, <2>1, PositionKept DEF OthersOperate, TypeInv, RecordsInv
  <2>2. CASE Operate(t)
    <3>1. position' = [tick |-> t, tickId |-> tickAt'[t].totalIds, supplyOnly |-> FALSE]
      BY <2>2 DEF Operate
    <3>2. tickAt'[t].totalIds \in Nat
      <4>1. t \in AllTicks
        BY RefreshTypes
      <4> QED BY <4>1, RefreshTypes DEF TypeInv, TicksTyped, TickType, AllTicks
    <3>3. tickAt'[t].totalIds >= 1
      BY <1>3 DEF TicksInv, TickInv
    <3> QED BY <3>1, <3>2, <3>3 DEF PositionInv
  <2> QED BY <2>1, <2>2
<1> QED BY <1>2, <1>3, <1>4 DEF RecordsInv

LEMMA LiquidateRecords ==
    ASSUME TypeInv, TypeInv', RecordsInv, NEW fraction \in Fractions, NEW minima \in Minima,
           NEW partials \in Partials, Liquidate(fraction, minima, partials)
    PROVE  RecordsInv'
<1> DEFINE b == branch[current]
           base == b.connected
           joins == {t \in Ticks : t > minima /\ ~tickAt[t].liquidated}
           factor == Scale(b.factor, fraction)
           merges == base # 0 /\ minima = branch[base].minima
           merged == IF merges THEN Divide(branch[base].factor, factor) ELSE factor
           x == IF merges
                THEN [b EXCEPT !.status = BranchMerged, !.minima = minima, !.factor = merged]
                ELSE [b EXCEPT !.status = 1, !.minima = minima, !.partials = partials,
                               !.factor = factor]
           record == [full |-> FALSE, branch |-> current, factor |-> b.factor]
<1>1. b \in BranchType /\ partials \in 0..FullPartials
  BY ExistingTyped, RefreshTypes DEF TypeInv
<1>2. factor \in DebtFactor /\ merged \in DebtFactor /\ Taken(joins, record)
      /\ UNCHANGED <<position, flushed>>
  BY DEF Liquidate
<1>3. branch' = [branch EXCEPT ![current] = x]
  <2>1. branch' = [branch EXCEPT ![current] =
          IF merges
          THEN [@ EXCEPT !.status = BranchMerged, !.minima = minima, !.factor = merged]
          ELSE [@ EXCEPT !.status = 1, !.minima = minima, !.partials = partials,
                         !.factor = factor]]
    BY DEF Liquidate
  <2> HIDE DEF merges, merged, factor
  <2> QED BY <2>1
<1>4. /\ x \in BranchType /\ x.connected = base /\ x.status # 0 /\ x.minima \in Minima
      /\ x.status = BranchMerged => x.connected # 0
  <2>1. merges => base # 0
    OBVIOUS
  <2> HIDE DEF b, factor, merged, merges
  <2>2. minima \in Minima \cup {InitTick} /\ BranchMerged \in 0..3 /\ 1 \in 0..3 /\ 1 # BranchMerged
        /\ BranchMerged # 0
    BY DEF BranchMerged
  <2> DEFINE joined == [b EXCEPT !.status = BranchMerged, !.minima = minima, !.factor = merged]
             gone == [b EXCEPT !.status = 1, !.minima = minima, !.partials = partials,
                               !.factor = factor]
  <2>3. joined \in BranchType /\ joined.connected = base /\ joined.status = BranchMerged
        /\ joined.minima = minima
    BY <1>1, <1>2, <2>2 DEF BranchType
  <2>4. gone \in BranchType /\ gone.connected = base /\ gone.status = 1 /\ gone.minima = minima
    BY <1>1, <1>2, <2>2 DEF BranchType
  <2>5. x = IF merges THEN joined ELSE gone
    OBVIOUS
  <2> HIDE DEF x, joined, gone
  <2> QED BY <2>1, <2>2, <2>3, <2>4, <2>5
<1> HIDE DEF x
<1>5. BranchesInv' /\ StillWorked /\ \A c : c = current => Worked(c)'
  BY <1>3, <1>4, CurrentRecords DEF TypeInv, RecordsInv
<1>6. PICK r : r = record
  OBVIOUS
<1>7. Readable(r)'
  BY <1>5, <1>6 DEF Readable
<1>8. TicksInv' /\ MoreIds
  <2> HIDE DEF joins, record
  <2> QED BY <1>2, <1>5, <1>6, <1>7, TakenRecords DEF TypeInv, RecordsInv
<1>9. PositionInv'
  BY <1>2, <1>8, PositionKept DEF TypeInv, RecordsInv
<1> QED BY <1>5, <1>8, <1>9 DEF RecordsInv

LEMMA AbsorbRecords ==
    ASSUME TypeInv, TypeInv', RecordsInv, Absorb PROVE RecordsInv'
<1> DEFINE joins == {t \in Ticks : ~tickAt[t].liquidated}
           b == branch[current]
           record == [NoRecord EXCEPT !.full = TRUE]
           x == [b EXCEPT !.status = BranchClosed]
<1>1. /\ b.status = 1 /\ Taken(joins, record)
      /\ branch' = [branch EXCEPT ![current] = x]
      /\ UNCHANGED <<position, flushed>>
  BY DEF Absorb
<1>2. b \in BranchType /\ b.minima \in Minima
  BY <1>1, ExistingTyped DEF TypeInv, RecordsInv, BranchesInv, JoinedToOlder
<1>3. /\ x \in BranchType /\ x.connected = b.connected /\ x.status # 0 /\ x.minima \in Minima
      /\ x.status # BranchMerged
  <2> HIDE DEF b
  <2> QED BY <1>2 DEF BranchType, BranchClosed, BranchMerged
<1> HIDE DEF x
<1>4. BranchesInv' /\ StillWorked
  BY <1>1, <1>3, CurrentRecords DEF TypeInv, RecordsInv
<1>5. Readable(record)'
  BY DEF Readable, NoRecord
<1>6. TicksInv' /\ MoreIds
  <2> HIDE DEF joins, record
  <2> QED BY <1>1, <1>4, <1>5, TakenRecords DEF TypeInv, RecordsInv, record
<1>7. PositionInv'
  BY <1>1, <1>6, PositionKept DEF TypeInv, RecordsInv
<1> QED BY <1>4, <1>6, <1>7 DEF RecordsInv

\* Nothing but a vault operation touches what a record says.
LEMMA RecordsRest ==
    ASSUME RecordsInv, UNCHANGED vault PROVE RecordsInv'
  BY DEF vault, RecordsInv, BranchesInv, JoinedToOlder, TicksInv, TickInv, PositionInv, Written,
         Readable, Worked, Existing

LEMMA RecordsInductive == TypeInv /\ RecordsInv /\ [Next]_vars => RecordsInv'
<1> SUFFICES ASSUME TypeInv, RecordsInv, [Next]_vars PROVE RecordsInv'
  OBVIOUS
<1>1. TypeInv'
  BY TypesInductive
<1>2. ASSUME NEW t \in Ticks, Operate(t) \/ OthersOperate(t) PROVE RecordsInv'
  BY <1>1, <1>2, OperateRecords
<1>3. CASE Repay
  <2>1. UNCHANGED <<tickAt, flushed, branch>> /\ position'.supplyOnly
    BY <1>3 DEF Repay
  <2>2. BranchesInv' /\ TicksInv'
    BY <2>1 DEF RecordsInv, BranchesInv, JoinedToOlder, TicksInv, TickInv, Written, Readable,
                Worked, Existing
  <2> QED BY <2>1, <2>2 DEF RecordsInv, PositionInv
<1>4. ASSUME NEW f \in Fractions, NEW t \in Minima, NEW p \in Partials, Liquidate(f, t, p)
      PROVE  RecordsInv'
  BY <1>1, <1>4, LiquidateRecords
<1>5. CASE Absorb
  BY <1>1, <1>5, AbsorbRecords
<1>6. CASE UNCHANGED vault
  BY <1>6, RecordsRest
<1>7. CASE Reads \/ Submit \/ UNCHANGED vars
  <2>1. UNCHANGED vault
    BY <1>7 DEF Reads, Submit, vars, ReadPosition, ReadTick, ReadLiq, ReadBranch, ClientTurns
  <2> QED BY <1>6, <2>1
<1> QED BY <1>2, <1>3, <1>4, <1>5, <1>7 DEF Next, Vault
-----------------------------------------------------------------------------
(* The walk comes to an end *)

\* A set of branches that a walk from start does not leave, in which each
\* merged branch is joined to an older one.
Chain(ids, start, branches) ==
    /\ ids \subseteq DOMAIN branches /\ ids \subseteq Nat /\ IsFiniteSet(ids)
    /\ start \in ids
    /\ \A b \in ids : /\ branches[b].factor \in LooseFactor
                      /\ branches[b].status = BranchMerged =>
                             branches[b].connected \in ids /\ branches[b].connected < b

MergedOf(ids, branches) == {b \in ids : branches[b].status = BranchMerged}

\* The merged branches from b on.
MergedBelow(b, ids, branches) == {m \in MergedOf(ids, branches) : m <= b}

\* No product of the walk falls below the range of a debt factor.
HopsFit(start, factor, branches) ==
    \A h \in 0..MaxBranchHops :
        LET w == BranchTurns(start, factor, branches)[h]
        IN  (w # Failed /\ ~w.stop /\ branches[w.id].status = BranchMerged) =>
                MulDebtFactors(w.factor, branches[w.id].factor) # Failed

WalkState(ids) == [id : ids, factor : LooseFactor, stop : BOOLEAN]

LEMMA WalkStateIsNoError ==
    ASSUME NEW ids, ids \subseteq Nat, NEW w \in WalkState(ids) PROVE w # Failed
<1>1. LooseFactor \subseteq [c : Int, e : Int]
  BY DEF LooseFactor
<1>2. w.id \in ids /\ w.factor \in LooseFactor /\ w.stop \in BOOLEAN
  BY DEF WalkState
<1>3. w = [id |-> w.id, factor |-> w.factor, stop |-> w.stop]
  BY DEF WalkState
<1>4. w.id \in Int
  <2>1. ids \subseteq Int
    OBVIOUS
  <2> QED BY <1>2, <2>1, Zenon
<1>5. w.factor \in [c : Int, e : Int]
  BY <1>1, <1>2, Zenon
<1>6. w \in [id : Int, factor : [c : Int, e : Int], stop : BOOLEAN]
  BY <1>2, <1>3, <1>4, <1>5
<1> QED BY <1>6, FailedAssumption

\* A hop leaves one merged branch behind.
LEMMA HopOn ==
    ASSUME NEW ids, NEW start, NEW branches, Chain(ids, start, branches),
           NEW w \in WalkState(ids),
           (~w.stop /\ branches[w.id].status = BranchMerged) =>
               MulDebtFactors(w.factor, branches[w.id].factor) # Failed
    PROVE  LET next == Hop(w, branches)
           IN  /\ next \in WalkState(ids)
               /\ (w.stop \/ branches[w.id].status # BranchMerged) => next.stop
               /\ ~next.stop => /\ branches[w.id].status = BranchMerged
                                /\ next.id < w.id
<1> DEFINE b == branches[w.id]
           factor == MulDebtFactors(w.factor, b.factor)
<1>1. w.id \in ids /\ w.id \in DOMAIN branches /\ w.factor \in LooseFactor /\ b.factor \in LooseFactor
  BY DEF WalkState, Chain
<1>2. CASE w.stop
  BY <1>2 DEF Hop, WalkState
<1>3. CASE ~w.stop /\ b.status # BranchMerged
  <2>1. Hop(w, branches) = [w EXCEPT !.stop = TRUE]
    BY <1>3 DEF Hop
  <2> QED BY <1>3, <2>1 DEF WalkState
<1>4. CASE ~w.stop /\ b.status = BranchMerged
  <2>1. factor # Failed /\ factor \in LooseFactor
    BY <1>1, <1>4, ProductType
  <2>2. b.connected \in ids /\ b.connected < w.id /\ b.connected \in DOMAIN branches
    BY <1>1, <1>4 DEF Chain
  <2>3. Hop(w, branches) = IF factor = MaxDebtFactor
                           THEN [w EXCEPT !.factor = factor, !.stop = TRUE]
                           ELSE [id |-> b.connected, factor |-> factor, stop |-> FALSE]
    BY <1>4, <2>1, <2>2 DEF Hop
  <2> HIDE DEF factor, b
  <2>4. [w EXCEPT !.factor = factor, !.stop = TRUE] \in WalkState(ids)
        /\ [w EXCEPT !.factor = factor, !.stop = TRUE].stop
    BY <2>1 DEF WalkState
  <2>5. [id |-> b.connected, factor |-> factor, stop |-> FALSE] \in WalkState(ids)
    BY <2>1, <2>2 DEF WalkState
  <2> QED BY <1>4, <2>2, <2>3, <2>4, <2>5 DEF b
<1> QED BY <1>2, <1>3, <1>4

\* Ids fall along the chain, so a walk meets every merged branch once at most:
\* it ends within MaxBranchHops hops when there are no more of them.
LEMMA WalkEnds ==
    ASSUME NEW ids, NEW start, NEW factor \in LooseFactor, NEW branches,
           Chain(ids, start, branches), HopsFit(start, factor, branches),
           Cardinality(MergedOf(ids, branches)) <= MaxBranchHops
    PROVE  EndOfWalk(start, factor, branches) \in WalkState(ids)
<1> DEFINE f == BranchTurns(start, factor, branches)
           below(b) == MergedBelow(b, ids, branches)
           few(h) == ~f[h].stop => Cardinality(below(f[h].id)) + h <= MaxBranchHops
           Good == {h \in Nat : h \in 0..LastTurn => f[h] \in WalkState(ids) /\ few(h)}
<1>1. Turns(f, start, factor, branches)
  BY BranchTurnsAre
<1>2. MaxBranchHops \in Nat /\ ids \subseteq Nat /\ start \in ids
  BY HopsNat DEF Chain
<1>3. ASSUME NEW b \in ids
      PROVE  /\ IsFiniteSet(below(b)) /\ Cardinality(below(b)) \in Nat
             /\ Cardinality(below(b)) <= Cardinality(MergedOf(ids, branches))
  <2>1. IsFiniteSet(MergedOf(ids, branches))
    BY FS_Subset DEF Chain, MergedOf
  <2>2. below(b) \subseteq MergedOf(ids, branches)
    BY DEF MergedBelow
  <2> QED BY <2>1, <2>2, FS_Subset, FS_CardinalityType
<1>4. ASSUME NEW b \in ids, NEW c \in ids, c < b, branches[b].status = BranchMerged
      PROVE  Cardinality(below(c)) + 1 <= Cardinality(below(b))
  <2>1. \A m, x : m \in below(x) <=> m \in ids /\ branches[m].status = BranchMerged /\ m <= x
    BY DEF MergedBelow, MergedOf
  <2>2. b \in below(b) /\ below(c) \subseteq below(b) \ {b}
    <3> HIDE DEF below
    <3>1. \A m \in ids : m <= c => m <= b /\ m # b
      BY <1>2, <1>4
    <3>2. b <= b
      BY <1>2
    <3> QED BY <1>4, <2>1, <3>1, <3>2
  <2>3. IsFiniteSet(below(b) \ {b}) /\ Cardinality(below(b) \ {b}) = Cardinality(below(b)) - 1
    BY <1>3, <2>2, FS_RemoveElement
  <2>4. Cardinality(below(c)) <= Cardinality(below(b) \ {b})
    BY <2>2, <2>3, FS_Subset
  <2> HIDE DEF below
  <2> QED BY <1>3, <2>3, <2>4
<1> HIDE DEF f, below
<1>5. 0 \in Good
  <2>1. f[0] = [id |-> start, factor |-> factor, stop |-> FALSE]
    <3>1. 0 \in 0..LastTurn
      BY LastTurnNat
    <3> QED BY <1>1, <3>1 DEF Turns, Turn
  <2>2. f[0] \in WalkState(ids)
    BY <1>2, <2>1 DEF WalkState
  <2>3. Cardinality(below(start)) + 0 <= MaxBranchHops
    <3>1. Cardinality(below(start)) <= Cardinality(MergedOf(ids, branches))
          /\ Cardinality(below(start)) \in Nat
      BY <1>2, <1>3
    <3>2. Cardinality(MergedOf(ids, branches)) \in Nat
      <4>1. IsFiniteSet(MergedOf(ids, branches))
        BY FS_Subset DEF Chain, MergedOf
      <4> QED BY <4>1, FS_CardinalityType
    <3> QED BY <1>2, <3>1, <3>2
  <2> QED BY <2>1, <2>2, <2>3
<1>6. ASSUME NEW n \in Nat, n \in Good PROVE n + 1 \in Good
  <2> SUFFICES ASSUME n + 1 \in 0..LastTurn PROVE f[n + 1] \in WalkState(ids) /\ few(n + 1)
    OBVIOUS
  <2>1. n \in 0..LastTurn /\ n \in 0..MaxBranchHops /\ n + 1 # 0 /\ (n + 1) - 1 = n
    BY <1>2 DEF LastTurn
  <2>2. f[n] \in WalkState(ids) /\ few(n)
    BY <1>6, <2>1
  <2>3. f[n] # Failed
    BY <1>2, <2>2, WalkStateIsNoError
  <2>4. f[n + 1] = Hop(f[n], branches)
    BY <1>1, <2>1, <2>3 DEF Turns, Turn
  <2>5. (~f[n].stop /\ branches[f[n].id].status = BranchMerged) =>
            MulDebtFactors(f[n].factor, branches[f[n].id].factor) # Failed
    BY <2>1, <2>3 DEF HopsFit, f
  <2>6. /\ f[n + 1] \in WalkState(ids)
        /\ f[n].stop => f[n + 1].stop
        /\ ~f[n + 1].stop => branches[f[n].id].status = BranchMerged /\ f[n + 1].id < f[n].id
    BY <2>2, <2>4, <2>5, HopOn
  <2>7. ASSUME ~f[n + 1].stop
        PROVE  Cardinality(below(f[n + 1].id)) + (n + 1) <= MaxBranchHops
    <3>1. f[n].id \in ids /\ f[n + 1].id \in ids
      BY <2>2, <2>6 DEF WalkState
    <3>2. Cardinality(below(f[n + 1].id)) + 1 <= Cardinality(below(f[n].id))
      BY <1>4, <2>6, <2>7, <3>1
    <3>3. Cardinality(below(f[n].id)) + n <= MaxBranchHops
      BY <2>2, <2>6, <2>7
    <3>4. Cardinality(below(f[n].id)) \in Nat /\ Cardinality(below(f[n + 1].id)) \in Nat
      BY <1>3, <3>1
    <3> QED BY <1>2, <3>2, <3>3, <3>4
  <2> QED BY <2>6, <2>7
<1>7. \A h \in 0..LastTurn : f[h] \in WalkState(ids) /\ few(h)
  <2>1. Nat \subseteq Good
    <3> HIDE DEF Good
    <3> QED BY <1>5, <1>6, Induction
  <2> QED BY <2>1, LastTurnNat
<1>8. f[LastTurn].stop
  <2> SUFFICES ASSUME ~f[LastTurn].stop PROVE FALSE
    OBVIOUS
  <2>1. LastTurn \in 0..LastTurn
    BY LastTurnNat
  <2>2. f[LastTurn].id \in ids
    BY <1>7, <2>1 DEF WalkState
  <2>3. Cardinality(below(f[LastTurn].id)) + LastTurn <= MaxBranchHops
    BY <1>7, <2>1
  <2>4. Cardinality(below(f[LastTurn].id)) \in Nat
    BY <1>3, <2>2
  <2> QED BY <1>2, <2>3, <2>4 DEF LastTurn
<1>9. f[LastTurn] \in WalkState(ids) /\ f[LastTurn] # Failed /\ start \in DOMAIN branches
  BY <1>2, <1>7, LastTurnNat, WalkStateIsNoError DEF Chain
<1> QED BY <1>8, <1>9, WalkTurns DEF f
-----------------------------------------------------------------------------
(* The program fails only where a number does not fit *)

\* The position's debt is on a branch.
OnBranches == Liquidated /\ ~Record.full

\* The chain of branches from the position's record is within the hops that
\* the program makes.
ChainIsShort ==
    OnBranches =>
        \E ids \in SUBSET Existing :
            /\ Collected(ids)
            /\ Cardinality(MergedOf(ids, branch)) <= MaxBranchHops

\* The numbers of the branch at the end of the walk, and of the collateral
\* down to its lowest tick.
EndFits ==
    LET w == EndOfWalk(Record.branch, Record.factor, Passed(Branches))
        b == branch[w.id]
        scaled == MulDivDebtFactors(EnlargedDebt, b.factor, w.factor)
        debt == KeptDebt(scaled, EnlargedDebt)
    IN  (w # Failed /\ b.status # BranchClosed /\ w.factor # MaxDebtFactor) =>
            /\ scaled # Failed
            /\ (debt # 0 /\ RatioAtTick(b.minima) # Failed) => CollateralAtMinima(b, debt) # Failed

\* No number that the program works out on its way leaves its width.
NumbersFit ==
    /\ position.supplyOnly \/ StoredDebt # Failed
    /\ OnBranches => /\ EnlargedDebt # Failed
                     /\ HopsFit(Record.branch, Record.factor, Passed(Branches))
                     /\ EndFits

LEMMA SnapshotIsNoError ==
    ASSUME NEW live, live.tick \in Int, live.col \in Int, live.debt \in Int, live.branch \in Int,
           NEW dust \in Int, NEW stored \in Int, NEW liquidated \in BOOLEAN, NEW full \in BOOLEAN
    PROVE  Snapshot(live, stored, dust, liquidated, full) # Failed
<1> DEFINE net == IF live.debt > dust THEN live.debt - dust ELSE 0
           all == full \/ (liquidated /\ live.col = 0 /\ live.debt = 0)
           s == [tick |-> live.tick, col |-> live.col, debt |-> live.debt, branch |-> live.branch,
                 dust |-> dust, net |-> net, stored |-> stored, liquidated |-> liquidated,
                 full |-> all]
<1>1. net \in Int /\ all \in BOOLEAN
  OBVIOUS
<1>2. Snapshot(live, stored, dust, liquidated, full) = s
  BY DEF Snapshot
<1> HIDE DEF net, all
<1>3. s # Failed
  BY <1>1, MissingAssumption
<1> QED BY <1>2, <1>3

LEMMA LiveIsNoError ==
    ASSUME NEW tick \in Int, NEW col \in Int, NEW debt \in Int, NEW id \in Int
    PROVE  [tick |-> tick, col |-> col, debt |-> debt, branch |-> id] # Failed
  BY FailedAssumption

\* The record that the program needs was written, and it can be read.
LEMMA RecordThere ==
    ASSUME TypeInv, RecordsInv, Liquidated
    PROVE  /\ ~RecordLost /\ Readable(Record)
           /\ NormalizeTick(position.tick) = position.tick /\ position.tick \in Ticks
           /\ Account # Missing
<1> DEFINE t == position.tick
           id == position.tickId
<1>1. t \in Ticks /\ id \in 1..tickAt[t].totalIds /\ tickAt[t].totalIds \in Nat
  <2>1. t \in Ticks /\ id \in 1..tickAt[t].totalIds
    BY DEF Liquidated, RecordsInv, PositionInv
  <2>2. t \in AllTicks
    BY <2>1, RefreshTypes
  <2> HIDE DEF t, id
  <2>3. tickAt[t] \in TickType
    BY <2>2 DEF TypeInv, TicksTyped
  <2>4. tickAt[t].totalIds \in Nat
    BY <2>3, RefreshTypes DEF TickType, TypeInv, TicksTyped
  <2> QED BY <2>1, <2>4
<1>2. NormalizeTick(t) = t
  BY <1>1, RefreshTypes DEF NormalizeTick
<1>3. PositionTick = tickAt[t] /\ TickInv(t)
  BY <1>1, <1>2 DEF PositionTick, RecordsInv, TicksInv
<1>4. ASSUME tickAt[t].totalIds = id PROVE ~RecordLost /\ Readable(Record)
  <2>1. tickAt[t].liquidated
    BY <1>1, <1>3, <1>4 DEF Liquidated, IsLiquidated
  <2>2. Record = tickAt[t].record
    BY <1>3, <1>4 DEF Record, LiquidationRecord
  <2> QED BY <1>3, <1>4, <2>1, <2>2 DEF TickInv, RecordLost
<1>5. ASSUME tickAt[t].totalIds # id PROVE ~RecordLost /\ Readable(Record)
  <2>1. id \in 1..(tickAt[t].totalIds - 1) /\ id \in Nat
    BY <1>1, <1>5
  <2>2. Written(t, id)
    BY <1>3, <2>1 DEF TickInv
  <2>3. Account = <<t, VaultGroup(id)>>
    BY <1>2 DEF Account, LiqOf, GroupOf, VaultGroup
  <2>4. Record = flushed[Account][SlotOf(id)]
    BY <1>3, <1>5 DEF Record, LiquidationRecord
  <2>5. SlotOf(id) = VaultSlot(id)
    <3>1. id + 2 = (id - 1) + 3
      BY <2>1
    <3>2. ((id - 1) + 3) % 3 = (id - 1) % 3
      BY <2>1
    <3> HIDE DEF id
    <3> QED BY <3>1, <3>2 DEF SlotOf, VaultSlot
  <2> HIDE DEF t, id
  <2> QED BY <2>2, <2>3, <2>4, <2>5 DEF Written, RecordLost
<1>6. Account # Missing
  <2>1. t \in Int
    BY <1>1, RefreshTypes
  <2>2. (id + 2) \div 3 \in Int
    BY <1>1
  <2>3. Account \in Int \X Int
    BY <1>2, <2>1, <2>2 DEF Account, LiqOf, GroupOf
  <2> QED BY <2>3, MissingAssumption
<1> QED BY <1>1, <1>2, <1>4, <1>5, <1>6

\* A walk through branches that were all liquidated, and joined to older ones.
LEMMA WalkSucceeds ==
    ASSUME TypeInv, RecordsInv, Liquidated, ~Record.full, ChainIsShort, NumbersFit
    PROVE  /\ Live(Branches) # Failed
           /\ Live(Branches).tick \in Int /\ Live(Branches).col \in Int
           /\ Live(Branches).debt \in Int /\ Live(Branches).branch \in Int
<1> DEFINE all == Passed(Branches)
           w == EndOfWalk(Record.branch, Record.factor, all)
           b == all[w.id]
           scaled == MulDivDebtFactors(EnlargedDebt, b.factor, w.factor)
           debt == KeptDebt(scaled, EnlargedDebt)
           col == CollateralAtMinima(b, debt)
<1>1. /\ Existing \subseteq Branches /\ Branches \subseteq Nat /\ IsFiniteSet(Branches)
      /\ \A i \in Existing : branch[i] \in BranchType
  BY ExistingTyped, RefreshTypes, FS_Interval DEF TypeInv, Branches
<1>2. DOMAIN all = Existing /\ \A i \in Existing : all[i] = branch[i]
  BY DEF Passed, Existing
<1>3. Worked(Record.branch) /\ Record.factor \in LooseFactor
  BY RecordThere, RecordTyped DEF Readable
<1>4. EnlargedDebt # Failed /\ EnlargedDebt \in Nat
  <2>1. position.tick \in Int /\ Collateral \in Nat /\ EnlargedDebt # Failed
    BY PositionTickInt, RefreshTypes, ConstantTypes DEF TypeInv, NumbersFit, OnBranches
  <2> QED BY <2>1, DebtType, ConstantTypes DEF EnlargedDebt, LiquidationDebtRawAtTick
<1>5. PICK some \in SUBSET Existing :
          Collected(some) /\ Cardinality(MergedOf(some, branch)) <= MaxBranchHops
  BY DEF ChainIsShort, OnBranches
<1> DEFINE ids == {i \in some : Worked(i)}
<1> HIDE DEF all
<1>6. Cardinality(MergedOf(ids, all)) <= MaxBranchHops
  <2>1. MergedOf(ids, all) \subseteq MergedOf(some, branch)
    BY <1>2 DEF MergedOf
  <2>2. IsFiniteSet(MergedOf(some, branch))
    BY <1>1, FS_Subset DEF MergedOf
  <2>3. Cardinality(MergedOf(ids, all)) <= Cardinality(MergedOf(some, branch))
        /\ Cardinality(MergedOf(ids, all)) \in Nat
        /\ Cardinality(MergedOf(some, branch)) \in Nat
    BY <2>1, <2>2, FS_Subset, FS_CardinalityType
  <2> QED BY <1>5, <2>3, HopsNat
<1>7. Chain(ids, Record.branch, all)
  <2>1. IsFiniteSet(ids) /\ ids \subseteq Nat /\ ids \subseteq DOMAIN all
    <3>1. ids \subseteq Branches
      BY <1>1
    <3>2. IsFiniteSet(ids)
      BY <1>1, <3>1, FS_Subset
    <3>3. ids \subseteq Nat /\ ids \subseteq Existing
      BY <1>1, <3>1
    <3> HIDE DEF ids
    <3> QED BY <1>2, <3>2, <3>3
  <2>2. Record.branch \in ids
    BY <1>3, <1>5 DEF Worked, Collected
  <2>3. ASSUME NEW i \in ids
        PROVE  /\ all[i].factor \in LooseFactor
               /\ all[i].status = BranchMerged => all[i].connected \in ids /\ all[i].connected < i
    <3>1. all[i] = branch[i] /\ branch[i] \in BranchType /\ JoinedToOlder(i)
      BY <1>1, <1>2 DEF RecordsInv, BranchesInv
    <3>2. all[i].factor \in LooseFactor
      BY <3>1, LooseFactors DEF BranchType
    <3>3. ASSUME branch[i].status = BranchMerged
          PROVE  branch[i].connected \in ids /\ branch[i].connected < i
      <4>1. Worked(branch[i].connected) /\ branch[i].connected < i
        BY <3>1, <3>3 DEF JoinedToOlder
      <4>2. branch[i].connected \in some
        BY <1>5, <3>3, <4>1 DEF Collected, Worked
      <4> QED BY <4>1, <4>2
    <3> QED BY <3>1, <3>2, <3>3
  <2> HIDE DEF ids
  <2> QED BY <2>1, <2>2, <2>3 DEF Chain
<1> HIDE DEF ids
<1>8. w \in WalkState(ids)
  BY <1>3, <1>6, <1>7, WalkEnds DEF NumbersFit, OnBranches, all
<1>9. /\ w # Failed /\ w.id \in ids /\ w.id \in Int /\ w.factor \in LooseFactor
      /\ b = branch[w.id] /\ b \in BranchType
  <2>1. ids \subseteq Existing /\ ids \subseteq Nat
    <3>1. ids \subseteq Existing
      BY DEF ids
    <3> QED BY <1>1, <3>1
  <2>2. w # Failed
    BY <1>8, <2>1, WalkStateIsNoError
  <2>3. w.id \in ids /\ w.factor \in LooseFactor
    BY <1>8 DEF WalkState
  <2> HIDE DEF w
  <2>4. PICK id \in ids : id = w.id
    BY <2>3
  <2>5. id \in Nat /\ id \in Int /\ all[id] = branch[id] /\ branch[id] \in BranchType
    BY <1>1, <1>2, <2>1
  <2> QED BY <2>2, <2>3, <2>4, <2>5
<1>10. Live(Branches)
         = IF b.status = BranchClosed \/ w.factor = MaxDebtFactor THEN NothingLeft(w.id)
           ELSE IF scaled = Failed THEN Failed
           ELSE IF debt = 0 THEN NothingLeft(w.id)
           ELSE IF col = Failed THEN Failed
           ELSE [tick |-> b.minima, col |-> col, debt |-> debt, branch |-> w.id]
  BY <1>9 DEF Live, WalkBranches, all
<1>11. MinTick \in Int /\ b.minima \in Int /\ b.partials \in Nat /\ b.factor \in LooseFactor
  <2>1. MinTick \in Int /\ Minima \cup {InitTick} \subseteq Int /\ 0..FullPartials \subseteq Nat
    BY RefreshTypes, ConstantTypes DEF MinTick
  <2> HIDE DEF b
  <2> QED BY <1>9, <2>1, LooseFactors DEF BranchType
<1>12. CASE b.status = BranchClosed \/ w.factor = MaxDebtFactor
  <2>1. Live(Branches) = NothingLeft(w.id)
    BY <1>10, <1>12
  <2> HIDE DEF w, b, col, debt, scaled
  <2> QED BY <1>9, <1>11, <2>1, LiveIsNoError DEF NothingLeft
<1>13. CASE b.status # BranchClosed /\ w.factor # MaxDebtFactor
  <2>1. /\ scaled # Failed
        /\ (debt # 0 /\ RatioAtTick(b.minima) # Failed) => col # Failed
    BY <1>9, <1>13 DEF NumbersFit, OnBranches, EndFits, all
  <2>2. scaled \in Nat
    BY <1>4, <1>9, <1>11, <2>1, ScaledType
  <2>3. debt \in Nat
    <3> HIDE DEF scaled
    <3> QED BY <1>4, <2>2 DEF KeptDebt
  <2>4. RatioAtTick(b.minima) # Failed
    <3>1. Worked(w.id)
      BY <1>9 DEF ids
    <3>2. b.minima \in Minima
      BY <1>9, <3>1 DEF Worked, RecordsInv, BranchesInv, JoinedToOlder
    <3>3. b.minima \in MinTick..MaxTick
      <4> HIDE DEF b
      <4> QED BY <3>2, RefreshAssumption, ConstantTypes DEF MinTick
    <3>4. RatioAtTick(b.minima) \in Nat
      BY <3>3, RatioOfTick
    <3> QED BY <3>4, FailedAssumption
  <2>5. debt # 0 => col \in Int
    <3> HIDE DEF debt, b
    <3> QED BY <1>11, <2>1, <2>3, <2>4, CollateralType
  <2> HIDE DEF w, b, col, debt, scaled
  <2>6. CASE debt = 0
    BY <1>9, <1>10, <1>11, <1>13, <2>1, <2>6, LiveIsNoError DEF NothingLeft
  <2>7. CASE debt # 0
    <3>1. Live(Branches) = [tick |-> b.minima, col |-> col, debt |-> debt, branch |-> w.id]
      BY <1>10, <1>13, <2>1, <2>4, <2>7
    <3> QED BY <1>9, <1>11, <2>3, <2>5, <2>7, <3>1, LiveIsNoError
  <2> QED BY <2>6, <2>7
<1> QED BY <1>12, <1>13

LEMMA RecordBranchInt ==
    ASSUME TypeInv, ~RecordLost PROVE Record.branch \in Int
<1>1. Record \in RecordType
  BY RecordIsTyped
<1>2. {0} \cup Branches \subseteq Int
  BY RefreshTypes DEF Branches
<1> QED BY <1>1, <1>2 DEF RecordType

LEMMA Computable ==
    ASSUME TypeInv, RecordsInv, ChainIsShort, NumbersFit PROVE AlwaysComputable
<1>1. /\ position.tick \in Int /\ NormalizeTick(position.tick) \in Int
      /\ Collateral \in Nat /\ Collateral \in Int /\ Dust \in Int /\ MinTick \in Int
  <2>1. position.tick \in Int /\ MinTick \in Int
    BY PositionTickInt, ConstantTypes DEF TypeInv, MinTick
  <2>2. Collateral \in 0..MaxAmount /\ Dust \in 0..MaxAmount /\ MaxAmount \in Nat
    BY RefreshTypes, ConstantTypes
  <2> QED BY <2>1, <2>2 DEF NormalizeTick
<1>2. ~position.supplyOnly => StoredDebt # Failed /\ StoredDebt \in Int
  <2> SUFFICES ASSUME ~position.supplyOnly PROVE StoredDebt # Failed /\ StoredDebt \in Int
    OBVIOUS
  <2>1. StoredDebt # Failed
    BY DEF NumbersFit
  <2>2. StoredDebt \in 0..MaxAmount
    BY <1>1, <2>1, DebtType DEF StoredDebt, DebtRawAtTick
  <2> QED BY <2>1, <2>2, ConstantTypes
<1>3. CASE ~Liquidated
  <2> DEFINE stored == IF position.supplyOnly THEN 0 ELSE StoredDebt
             live == [tick |-> NormalizeTick(position.tick), col |-> Collateral,
                      debt |-> stored, branch |-> 0]
  <2>1. Truth = NotLiquidated
    BY <1>3 DEF Truth, Compute, Liquidated, PositionTick
  <2>2. stored # Failed /\ stored \in Int
    BY <1>2, FailedAssumption
  <2>3. NotLiquidated = Snapshot(live, stored, Dust, FALSE, FALSE)
    BY <2>2 DEF NotLiquidated, StoredDebt
  <2> HIDE DEF stored
  <2>4. live.tick \in Int /\ live.col \in Int /\ live.debt \in Int /\ live.branch \in Int
    BY <1>1, <2>2
  <2> HIDE DEF live
  <2>5. Snapshot(live, stored, Dust, FALSE, FALSE) # Failed
    BY <1>1, <2>2, <2>4, SnapshotIsNoError
  <2> QED BY <2>1, <2>3, <2>5 DEF AlwaysComputable
<1>4. CASE Liquidated
  <2>1. ~RecordLost /\ Readable(Record) /\ Account # Missing /\ ~position.supplyOnly
    BY <1>4, RecordThere DEF Liquidated
  <2>2. Truth = IF Record.full
                THEN Snapshot(NothingLeft(Record.branch), StoredDebt, 0, TRUE, TRUE)
                ELSE IF EnlargedDebt = Failed THEN Failed
                     ELSE IF Live(Branches) = Failed THEN Failed
                          ELSE Snapshot(Live(Branches), StoredDebt, Dust, TRUE, FALSE)
    <3> DEFINE liq == IF flushed[Account] = Missing THEN Missing ELSE Account
    <3>1. Truth = Compute(position.tick, liq, Branches)
      BY DEF Truth, Account
    <3>2. ~(\/ StoredDebt = Failed
            \/ liq \notin {Missing, Account}
            \/ PositionTick.totalIds # position.tickId /\ liq = Missing
            \/ liq # Missing /\ flushed[liq] = Missing)
      BY <1>2, <2>1 DEF RecordLost
    <3> HIDE DEF liq
    <3>3. Compute(position.tick, liq, Branches)
            = IF \/ StoredDebt = Failed
                 \/ liq \notin {Missing, Account}
                 \/ PositionTick.totalIds # position.tickId /\ liq = Missing
                 \/ liq # Missing /\ flushed[liq] = Missing
              THEN Failed
              ELSE IF Record.full
                THEN Snapshot(NothingLeft(Record.branch), StoredDebt, 0, TRUE, TRUE)
                ELSE IF EnlargedDebt = Failed THEN Failed
                     ELSE IF Live(Branches) = Failed THEN Failed
                          ELSE Snapshot(Live(Branches), StoredDebt, Dust, TRUE, FALSE)
      BY <1>4, SameAccount
         DEF Compute, Liquidated, PositionTick, StoredDebt, EnlargedDebt, Record, Live, Passed
    <3> QED BY <3>1, <3>2, <3>3
  <2>3. CASE Record.full
    <3>1. Record.branch \in Int
      BY <2>1, RecordBranchInt
    <3>2. Snapshot(NothingLeft(Record.branch), StoredDebt, 0, TRUE, TRUE) # Failed
      <4> DEFINE live == NothingLeft(Record.branch)
      <4>1. live.tick \in Int /\ live.col \in Int /\ live.debt \in Int /\ live.branch \in Int
        BY <1>1, <3>1 DEF NothingLeft
      <4>2. 0 \in Int /\ TRUE \in BOOLEAN
        OBVIOUS
      <4>3. StoredDebt \in Int
        BY <1>2, <2>1
      <4> HIDE DEF live
      <4>4. Snapshot(live, StoredDebt, 0, TRUE, TRUE) # Failed
        BY <4>1, <4>2, <4>3, SnapshotIsNoError
      <4> QED BY <4>4 DEF live
    <3> QED BY <2>2, <2>3, <3>2 DEF AlwaysComputable
  <2>4. CASE ~Record.full
    <3>1. EnlargedDebt # Failed
      BY <1>4, <2>4 DEF NumbersFit, OnBranches
    <3>2. /\ Live(Branches) # Failed
          /\ Live(Branches).tick \in Int /\ Live(Branches).col \in Int
          /\ Live(Branches).debt \in Int /\ Live(Branches).branch \in Int
      BY <1>4, <2>4, WalkSucceeds
    <3>3. Snapshot(Live(Branches), StoredDebt, Dust, TRUE, FALSE) # Failed
      BY <1>1, <1>2, <2>1, <3>2, SnapshotIsNoError
    <3> QED BY <2>2, <2>4, <3>1, <3>2, <3>3 DEF AlwaysComputable
  <2> QED BY <2>3, <2>4
<1> QED BY <1>3, <1>4

\* However liquidations, merges, absorptions and re-opened ticks follow one
\* another, what the program needs is there: the record of a position's id is
\* in its tick or was flushed to the slot the program reads, it names a branch
\* that a liquidation worked on, and every merged branch is joined to an older
\* one, so that the walk never circles, never reaches an account that is not
\* there and ends on a branch with a legal lowest tick.  With every account
\* passed, the program gives up only on a chain longer than MAX_BRANCH_HOPS or
\* a number that does not fit (live_position.rs 169-237,
\* get_jupiter_position.rs 140-221).
THEOREM OnlyNumbersFail == Spec => [](ChainIsShort /\ NumbersFit => AlwaysComputable)
<1>1. Init => TypeInv /\ RecordsInv
  BY TypesInit, RecordsInit
<1>2. (TypeInv /\ RecordsInv) /\ [Next]_vars => (TypeInv /\ RecordsInv)'
  BY TypesInductive, RecordsInductive
<1>3. TypeInv /\ RecordsInv => (ChainIsShort /\ NumbersFit => AlwaysComputable)
  BY Computable
<1> QED BY <1>1, <1>2, <1>3, PTL DEF Spec

\* A refresh whose accounts were read while the vault rested goes through,
\* unless the chain is too long, for the program or for the client's loop, or
\* a number does not fit: the client passed every account that the program
\* asks for (lendmirror.ts 127-190, get_jupiter_position.rs 140-221).
QuietRefreshPasses ==
    (pc = "submit" /\ ~moved /\ ChainIsShort /\ ClientReaches /\ NumbersFit) =>
        Compute(plan.tick, plan.liq, plan.branches) # Failed

THEOREM QuietRefreshesPass == Spec => []QuietRefreshPasses
<1>1. Spec => [](ChainIsShort /\ NumbersFit => AlwaysComputable)
  BY OnlyNumbersFail
<1>2. Spec => []QuietPlanSuffices
  BY ClientCollectsEnough
<1>3. (ChainIsShort /\ NumbersFit => AlwaysComputable) /\ QuietPlanSuffices => QuietRefreshPasses
  BY DEF AlwaysComputable, QuietPlanSuffices, QuietRefreshPasses
<1> QED BY <1>1, <1>2, <1>3, PTL

-----------------------------------------------------------------------------
(* Products of debt factors *)

LEMMA Parts ==
    ASSUME NEW x \in Nat, NEW d \in Nat \ {0}
    PROVE  /\ x \div d \in Nat
           /\ (x \div d) * d <= x /\ x < (x \div d + 1) * d
  OBVIOUS

LEMMA Cancel ==
    ASSUME NEW x \in Nat, NEW y \in Nat, NEW d \in Nat \ {0}, x * d < y * d
    PROVE  x < y
<1>1. x >= y => x * d >= y * d
  <2>1. (x - y) * d = x * d - y * d
    OBVIOUS
  <2>2. x >= y => (x - y) * d >= 0
    OBVIOUS
  <2> QED BY <2>1, <2>2
<1>2. x * d \in Nat /\ y * d \in Nat
  OBVIOUS
<1> QED BY <1>1, <1>2

\* The product of two numbers with the same highest bit, cut below that bit.
LEMMA CutProduct ==
    ASSUME NEW h \in Nat \ {0}, NEW x \in h..(2 * h - 1), NEW y \in h..(2 * h - 1)
    PROVE  /\ x * y \in Nat
           /\ x * y >= 2 * (h * h) => (x * y) \div (2 * h) \in h..(2 * h - 1)
           /\ x * y < 2 * (h * h) => (x * y) \div h \in h..(2 * h - 1)
<1> DEFINE p == x * y
<1>1. p \in Nat /\ h * h \in Nat
  OBVIOUS
<1>2. h * h <= p /\ p < 4 * (h * h)
  <2>1. (x - h) * (y - h) >= 0 /\ h * (x - h) >= 0 /\ h * (y - h) >= 0
    OBVIOUS
  <2>2. p = (x - h) * (y - h) + h * (x - h) + h * (y - h) + h * h
    OBVIOUS
  <2>3. p <= (2 * h - 1) * y /\ (2 * h - 1) * y <= (2 * h - 1) * (2 * h - 1)
    <3>1. ((2 * h - 1) - x) * y >= 0 /\ (2 * h - 1) * ((2 * h - 1) - y) >= 0
      OBVIOUS
    <3> QED BY <3>1
  <2>4. (2 * h - 1) * (2 * h - 1) = 4 * (h * h) - 4 * h + 1
    OBVIOUS
  <2> QED BY <1>1, <2>1, <2>2, <2>3, <2>4
<1> HIDE DEF p
<1>3. ASSUME p >= 2 * (h * h)
      PROVE  p \div (2 * h) \in h..(2 * h - 1)
  <2> DEFINE d == 2 * h
             q == p \div d
  <2>1. d \in Nat \ {0}
    OBVIOUS
  <2> HIDE DEF d
  <2>2. q \in Nat /\ q * d <= p /\ p < (q + 1) * d
    BY <1>1, <2>1, Parts
  <2> HIDE DEF q
  <2>3. h * d = 2 * (h * h) /\ (2 * h) * d = 4 * (h * h)
    BY DEF d
  <2>4. q * d < (2 * h) * d /\ h * d < (q + 1) * d
    BY <1>1, <1>2, <1>3, <2>1, <2>2, <2>3
  <2>5. q < 2 * h /\ h < q + 1
    BY <2>1, <2>2, <2>4, Cancel
  <2> QED BY <2>2, <2>5 DEF q, d
<1>4. ASSUME p < 2 * (h * h)
      PROVE  p \div h \in h..(2 * h - 1)
  <2> DEFINE q == p \div h
  <2>1. q \in Nat /\ q * h <= p /\ p < (q + 1) * h
    BY <1>1, Parts
  <2> HIDE DEF q
  <2>2. (2 * h) * h = 2 * (h * h)
    OBVIOUS
  <2>3. q * h < (2 * h) * h /\ h * h < (q + 1) * h
    BY <1>1, <1>2, <1>4, <2>1, <2>2
  <2>4. q < 2 * h /\ h < q + 1
    BY <2>1, <2>3, Cancel
  <2> QED BY <2>1, <2>4 DEF q
<1> QED BY <1>1, <1>3, <1>4 DEF p

\* The highest bit of a coefficient.
Half == 2^(CoefficientBits - 1)

\* A packed factor whose highest bit is set, as all but 0 are.
NormalFactor == [c : Half..(2 * Half - 1), e : 0..ExponentMax]

LEMMA HalfIs ==
    /\ Half \in Nat \ {0} /\ 2^CoefficientBits = 2 * Half
    /\ 2^(2 * CoefficientBits - 1) = 2 * (Half * Half)
<1> DEFINE n == CoefficientBits
<1>1. n \in 1..WideBits /\ n \in Nat /\ n - 1 \in Nat /\ n - 1 \in 0..WideBits
      /\ n + (n - 1) = 2 * n - 1 /\ n + (n - 1) <= WideBits
  BY ConstantTypes
<1>2. 2^n = 2 * 2^(n - 1) /\ 2^(n - 1) \in Nat \ {0}
  BY <1>1, Doubles
<1>3. 2^(n + (n - 1)) = 2^n * 2^(n - 1)
  BY <1>1, ExponentsAdd
<1>4. Half = 2^(n - 1)
  BY DEF Half
<1> HIDE DEF n
<1>5. 2^(2 * n - 1) = (2 * Half) * Half
  BY <1>1, <1>2, <1>3, <1>4
<1>6. (2 * Half) * Half = 2 * (Half * Half)
  BY <1>2, <1>4
<1> QED BY <1>2, <1>4, <1>5, <1>6 DEF n

\* However many branches a position was merged into, the factor that the walk
\* compounds keeps all its bits: a product is the exact one cut below its
\* highest CoefficientBits bits, so that it loses less than one part in
\* 2^(CoefficientBits - 1) (live_position.rs 112-133).
THEOREM ProductsAreExact ==
    ASSUME NEW a \in NormalFactor, NEW b \in NormalFactor
    PROVE  LET product == MulDebtFactors(a, b)
               exact == a.c * b.c
               unit == 2^MulShift(exact)
           IN  /\ product \in NormalFactor \cup {Failed}
               /\ (product # Failed /\ product # MaxDebtFactor) =>
                     /\ product.e = a.e + b.e + MulShift(exact) - ExponentBias
                     /\ product.c * unit <= exact
                     /\ (exact - product.c * unit) * Half < product.c * unit
<1> DEFINE x == a.c
           y == b.c
           exact == x * y
           shift == MulShift(exact)
           unit == 2^shift
           exponent == a.e + b.e + shift - ExponentBias
           product == MulDebtFactors(a, b)
<1>1. /\ x \in Half..(2 * Half - 1) /\ y \in Half..(2 * Half - 1)
      /\ a.e \in 0..ExponentMax /\ b.e \in 0..ExponentMax
  BY DEF NormalFactor
<1>2. ExponentBias \in Nat /\ ExponentMax \in Nat
  BY Widths DEF ExponentBias, ExponentMax
<1>3. /\ shift = CoefficientBits /\ unit = 2 * Half /\ exact >= 2 * (Half * Half)
      \/ /\ shift = CoefficientBits - 1 /\ unit = Half /\ ~ (exact >= 2 * (Half * Half))
  BY HalfIs DEF MulShift, Half
<1>4. exact \in Nat /\ exact \div unit \in Half..(2 * Half - 1)
  <2> HIDE DEF x, y, unit, shift
  <2>1. /\ exact \in Nat
        /\ exact >= 2 * (Half * Half) => exact \div (2 * Half) \in Half..(2 * Half - 1)
        /\ exact < 2 * (Half * Half) => exact \div Half \in Half..(2 * Half - 1)
    BY <1>1, HalfIs, CutProduct
  <2>2. Half * Half \in Nat
    BY HalfIs
  <2> HIDE DEF exact
  <2>3. exact >= 2 * (Half * Half) \/ exact < 2 * (Half * Half)
    BY <2>1, <2>2
  <2> QED BY <1>3, <2>1, <2>3
<1>5. unit \in Nat \ {0} /\ shift \in Int
  BY <1>3, HalfIs, ConstantTypes
<1>6. exponent \in Int
  BY <1>1, <1>2, <1>5
<1>7. product = IF exponent < 0 THEN Failed
                ELSE IF exponent > ExponentMax THEN MaxDebtFactor
                ELSE [c |-> exact \div unit, e |-> exponent]
  BY <1>2, <1>6 DEF MulDebtFactors
<1>8. MaxDebtFactor \in NormalFactor
  BY <1>2, HalfIs DEF MaxDebtFactor, NormalFactor
<1> DEFINE c == exact \div unit
<1>9. /\ c * unit <= exact /\ (exact - c * unit) * Half < c * unit
  <2> HIDE DEF exact, unit
  <2>1. c \in Nat /\ c * unit <= exact /\ exact < (c + 1) * unit
    BY <1>4, <1>5, Parts
  <2>2. c >= Half /\ Half \in Nat \ {0}
    BY <1>4, HalfIs
  <2> HIDE DEF c
  <2> DEFINE rest == exact - c * unit
  <2>3. c * unit \in Nat /\ (c + 1) * unit = c * unit + unit
    BY <1>5, <2>1
  <2>4. rest \in Nat /\ rest < unit
    <3> DEFINE p == c * unit
    <3>1. p \in Nat /\ p <= exact /\ exact < p + unit
      BY <2>1, <2>3
    <3>2. exact \in Nat /\ unit \in Nat
      BY <1>4, <1>5
    <3> HIDE DEF p
    <3>3. exact - p \in Nat /\ exact - p < unit
      BY <3>1, <3>2
    <3> QED BY <3>3 DEF p
  <2> HIDE DEF rest
  <2>5. (unit - rest) * Half > 0 /\ (c - Half) * unit >= 0
    BY <1>5, <2>1, <2>2, <2>4
  <2>6. (unit - rest) * Half = unit * Half - rest * Half /\ (c - Half) * unit = c * unit - unit * Half
    BY <1>5, <2>1, <2>2, <2>4
  <2>7. rest * Half < c * unit
    BY <1>5, <2>1, <2>2, <2>4, <2>5, <2>6
  <2> QED BY <2>1, <2>7 DEF rest
<1> HIDE DEF unit, exact
<1>10. c \in Half..(2 * Half - 1)
  BY <1>4
<1> HIDE DEF c, exponent, product
<1>11. product \in NormalFactor \cup {Failed}
  <2>1. CASE exponent < 0
    BY <1>7, <2>1
  <2>2. CASE exponent > ExponentMax
    BY <1>2, <1>6, <1>7, <1>8, <2>2
  <2>3. CASE exponent \in 0..ExponentMax
    <3>1. product = [c |-> c, e |-> exponent]
      BY <1>2, <1>6, <1>7, <2>3 DEF c
    <3> QED BY <1>10, <2>3, <3>1 DEF NormalFactor
  <2> QED BY <1>2, <1>6, <2>1, <2>2, <2>3
<1>12. (product # Failed /\ product # MaxDebtFactor) => product = [c |-> c, e |-> exponent]
  BY <1>7 DEF c
<1>13. (product # Failed /\ product # MaxDebtFactor) =>
          /\ product.e = exponent /\ product.c * unit <= exact
          /\ (exact - product.c * unit) * Half < product.c * unit
  BY <1>9, <1>12
<1> QED BY <1>11, <1>13 DEF product, exponent, unit, exact

-----------------------------------------------------------------------------
(* Debt and collateral *)

LEMMA QuotientsRise ==
    ASSUME NEW x \in Nat, NEW y \in Nat, NEW d \in Nat \ {0}, x <= y
    PROVE  x \div d <= y \div d
<1> DEFINE p == x \div d
           q == y \div d
<1>1. p \in Nat /\ p * d <= x /\ q \in Nat /\ y < (q + 1) * d
  BY Parts
<1> HIDE DEF p, q
<1>2. p * d < (q + 1) * d
  <2>1. p * d \in Nat /\ (q + 1) * d \in Nat
    BY <1>1, Product
  <2> QED BY <1>1, <2>1
<1>3. p < q + 1
  BY <1>1, <1>2, Cancel
<1> QED BY <1>1, <1>3 DEF p, q

LEMMA QuotientsFall ==
    ASSUME NEW x \in Nat, NEW d \in Nat \ {0}, NEW e \in Nat \ {0}, d <= e
    PROVE  x \div e <= x \div d
<1> DEFINE p == x \div e
           q == x \div d
<1>1. p \in Nat /\ p * e <= x /\ q \in Nat /\ x < (q + 1) * d
  BY Parts
<1> HIDE DEF p, q
<1>2. p * d <= p * e
  <2>1. p * (e - d) >= 0 /\ p * (e - d) = p * e - p * d
    BY <1>1
  <2>2. p * d \in Nat /\ p * e \in Nat
    BY <1>1, Product
  <2> QED BY <2>1, <2>2
<1>3. p * d < (q + 1) * d
  <2>1. p * d \in Nat /\ p * e \in Nat /\ (q + 1) * d \in Nat
    BY <1>1, Product
  <2> QED BY <1>1, <1>2, <2>1
<1>4. p < q + 1
  BY <1>1, <1>3, Cancel
<1> QED BY <1>1, <1>4 DEF p, q

LEMMA ProductsRise ==
    ASSUME NEW d \in Nat, NEW x \in Nat, NEW y \in Nat, x <= y
    PROVE  d * x <= d * y
<1>1. d * (y - x) >= 0 /\ d * (y - x) = d * y - d * x
  OBVIOUS
<1> QED BY <1>1

\* The further down a tick a liquidation went, the more collateral backs the
\* same debt: at every tick, with every table and every debt
\* (live_position.rs 227-239).
THEOREM DeeperIsMore ==
    ASSUME NEW b, NEW c, b.minima \in Int, c.minima = b.minima,
           b.partials \in Nat, c.partials \in Nat, b.partials <= c.partials,
           NEW debt \in Nat,
           CollateralAtMinima(b, debt) # Failed, CollateralAtMinima(c, debt) # Failed
    PROVE  CollateralAtMinima(c, debt) <= CollateralAtMinima(b, debt)
<1> DEFINE top == RatioAtTick(b.minima)
           below == (top * FourDecimals) \div TickSpacing
           lower == MinimaRatio(top, below, b.partials)
           upper == MinimaRatio(top, below, c.partials)
           amount == debt * ZeroTickRatio
<1>1. /\ top \in Nat /\ below \in 0..top /\ lower \in Nat \ {0}
      /\ CollateralAtMinima(b, debt) = amount \div lower
  BY CollateralIs
<1>2. upper \in Nat \ {0} /\ CollateralAtMinima(c, debt) = amount \div upper
  BY CollateralIs
<1>3. amount \in Nat
  BY Product, Widths
<1> HIDE DEF amount, below, top
<1>4. lower <= upper
  <2> DEFINE span == top - below
             p == b.partials
             q == c.partials
  <2>1. span \in Nat /\ p \in Nat /\ q \in Nat /\ p <= q
    BY <1>1
  <2>2. lower = below + (span * p) \div FullPartials
        /\ upper = below + (span * q) \div FullPartials
    BY DEF MinimaRatio
  <2> HIDE DEF span, p, q, lower, upper
  <2>3. span * p <= span * q /\ span * p \in Nat /\ span * q \in Nat
    BY <2>1, ProductsRise, Product
  <2> DEFINE x == span * p
             y == span * q
  <2>4. x \in Nat /\ y \in Nat /\ x <= y /\ FullPartials \in Nat \ {0}
    BY <2>3, ConstantTypes
  <2> HIDE DEF x, y
  <2>5. x \div FullPartials <= y \div FullPartials
    BY <2>4, QuotientsRise
  <2>6. x \div FullPartials \in Nat /\ y \div FullPartials \in Nat
    BY <2>4, Quotient
  <2>7. lower = below + x \div FullPartials /\ upper = below + y \div FullPartials
    BY <2>2 DEF x, y
  <2> QED BY <1>1, <2>5, <2>6, <2>7
<1> HIDE DEF lower, upper
<1>5. amount \div upper <= amount \div lower
  BY <1>1, <1>2, <1>3, <1>4, QuotientsFall
<1> QED BY <1>1, <1>2, <1>5

\* The two conversions agree: the collateral that a position keeps when its
\* branch stops at the top of a tick carries, at that tick, no more than the
\* debt it was reckoned from (live_position.rs 225-241, tick_math.rs 112-122).
THEOREM DebtReadsBack ==
    ASSUME NEW b, b.minima \in Int, b.partials = FullPartials,
           NEW debt \in 0..MaxAmount, CollateralAtMinima(b, debt) # Failed
    PROVE  DebtRawAtTick(b.minima, CollateralAtMinima(b, debt)) \in 0..debt
<1> DEFINE top == RatioAtTick(b.minima)
           below == (top * FourDecimals) \div TickSpacing
           ratio == MinimaRatio(top, below, b.partials)
           amount == debt * ZeroTickRatio
           col == CollateralAtMinima(b, debt)
           t == NormalizeTick(b.minima)
<1>0. FullPartials \in Nat \ {0} /\ MaxAmount \in Nat /\ ZeroTickRatio \in Nat \ {0}
      /\ MinTick \in Int /\ InitTick < MinTick /\ InitTick \in Int
  BY ConstantTypes, Widths DEF MinTick
<1>1. /\ top \in Nat /\ below \in 0..top /\ ratio \in Nat \ {0}
      /\ col = amount \div ratio /\ b.minima \in MinTick..MaxTick
  BY <1>0, CollateralIs
<1>2. ratio = top
  <2> HIDE DEF top, below
  <2>1. (top - below) \in Nat
    BY <1>1
  <2> DEFINE span == top - below
  <2> HIDE DEF span
  <2>2. (span * FullPartials) \div FullPartials = span
    <3>1. span \in Nat
      BY <2>1 DEF span
    <3> DEFINE q == (span * FullPartials) \div FullPartials
    <3>2. span * FullPartials \in Nat
      BY <1>0, <3>1, Product
    <3>3. q \in Nat /\ q * FullPartials <= span * FullPartials
          /\ span * FullPartials < (q + 1) * FullPartials
      BY <1>0, <3>2, Parts
    <3> HIDE DEF q
    <3>4. span < q + 1
      BY <1>0, <3>1, <3>3, Cancel
    <3>5. ~ (span < q)
      <4> SUFFICES ASSUME span < q PROVE FALSE
        OBVIOUS
      <4>1. (q - span) * FullPartials > 0
            /\ (q - span) * FullPartials = q * FullPartials - span * FullPartials
        BY <1>0, <3>1, <3>3
      <4> QED BY <1>0, <3>1, <3>3, <4>1
    <3> QED BY <3>1, <3>3, <3>4, <3>5 DEF q
  <2>3. ratio = below + span
    BY <2>2 DEF MinimaRatio, span
  <2> QED BY <1>1, <2>1, <2>3 DEF span
<1>3. t = b.minima
  BY <1>0, <1>1 DEF NormalizeTick
<1> HIDE DEF ratio, below
<1>4. col \in Nat /\ (top * col) \div ZeroTickRatio <= debt
      /\ (top * col) \div ZeroTickRatio \in Nat
  <2> HIDE DEF top, col, t
  <2>1. amount \in Nat
    BY <1>0, Product
  <2>2. top \in Nat \ {0} /\ col = amount \div top
    BY <1>1, <1>2
  <2> HIDE DEF amount
  <2>3. col \in Nat /\ col * top <= amount
    BY <2>1, <2>2, Parts
  <2> DEFINE back == top * col
             q == back \div ZeroTickRatio
  <2>4. back \in Nat /\ back <= amount
    BY <2>1, <2>2, <2>3, Product
  <2> HIDE DEF back
  <2>5. q \in Nat /\ q * ZeroTickRatio <= back
    BY <1>0, <2>4, Parts
  <2>6. debt \in Nat
    BY <1>0
  <2>7. q <= debt
    <3> SUFFICES ASSUME q > debt PROVE FALSE
      BY <2>5, <2>6
    <3> HIDE DEF q
    <3>1. (q - debt) * ZeroTickRatio > 0
          /\ (q - debt) * ZeroTickRatio = q * ZeroTickRatio - debt * ZeroTickRatio
      BY <1>0, <2>5, <2>6
    <3>2. q * ZeroTickRatio \in Nat /\ debt * ZeroTickRatio \in Nat
      BY <1>0, <2>5, <2>6, Product
    <3>3. q * ZeroTickRatio <= debt * ZeroTickRatio
      BY <2>1, <2>4, <2>5, <3>2 DEF amount
    <3> QED BY <3>1, <3>2, <3>3
  <2> QED BY <2>3, <2>5, <2>7 DEF q, back
<1> DEFINE read == (top * col) \div ZeroTickRatio
<1>5. read \in Nat /\ read <= debt /\ debt <= MaxAmount /\ top # Failed
  <2>1. top # Failed
    BY <1>1, FailedAssumption
  <2> QED BY <1>0, <1>4, <2>1
<1>6. DebtRawAtTick(b.minima, col) = IF b.minima <= MinTick THEN 0 ELSE read
  <2>1. DebtRawAtTick(b.minima, col)
           = CASE t <= MinTick -> 0
               [] t > MinTick /\ (RatioAtTick(t) = Failed \/ (RatioAtTick(t) * col) \div ZeroTickRatio + 0 > MaxAmount) -> Failed
               [] OTHER -> (RatioAtTick(t) * col) \div ZeroTickRatio + 0
    BY DEF DebtRawAtTick, DebtFor
  <2>2. RatioAtTick(t) = top /\ read + 0 = read
    BY <1>3, <1>5
  <2> HIDE DEF top, col, t
  <2>3. (t <= MinTick /\ ~(t > MinTick)) \/ (t > MinTick /\ ~(t <= MinTick))
    BY <1>0, <1>1, <1>3
  <2>4. ~ (read > MaxAmount)
    BY <1>0, <1>5
  <2> HIDE DEF read
  <2> QED BY <1>3, <1>5, <2>1, <2>2, <2>3, <2>4 DEF read
<1> HIDE DEF col, read, top
<1> SUFFICES DebtRawAtTick(b.minima, col) \in 0..debt
  BY DEF col
<1> QED BY <1>0, <1>5, <1>6

-----------------------------------------------------------------------------
(* The two frames of a snapshot *)

LEMMA HeaderIs ==
    ASSUME NEW p
    PROVE  /\ p.low = Bare => Header(p) = << >> /\ Len(Header(p)) = 0
           /\ p.low # Bare => Len(Header(p)) = HeaderLen
<1>1. Len(Whole("header", HeaderLen)) = HeaderLen
  <2>1. HeaderLen \in Nat
    BY DEF HeaderLen
  <2> QED BY <2>1 DEF Whole
<1> QED BY <1>1 DEF Header

LEMMA SliceIs ==
    ASSUME NEW Byte, NEW bytes \in Seq(Byte), Len(bytes) = BodyLen
    PROVE  Slice(bytes, 0, BodyLen) = bytes
  BY DEF Slice, BodyLen

\* Whatever header the sender writes and however many bytes follow it, unless
\* they are together exactly as long as a body: what Solana reads out of a
\* LayerZero payload depends on the header's last 4 bytes alone, and it is what
\* the EVM mirror reads when the first 28 are zero; when they are not, the
\* mirror refuses the payload.
THEOREM FramesAgree ==
    ASSUME NEW Byte, NEW bytes \in Seq(Byte), NEW high \in Nat, NEW low \in Nat,
           LengthOf(Payload(high, low, bytes)) # BodyLen
    PROVE  /\ DecodeOnSolana(Payload(high, low, bytes)) = DecodeOnSolana(Payload(0, low, bytes))
           /\ DecodeOnEvm(Payload(high, low, bytes))
                 = IF high = 0 THEN DecodeOnSolana(Payload(high, low, bytes)) ELSE Rejected
<1> DEFINE p == Payload(high, low, bytes)
           fits == low = BodyLen /\ BodyLen <= Len(bytes)
           read == Slice(bytes, 0, BodyLen)
<1>0. BodyLen \in Nat /\ HeaderLen \in Nat /\ Len(bytes) \in Nat /\ Len(Rejected) = 1
      /\ BodyLen # 1
  BY DEF BodyLen, HeaderLen, Rejected
<1>1. ASSUME NEW first \in Nat
      PROVE  DecodeOnSolana(Payload(first, low, bytes)) = IF fits THEN Cut(read) ELSE Rejected
  <2> DEFINE q == Payload(first, low, bytes)
             body == UnwrapLzPayload(q)
  <2>1. q.low = low /\ q.bytes = bytes
    BY DEF Payload
  <2>2. CASE low <= Len(bytes)
    <3>1. body = Slice(bytes, 0, low) /\ Len(Slice(bytes, 0, low)) = low
      <4>1. Len(Slice(bytes, 0, low)) = low
        BY <2>2 DEF Slice
      <4> QED BY <2>1, <2>2, <4>1 DEF UnwrapLzPayload
    <3> HIDE DEF body, q
    <3>2. CASE low = BodyLen
      BY <1>0, <2>2, <3>1, <3>2 DEF DecodeOnSolana, body, q
    <3>3. CASE low # BodyLen
      BY <1>0, <2>2, <3>1, <3>3 DEF DecodeOnSolana, body, q
    <3> QED BY <3>2, <3>3
  <2>3. CASE ~ (low <= Len(bytes))
    <3>1. body = Rejected
      BY <2>1, <2>3 DEF UnwrapLzPayload
    <3>2. ~ fits
      BY <2>3
    <3> QED BY <3>1, <3>2 DEF DecodeOnSolana
  <2> QED BY <2>2, <2>3
<1>2. DecodeOnEvm(p) = IF high = 0 /\ fits THEN Cut(read) ELSE Rejected
  <2>1. p.high = high /\ p.low = low /\ p.bytes = bytes
    BY DEF Payload
  <2>2. LengthOf(p) = HeaderLen + Len(bytes)
    <3>1. low # Bare
      BY DEF Bare
    <3> QED BY <2>1, <3>1, HeaderIs DEF LengthOf
  <2>3. DeclaresBody(p) <=> high = 0 /\ fits
    <3>1. LengthOf(p) >= HeaderLen + BodyLen <=> BodyLen <= Len(bytes)
      BY <1>0, <2>2
    <3> QED BY <2>1, <3>1 DEF DeclaresBody
  <2>4. SnapshotBody(p) = IF high = 0 /\ fits THEN read ELSE Rejected
    BY <2>1, <2>3 DEF SnapshotBody
  <2>5. fits => Len(read) = BodyLen /\ read # Rejected
    <3>1. fits => Len(read) = BodyLen
      BY <1>0 DEF Slice
    <3> QED BY <1>0, <3>1
  <2> HIDE DEF p, fits, read
  <2> QED BY <2>4, <2>5 DEF DecodeOnEvm
<1>3. 0 \in Nat
  OBVIOUS
<1> HIDE DEF fits, read
<1> QED BY <1>1, <1>2, <1>3

\* Whatever the fields of a snapshot are, the EVM mirror reads them alike from
\* Chainlink's frame and LayerZero's, and Solana from LayerZero's.
THEOREM FramesBringTheBody ==
    ASSUME NEW Byte, NEW body \in Seq(Byte), Len(body) = BodyLen
    PROVE  /\ DecodeOnEvm(CcipData(body)) = Cut(body)
           /\ DecodeOnEvm(WrapLzPayload(body)) = Cut(body)
           /\ DecodeOnSolana(WrapLzPayload(body)) = Cut(body)
<1>1. body # Rejected
  BY DEF Rejected, BodyLen
<1>2. Slice(body, 0, BodyLen) = body
  BY SliceIs
<1>3. SnapshotBody(CcipData(body)) = body
  <2> DEFINE p == CcipData(body)
  <2>1. p.low = Bare /\ p.bytes = body
    BY DEF CcipData, Payload
  <2>2. Header(p) = << >> /\ LengthOf(p) = BodyLen
    <3>1. Header(p) = << >> /\ Len(Header(p)) = 0
      BY <2>1, HeaderIs
    <3> QED BY <2>1, <3>1 DEF LengthOf, BodyLen
  <2>3. << >> \o body = body
    OBVIOUS
  <2> HIDE DEF p
  <2>4. SnapshotBody(p) = body
    BY <2>1, <2>2, <2>3 DEF SnapshotBody
  <2> QED BY <2>4 DEF p
<1>4. SnapshotBody(WrapLzPayload(body)) = body /\ UnwrapLzPayload(WrapLzPayload(body)) = body
  <2> DEFINE p == WrapLzPayload(body)
  <2>1. p.high = 0 /\ p.low = BodyLen /\ p.bytes = body
    BY DEF WrapLzPayload, Payload
  <2>2. LengthOf(p) = HeaderLen + BodyLen
    <3>1. Len(Header(p)) = HeaderLen
      BY <2>1, HeaderIs DEF Bare, BodyLen
    <3> QED BY <2>1, <3>1 DEF LengthOf
  <2> HIDE DEF p
  <2>3. SnapshotBody(p) = body
    BY <1>2, <2>1, <2>2 DEF SnapshotBody, DeclaresBody, HeaderLen, BodyLen
  <2>4. UnwrapLzPayload(p) = body
    <3>1. BodyLen \in Nat
      BY DEF BodyLen
    <3>2. Len(p.bytes) = BodyLen /\ p.low = BodyLen
      BY <2>1
    <3>3. p.low <= Len(p.bytes)
      BY <3>1, <3>2
    <3> QED BY <1>2, <2>1, <3>3 DEF UnwrapLzPayload
  <2> QED BY <2>3, <2>4 DEF p
<1> QED BY <1>1, <1>3, <1>4 DEF DecodeOnEvm, DecodeOnSolana

LEMMA SlicesAlike ==
    ASSUME NEW Byte, NEW a \in Seq(Byte), NEW b \in Seq(Byte),
           Len(a) = BodyLen, Len(b) = BodyLen,
           NEW x \in 0..BodyLen, NEW y \in 0..BodyLen, Slice(a, x, y) = Slice(b, x, y)
    PROVE  \A j \in (x + 1)..y : a[j] = b[j]
<1>1. BodyLen \in Nat
  BY DEF BodyLen
<1> SUFFICES ASSUME NEW j \in (x + 1)..y PROVE a[j] = b[j]
  OBVIOUS
<1>2. j - x \in 1..(y - x) /\ (x + 1) + (j - x) - 1 = j
  BY <1>1
<1>3. Slice(a, x, y)[j - x] = a[j] /\ Slice(b, x, y)[j - x] = b[j]
  BY <1>1, <1>2 DEF Slice
<1> QED BY <1>3

\* Every byte belongs to a field: each begins where another ends.
LEMMA BytesCovered ==
    ASSUME NEW j \in 1..BodyLen
    PROVE  \E f \in DOMAIN BodyOffsets :
              /\ j \in (BodyOffsets[f][1] + 1)..BodyOffsets[f][2]
              /\ BodyOffsets[f][1] \in 0..BodyLen /\ BodyOffsets[f][2] \in 0..BodyLen
<1>1. CASE j \in 1..134
  BY <1>1 DEF BodyOffsets, BodyLen
<1>2. CASE j \in 135..194
  BY <1>2 DEF BodyOffsets, BodyLen
<1>3. CASE j \in 195..225
  BY <1>3 DEF BodyOffsets, BodyLen
<1>4. j \in 1..225
  BY DEF BodyLen
<1> QED BY <1>1, <1>2, <1>3, <1>4

\* The decoders leave no byte of a body out: two snapshots that read alike, field
\* by field, are the same bytes.
THEOREM CutLosesNothing ==
    ASSUME NEW Byte, NEW a \in Seq(Byte), NEW b \in Seq(Byte),
           Len(a) = BodyLen, Len(b) = BodyLen, Cut(a) = Cut(b)
    PROVE  a = b
<1>1. \A f \in DOMAIN BodyOffsets :
         Slice(a, BodyOffsets[f][1], BodyOffsets[f][2])
           = Slice(b, BodyOffsets[f][1], BodyOffsets[f][2])
  <2> SUFFICES ASSUME NEW f \in DOMAIN BodyOffsets
               PROVE  Cut(a)[f] = Cut(b)[f]
    BY DEF Cut
  <2> QED OBVIOUS
<1>2. ASSUME NEW j \in 1..BodyLen PROVE a[j] = b[j]
  <2>1. PICK f \in DOMAIN BodyOffsets :
           /\ j \in (BodyOffsets[f][1] + 1)..BodyOffsets[f][2]
           /\ BodyOffsets[f][1] \in 0..BodyLen /\ BodyOffsets[f][2] \in 0..BodyLen
    BY BytesCovered
  <2> DEFINE x == BodyOffsets[f][1]
             y == BodyOffsets[f][2]
  <2>2. x \in 0..BodyLen /\ y \in 0..BodyLen /\ Slice(a, x, y) = Slice(b, x, y)
    BY <1>1, <2>1
  <2>3. j \in (x + 1)..y
    BY <2>1
  <2> HIDE DEF x, y
  <2> QED BY <2>2, <2>3, SlicesAlike
<1>3. BodyLen \in Nat
  BY DEF BodyLen
<1> QED BY <1>2, <1>3
=============================================================================
