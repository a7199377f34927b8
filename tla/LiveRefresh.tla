---------------------------- MODULE LiveRefresh ----------------------------
(***************************************************************************)
(* A refresh reads a Jupiter position that liquidations move under it.     *)
(*                                                                         *)
(* The client (lib/client/lendmirror.ts) reads accounts one request at a   *)
(* time to learn which ones the program needs; the transaction then runs   *)
(* compute_position_snapshot on what those accounts hold by that time.     *)
(* The vault is not under src/: its actions are what the account fields    *)
(* the program reads, and the module comment of live_position.rs, say a    *)
(* vault does.  `home` and `left` are history: the branch that holds the   *)
(* position's debt, and the fraction of it that liquidations left.         *)
(***************************************************************************)
EXTENDS LivePosition, FiniteSets

CONSTANTS
    Ticks,        \* where positions may be opened
    Minima,       \* where a liquidation may stop
    Partials,     \* and how far through the tick, of FullPartials
    Fractions,    \* what it may leave of the debt, <<n, d>>
    Collateral,   \* of the position
    Dust,
    FirstId,      \* the ids the ticks have handed out at the start
    MaxBranches,  \* bound on the branches of the vault
    MaxGap,       \* bound on how far below the newest branch one is continued
    MaxSteps,     \* bound on the vault's operations
    ClientHops,   \* the client's loop, 32
    Missing       \* an account that does not exist

ASSUME RefreshAssumption ==
    /\ Ticks \cup Minima \subseteq (MinTick + 1)..MaxTick
    /\ Partials \subseteq 0..FullPartials
    /\ Fractions \subseteq (Nat \ {0}) \X (Nat \ {0})
    /\ {Collateral, Dust} \subseteq 0..MaxAmount
    /\ {FirstId, MaxBranches, MaxGap, MaxSteps, ClientHops} \subseteq Nat \ {0}

\* What does not exist is no account, and an Err is no snapshot.
ASSUME MissingAssumption ==
    /\ Missing \notin [status : Int, minima : Int, partials : Int, factor : DebtFactor,
                       connected : Int]
    /\ Missing \notin Int \X Int
    /\ Missing \notin [0..2 -> [full : BOOLEAN, branch : Int, factor : DebtFactor]]
    /\ Failed \notin [tick : Int, col : Int, debt : Int, branch : Int, dust : Int, net : Int,
                      stored : Int, liquidated : BOOLEAN, full : BOOLEAN]

VARIABLES
    position,  \* Position: tick, tickId, and whether it is supply-only
    tickAt,    \* Tick accounts
    flushed,   \* TickIdLiquidation accounts, by tick and group
    branch,    \* Branch accounts
    current,   \* the branch a liquidation works on
    home, left,
    steps,     \* vault operations so far
    pc,        \* the client's next request
    plan,      \* the accounts it has chosen
    moved,     \* history: the vault moved since the client began
    snapshot   \* wrapper.snapshot, or Missing

vault == <<position, tickAt, flushed, branch, current, home, left, steps>>

client == <<pc, plan>>

vars == <<vault, client, moved, snapshot>>

AllTicks == Ticks \cup {MinTick}

Branches == 1..MaxBranches

NoRecord == [full |-> FALSE, branch |-> 0, factor |-> [c |-> 0, e |-> 0]]

InitialFactor == [c |-> 2^(CoefficientBits - 1), e |-> ExponentBias]

NewBranch(base) ==
    [status |-> 0, minima |-> InitTick, partials |-> 0, factor |-> InitialFactor,
     connected |-> base]

NoPlan == [tick |-> MinTick, tickId |-> 0, supplyOnly |-> TRUE, liq |-> Missing,
           branches |-> {}, next |-> 0]

\* Where the vault writes the record of an id: three to an account.
VaultGroup(id) == (id + 2) \div 3

VaultSlot(id) == (id - 1) % 3

LiqAccounts == AllTicks \X (0..(FirstId + MaxSteps))

Init ==
    /\ \E t \in Ticks :
           position = [tick |-> t, tickId |-> FirstId, supplyOnly |-> FALSE]
    /\ tickAt = [t \in AllTicks |->
                    [liquidated |-> FALSE, record |-> NoRecord,
                     totalIds |-> IF t = MinTick THEN 0 ELSE FirstId]]
    /\ flushed = [a \in LiqAccounts |->
                    IF a[1] # MinTick /\ \E id \in 1..(FirstId - 1) : VaultGroup(id) = a[2]
                    THEN [s \in 0..2 |-> [NoRecord EXCEPT !.full = TRUE]]
                    ELSE Missing]
    /\ branch = [b \in Branches |-> IF b = 1 THEN NewBranch(0) ELSE Missing]
    /\ current = 1
    /\ home = 0
    /\ left = <<1, 1>>
    /\ steps = 0
    /\ pc = "position"
    /\ plan = NoPlan
    /\ moved = FALSE
    /\ snapshot = Missing
-----------------------------------------------------------------------------
(* The vault (external) *)

VaultMoves == steps < MaxSteps /\ steps' = steps + 1 /\ moved' = TRUE

Normal(c, e) ==
    LET top == 2^CoefficientBits
        up[k \in 0..CoefficientBits] == IF k = 0 THEN c ELSE up[k - 1] * 2
        k == CHOOSE k \in 0..CoefficientBits : up[k] \in (top \div 2)..(top - 1)
    IN  [c |-> up[k], e |-> e - k]

Scale(factor, fraction) == Normal((factor.c * fraction[1]) \div fraction[2], factor.e)

\* base / child, as the vault records it on the branch that merges, or every
\* bit set when it runs past the range.
Divide(base, child) ==
    LET q == (base.c * 2^CoefficientBits) \div child.c
        shift == IF q >= 2^CoefficientBits THEN 1 ELSE 0
        exponent == base.e - child.e + ExponentBias - CoefficientBits + shift
    IN  IF exponent > ExponentMax THEN MaxDebtFactor
        ELSE [c |-> q \div 2^shift, e |-> exponent]

\* A tick that was liquidated starts a new id, and its record is flushed.
Reopen(t) ==
    LET tick == tickAt[t]
        account == <<t, VaultGroup(tick.totalIds)>>
        slots == IF flushed[account] = Missing THEN [s \in 0..2 |-> NoRecord]
                 ELSE flushed[account]
    IN  IF tick.liquidated
        THEN /\ tickAt' = [tickAt EXCEPT ![t] = [liquidated |-> FALSE, record |-> NoRecord,
                                                 totalIds |-> tick.totalIds + 1]]
             /\ flushed' = [flushed EXCEPT ![account] =
                               [slots EXCEPT ![VaultSlot(tick.totalIds)] = tick.record]]
        ELSE UNCHANGED <<tickAt, flushed>>

\* Debt above what the current branch was liquidated down to opens the next
\* branch on top of it.
BranchFor(t) ==
    IF branch[current].status = 1 /\ t > branch[current].minima
    THEN \E new \in Branches :
             /\ \A b \in Branches : branch[b] = Missing <=> b >= new
             /\ new <= current + MaxGap
             /\ branch' = [branch EXCEPT ![new] = NewBranch(current)]
             /\ current' = new
    ELSE UNCHANGED <<branch, current>>

\* The owner's operation sets the position's tick anew.
Operate(t) ==
    /\ VaultMoves
    /\ Reopen(t)
    /\ BranchFor(t)
    /\ position' = [tick |-> t, tickId |-> tickAt'[t].totalIds, supplyOnly |-> FALSE]
    /\ home' = 0
    /\ left' = <<1, 1>>
    /\ UNCHANGED <<client, snapshot>>

Repay ==
    /\ VaultMoves
    /\ ~position.supplyOnly
    /\ position' = [tick |-> InitTick, tickId |-> 0, supplyOnly |-> TRUE]
    /\ home' = 0
    /\ left' = <<1, 1>>
    /\ UNCHANGED <<tickAt, flushed, branch, current, client, snapshot>>

OthersOperate(t) ==
    /\ VaultMoves
    /\ tickAt[t].liquidated
    /\ Reopen(t)
    /\ BranchFor(t)
    /\ UNCHANGED <<position, home, left, client, snapshot>>

Holds(t) == position.tick = t /\ position.tickId = tickAt[t].totalIds

Taken(ticks, record) ==
    tickAt' = [t \in AllTicks |->
                  IF t \in ticks THEN [tickAt[t] EXCEPT !.liquidated = TRUE, !.record = record]
                  ELSE tickAt[t]]

\* The ticks above the place where it stops join the branch at the factor of
\* before.  A branch that comes down to its base merges into it.  Factors
\* below the range, 2^-16384 of a debt, are left out.
Liquidate(fraction, minima, partials) ==
    LET b == branch[current]
        base == b.connected
        joins == {t \in Ticks : t > minima /\ ~tickAt[t].liquidated}
        here == (\E t \in joins : Holds(t)) \/ home = current
        factor == Scale(b.factor, fraction)
        merges == base # 0 /\ minima = branch[base].minima
        merged == IF merges THEN Divide(branch[base].factor, factor) ELSE factor
    IN  /\ VaultMoves
        /\ b.status = 0 => joins # {}
        /\ b.status = 1 => minima <= b.minima
        /\ base # 0 => minima >= branch[base].minima
        /\ {factor, merged} \subseteq DebtFactor
        /\ Taken(joins, [full |-> FALSE, branch |-> current, factor |-> b.factor])
        /\ branch' = [branch EXCEPT ![current] =
               IF merges
               THEN [@ EXCEPT !.status = BranchMerged, !.minima = minima,
                              !.factor = merged]
               ELSE [@ EXCEPT !.status = 1, !.minima = minima, !.partials = partials,
                              !.factor = factor]]
        /\ current' = IF merges THEN base ELSE current
        /\ left' = IF here THEN <<left[1] * fraction[1], left[2] * fraction[2]>> ELSE left
        /\ home' = IF ~here THEN home ELSE IF merges THEN base ELSE current
        /\ UNCHANGED <<position, flushed, client, snapshot>>

\* What is too deep to be sold is absorbed: the branch closes and the ticks
\* above are fully liquidated.
Absorb ==
    LET joins == {t \in Ticks : ~tickAt[t].liquidated}
        here == (\E t \in joins : Holds(t)) \/ home = current
        base == branch[current].connected
    IN  /\ VaultMoves
        /\ branch[current].status = 1
        /\ base # 0
        /\ Taken(joins, [NoRecord EXCEPT !.full = TRUE])
        /\ branch' = [branch EXCEPT ![current].status = BranchClosed]
        /\ current' = base
        /\ left' = IF here THEN <<0, 1>> ELSE left
        /\ UNCHANGED <<position, flushed, home, client, snapshot>>

Vault ==
    \/ \E t \in Ticks : Operate(t) \/ OthersOperate(t)
    \/ Repay
    \/ \E f \in Fractions, t \in Minima, p \in Partials : Liquidate(f, t, p)
    \/ Absorb
-----------------------------------------------------------------------------
(* The client: collectLivePositionAccounts *)

IsLiquidated(tick, tickId) == tick.liquidated \/ tick.totalIds > tickId

ClientTurns(label) == pc = label /\ UNCHANGED <<vault, snapshot>>

ReadPosition ==
    /\ ClientTurns("position")
    /\ plan' = [NoPlan EXCEPT !.tick = position.tick, !.tickId = position.tickId,
                              !.supplyOnly = position.supplyOnly]
    /\ pc' = IF position.supplyOnly THEN "submit" ELSE "tick"
    /\ moved' = FALSE

\* Follow the record, unless it says that nothing is left.
FollowRecord(record, next) ==
    /\ plan' = [next EXCEPT !.next = record.branch]
    /\ pc' = IF record.full THEN "submit" ELSE "walk"

ReadTick ==
    LET tick == tickAt[NormalizeTick(plan.tick)]
    IN  /\ ClientTurns("tick")
        /\ IF ~IsLiquidated(tick, plan.tickId) THEN pc' = "submit" /\ UNCHANGED plan
           ELSE IF tick.totalIds = plan.tickId THEN FollowRecord(tick.record, plan)
           ELSE pc' = "liq" /\ plan' = [plan EXCEPT !.next = tick.record.branch]
        /\ UNCHANGED moved

LiqOf(tick, tickId) == <<NormalizeTick(tick), GroupOf(tickId)>>

\* Mutant: the flushed record is followed but its account is not passed.
MutReadLiq ==
    LET account == LiqOf(plan.tick, plan.tickId)
    IN  /\ ClientTurns("liq")
        /\ IF flushed[account] = Missing THEN pc' = "walk" /\ UNCHANGED plan
           ELSE FollowRecord(flushed[account][SlotOf(plan.tickId)], plan)
        /\ UNCHANGED moved

ReadLiq ==
    LET account == LiqOf(plan.tick, plan.tickId)
    IN  /\ ClientTurns("liq")
        /\ IF flushed[account] = Missing THEN pc' = "walk" /\ UNCHANGED plan
           ELSE FollowRecord(flushed[account][SlotOf(plan.tickId)],
                             [plan EXCEPT !.liq = account])
        /\ UNCHANGED moved

\* Mutant: the branch a merged one points at is not followed.
MutReadBranch ==
    LET b == plan.next
        found == b \in Branches /\ branch[b] # Missing
    IN  /\ ClientTurns("walk")
        /\ pc' = "submit"
        /\ plan' = IF found THEN [plan EXCEPT !.branches = @ \cup {b}] ELSE plan
        /\ UNCHANGED moved

\* One turn of the loop over the chain; it stops at a branch already seen, at
\* a missing one, at one that is not merged and after ClientHops.
ReadBranch ==
    LET b == plan.next
        found == b \in Branches /\ b \notin plan.branches /\ branch[b] # Missing
        seen == plan.branches \cup {b}
    IN  /\ ClientTurns("walk")
        /\ IF found
           THEN /\ plan' = [plan EXCEPT !.branches = seen, !.next = branch[b].connected]
                /\ pc' = IF branch[b].status = BranchMerged /\ Cardinality(seen) < ClientHops
                         THEN "walk" ELSE "submit"
           ELSE pc' = "submit" /\ UNCHANGED plan
        /\ UNCHANGED moved
-----------------------------------------------------------------------------
(* The program: compute_position_snapshot *)

\* Mutant: the dust is subtracted without saturating.
MutSnapshot(live, stored, dust, liquidated, full) ==
    [tick |-> live.tick, col |-> live.col, debt |-> live.debt, branch |-> live.branch,
     dust |-> dust, net |-> live.debt - dust,
     stored |-> stored, liquidated |-> liquidated,
     full |-> full \/ (liquidated /\ live.col = 0 /\ live.debt = 0)]

Snapshot(live, stored, dust, liquidated, full) ==
    [tick |-> live.tick, col |-> live.col, debt |-> live.debt, branch |-> live.branch,
     dust |-> dust, net |-> IF live.debt > dust THEN live.debt - dust ELSE 0,
     stored |-> stored, liquidated |-> liquidated,
     full |-> full \/ (liquidated /\ live.col = 0 /\ live.debt = 0)]

NotLiquidated ==
    LET stored == IF position.supplyOnly THEN 0 ELSE DebtRawAtTick(position.tick, Collateral)
        live == [tick |-> NormalizeTick(position.tick), col |-> Collateral,
                 debt |-> stored, branch |-> 0]
    IN  IF stored = Failed THEN Failed ELSE Snapshot(live, stored, Dust, FALSE, FALSE)

\* With the accounts a client passed: a Tick, perhaps a TickIdLiquidation,
\* and some branches.
Compute(tickSeed, liq, ids) ==
    LET t == NormalizeTick(position.tick)
        tick == tickAt[t]
        stored == DebtRawAtTick(position.tick, Collateral)
        record == LiquidationRecord(position.tickId, tick, flushed[LiqOf(t, position.tickId)])
        passed == [b \in {i \in ids : branch[i] # Missing} |-> branch[b]]
        start == LiquidationDebtRawAtTick(position.tick, Collateral)
        live == WalkBranches(record.branch, record.factor, start, passed)
    IN  CASE NormalizeTick(tickSeed) # t -> Failed
          [] NormalizeTick(tickSeed) = t
                /\ (position.supplyOnly \/ ~IsLiquidated(tick, position.tickId)) -> NotLiquidated
          [] OTHER ->
                IF \/ stored = Failed
                   \/ liq \notin {Missing, LiqOf(t, position.tickId)}
                   \/ tick.totalIds # position.tickId /\ liq = Missing
                   \/ liq # Missing /\ flushed[liq] = Missing
                THEN Failed
                ELSE IF record.full
                     THEN Snapshot(NothingLeft(record.branch), stored, 0, TRUE, TRUE)
                     ELSE IF start = Failed THEN Failed
                          ELSE IF live = Failed THEN Failed
                               ELSE Snapshot(live, stored, Dust, TRUE, FALSE)

\* An error changes nothing; the client reads again at its next run.
Submit ==
    LET result == Compute(plan.tick, plan.liq, plan.branches)
    IN  /\ pc = "submit"
        /\ snapshot' = IF result = Failed THEN snapshot ELSE result
        /\ pc' = "position"
        /\ plan' = NoPlan
        /\ moved' = FALSE
        /\ UNCHANGED vault

Reads == ReadPosition \/ ReadTick \/ ReadLiq \/ ReadBranch

Next == Vault \/ Reads \/ Submit

\* Only Submit takes this step, and it can whenever the step can be taken.
Answered == pc = "submit" /\ pc' = "position"

\* The client is a command somebody runs again and again, and the network
\* answers it.  Nothing obliges the vault to move.
Spec == Init /\ [][Next]_vars /\ WF_vars(Reads) /\ WF_pc(Answered)
-----------------------------------------------------------------------------
(* Properties *)

\* The accounts and the client's plan keep their types: packed factors within
\* their bits, ids and branches within their bounds, amounts within a u64.
LiveTypeOK ==
    /\ position \in [tick : Ticks \cup {InitTick}, tickId : Nat, supplyOnly : BOOLEAN]
    /\ \A b \in Branches : branch[b] # Missing => branch[b].factor \in DebtFactor
    /\ \A t \in AllTicks : tickAt[t].record.factor \in DebtFactor
    /\ current \in Branches /\ home \in {0} \cup Branches
    /\ pc \in {"position", "tick", "liq", "walk", "submit"}
    /\ plan.branches \subseteq Branches
    /\ snapshot # Missing => {snapshot.col, snapshot.debt, snapshot.net} \subseteq 0..MaxAmount

\* What follows from the constants alone is looked at in the initial states.
AtStart == steps = 0 /\ pc = "position"

\* The ratios rise with the tick and agree with the spacing the walk assumes
\* (tick_math.rs 51-108, live_position.rs 229-230), a product of debt factors
\* keeps every bit a packed factor has room for (118-133), and the collateral
\* grows without a jump as a liquidation goes down through the ticks (225-237).
ArithmeticFits == AtStart => RatiosRise /\ ProductsStayPacked /\ CollateralIsContinuous

\* Every account is there for the asking.
Truth == Compute(position.tick,
                 IF flushed[LiqOf(position.tick, position.tickId)] = Missing THEN Missing
                 ELSE LiqOf(position.tick, position.tickId),
                 Branches)

\* What the position owed when its tick was set, and what is left of that.
Owed == IF position.supplyOnly THEN 0 ELSE DebtRawAtTick(position.tick, Collateral)

\* One unit and a rounding of 1 / 2^(CoefficientBits - 1) per factor read.
Tolerance == 3 + (Owed * (MaxBranches + 2)) \div 2^(CoefficientBits - 1)

IsLeft(s) == Near(s.debt, (Owed * left[1]) \div left[2], Tolerance)

\* A refresh that goes through stores what the history of liquidations leaves
\* of the debt, whatever the vault did between the client's reads and the
\* transaction, and the position counts as fully liquidated only when less
\* than that can be told from nothing (get_jupiter_position.rs 140-221).
StoresWhatIsLeft ==
    [][snapshot' # snapshot =>
          /\ IsLeft(snapshot')
          /\ snapshot'.full => (Owed * left[1]) \div left[2] <= Tolerance
          /\ ~snapshot'.full => snapshot'.col > 0]_vars

\* However liquidations, merges and re-opened ticks follow one another, the
\* program can work the position out when it is given every account: no
\* overflow, no missing record, no chain it gives up on
\* (live_position.rs 169-237).
AlwaysComputable == Truth # Failed

\* What the program reads of the position's liquidation.
Account == LiqOf(position.tick, position.tickId)

PositionTick == tickAt[NormalizeTick(position.tick)]

Liquidated == ~position.supplyOnly /\ IsLiquidated(PositionTick, position.tickId)

\* The record that the program needs was flushed to an account that is not there.
RecordLost == PositionTick.totalIds # position.tickId /\ flushed[Account] = Missing

Record == LiquidationRecord(position.tickId, PositionTick, flushed[Account])

Existing == {b \in Branches : branch[b] # Missing}

\* No branch at hand points at one that exists and was not collected.
Collected(ids) ==
    /\ ids \subseteq Existing
    /\ Record.branch \in Existing => Record.branch \in ids
    /\ \A b \in ids : (branch[b].status = BranchMerged /\ branch[b].connected \in Existing)
                          => branch[b].connected \in ids

\* A chain that the program has to walk has no more branches than the client's
\* loop has turns.  MAX_BRANCH_HOPS allows the program one branch more.
ClientReaches ==
    (Liquidated /\ ~RecordLost /\ ~Record.full) =>
        \E ids \in SUBSET Existing : Collected(ids) /\ Cardinality(ids) <= ClientHops

\* When the vault did not move while the client read, the accounts it chose
\* are all that the program asks for, but for a chain that the client's loop
\* does not reach the end of (lendmirror.ts 127-190: "the branch chain the
\* program will walk").
QuietPlanSuffices ==
    (pc = "submit" /\ ~moved /\ Truth # Failed /\ ClientReaches) =>
        Compute(plan.tick, plan.liq, plan.branches) = Truth

\* Somebody who keeps refreshing has the numbers of the present in the wrapper
\* once the vault rests, however many refreshes failed on the way, unless it
\* rests with a chain that is too long for the client.
EventuallyRefreshed ==
    <>[]ClientReaches => <>[](snapshot # Missing /\ snapshot = Truth)
=============================================================================
