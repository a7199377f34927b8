---------------------------- MODULE LivePosition ----------------------------
(***************************************************************************)
(* What a Jupiter position is worth now (live_position.rs, tick_math.rs).  *)
(*                                                                         *)
(* A liquidation does not rewrite the positions of a tick: it is recorded  *)
(* on a branch, and branches merge into one another.  The operators here   *)
(* are the arithmetic that reads a position through that record.  They are *)
(* functions of the accounts passed in, and every width and table of the   *)
(* code is a constant, so that TLC can run them on small integers.         *)
(*                                                                         *)
(* A packed debt factor is [c, e]: c * 2^(e - ExponentBias), with c of     *)
(* CoefficientBits bits and e of ExponentBits bits.                        *)
(***************************************************************************)
EXTENDS Integers, Sequences

CONSTANTS
    CoefficientBits,  \* COEFFICIENT_BITS, 35
    ExponentBits,     \* EXPONENT_BITS, 15
    WideBits,         \* u128
    MaxAmount,        \* u64::MAX
    MaxBranchHops,    \* MAX_BRANCH_HOPS, 32
    MaxTick,          \* MAX_TICK, 16383
    InitTick,         \* INIT_TICK, below every tick
    OneBits,          \* the factor table is scaled to 2^64
    RatioShift,       \* and a ratio is a factor without its last 16 bits
    TickFactor,       \* FACTOR01 to FACTOR15: the factor of 2^(i-1) ticks
    TickSpacing,      \* TICK_SPACING, 10015 for FourDecimals, 10000
    FourDecimals,
    FullPartials,     \* X30
    Failed            \* an Err that aborts the transaction

ExponentBias == 2^(ExponentBits - 1)

ExponentMax == 2^ExponentBits - 1

MinTick == -MaxTick

ZeroTickRatio == 2^(OneBits - RatioShift)

ASSUME LiveAssumption ==
    /\ {CoefficientBits, ExponentBits, MaxAmount, MaxBranchHops, MaxTick} \subseteq Nat \ {0}
    /\ {OneBits, RatioShift, TickSpacing, FourDecimals, FullPartials} \subseteq Nat \ {0}
    /\ WideBits = 2 * OneBits
    /\ RatioShift < OneBits /\ 2 * CoefficientBits <= WideBits /\ ExponentBits < WideBits
    /\ FourDecimals < TickSpacing
    /\ InitTick \in Int /\ InitTick < MinTick
    /\ TickFactor \in Seq(1..2^OneBits)
    /\ MaxTick < 2^Len(TickFactor)

\* An Err is no Ok value: no number, factor, turn of the walk or position.
ASSUME FailedAssumption ==
    /\ Failed \notin Int
    /\ Failed \notin [c : Int, e : Int]
    /\ Failed \notin [id : Int, factor : [c : Int, e : Int], stop : BOOLEAN]
    /\ Failed \notin [tick : Int, col : Int, debt : Int, branch : Int]

\* Arithmetic that the provers do not know.
ASSUME PowersOfTwo == 2^0 = 1 /\ \A n \in 1..WideBits : 2^n = 2 * 2^(n - 1)

DebtFactor == [c : 0..(2^CoefficientBits - 1), e : 0..ExponentMax]

\* Every bit set: nothing is left.
MaxDebtFactor == [c |-> 2^CoefficientBits - 1, e |-> ExponentMax]

Wide(x) == x < 2^WideBits

-----------------------------------------------------------------------------
(* tick_math.rs *)

NormalizeTick(tick) == IF tick = InitTick THEN MinTick ELSE tick

\* Mutant: the table is read one entry late.
MutHasBit(n, i) == (n \div 2^i) % 2 = 1

\* The i-th bit of n, from 1.
HasBit(n, i) == (n \div 2^(i - 1)) % 2 = 1

\* The product of the table's factors over the bits of n.
FactorOf(n) ==
    LET product[i \in 0..Len(TickFactor)] ==
            CASE i = 0 -> 2^OneBits
              [] i > 0 /\ HasBit(n, i) -> (product[i - 1] * TickFactor[i]) \div 2^OneBits
              [] OTHER -> product[i - 1]
    IN  product[Len(TickFactor)]

\* Of the table: no tick's product is rounded down to nothing.
ASSUME TableAssumption == \A n \in 0..MaxTick : FactorOf(n) \in Nat \ {0}

\* The table holds the ratios below tick 0.  One above it is the inverse,
\* rounded up.
RatioAtTick(tick) ==
    LET inverse == (2^WideBits - 1) \div FactorOf(tick)
    IN  CASE tick \notin MinTick..MaxTick -> Failed
          [] tick \in 1..MaxTick -> inverse \div 2^RatioShift
                           + (IF inverse % 2^RatioShift = 0 THEN 0 ELSE 1)
          [] OTHER -> FactorOf(-tick) \div 2^RatioShift

\* ratio * col >> 48, which must fit a u64; MIN_TICK holds no debt.
DebtFor(tick, col, extra) ==
    LET t == NormalizeTick(tick)
        debt == (RatioAtTick(t) * col) \div ZeroTickRatio + extra
    IN  CASE t <= MinTick -> 0
          [] t > MinTick /\ (RatioAtTick(t) = Failed \/ debt > MaxAmount) -> Failed
          [] OTHER -> debt

DebtRawAtTick(tick, col) == DebtFor(tick, col, 0)

\* One more unit of collateral, and one more of debt.
LiquidationDebtRawAtTick(tick, col) == DebtFor(tick, col + 1, 1)
-----------------------------------------------------------------------------
(* Packed debt factors *)

\* Mutant: a product of full width is shifted like a shorter one.
MutMulShift(product) == CoefficientBits - 1

\* 70 bits lose 35, and 69 or fewer lose 34.
MulShift(product) ==
    IF product >= 2^(2 * CoefficientBits - 1) THEN CoefficientBits ELSE CoefficientBits - 1

MulDebtFactors(a, b) ==
    LET product == a.c * b.c
        exponent == a.e + b.e + MulShift(product) - ExponentBias
    IN  CASE exponent < 0 -> Failed
          [] exponent > ExponentMax -> MaxDebtFactor
          [] OTHER -> [c |-> product \div 2^MulShift(product), e |-> exponent]

IsZero(factor) == factor.c = 0 /\ factor.e = 0

\* amount * num / den.  A denominator that outgrows the wide integer exceeds
\* every numerator.
MulDivDebtFactors(amount, num, den) ==
    LET gap == den.e - num.e
        bottom == den.c * 2^gap
        quotient == (amount * num.c) \div bottom
    IN  CASE IsZero(num) \/ IsZero(den) -> 0
          [] ~IsZero(num) /\ ~IsZero(den) /\ gap < 0 -> Failed
          [] OTHER -> IF gap > WideBits THEN 0
                      ELSE IF bottom = 0 \/ ~Wide(bottom) THEN 0
                      ELSE IF quotient > MaxAmount THEN Failed ELSE quotient
-----------------------------------------------------------------------------
(* The branch walk *)

BranchMerged == 2
BranchClosed == 3

NothingLeft(id) == [tick |-> MinTick, col |-> 0, debt |-> 0, branch |-> id]

\* One turn of the loop on w = [id, factor, stop], over the branch accounts
\* at hand.  A saturated factor stops it on the merged branch.
Hop(w, branches) ==
    LET factor == MulDebtFactors(w.factor, branches[w.id].factor)
        next == branches[w.id].connected
    IN  CASE w.stop -> w
          [] ~w.stop /\ branches[w.id].status # BranchMerged -> [w EXCEPT !.stop = TRUE]
          [] OTHER -> IF factor = Failed THEN Failed
                      ELSE IF factor = MaxDebtFactor
                           THEN [w EXCEPT !.factor = factor, !.stop = TRUE]
                           ELSE IF next \notin DOMAIN branches THEN Failed
                                ELSE [id |-> next, factor |-> factor, stop |-> FALSE]

\* The loop, turn by turn: MaxBranchHops hops at most, and one turn more to
\* see that the last branch is not merged.
BranchTurns(start, factor, branches) ==
    LET turn[h \in 0..(MaxBranchHops + 1)] ==
            IF h = 0 THEN [id |-> start, factor |-> factor, stop |-> FALSE]
            ELSE LET w == turn[h - 1] IN IF w = Failed THEN Failed ELSE Hop(w, branches)
    IN  turn

\* A walk that the bound cut short is an Err.
Finished(last) == IF last = Failed THEN Failed ELSE IF last.stop THEN last ELSE Failed

\* Mutant: one hop less is allowed.
MutEndOfWalk(start, factor, branches) ==
    IF start \in DOMAIN branches
    THEN Finished(BranchTurns(start, factor, branches)[MaxBranchHops])
    ELSE Failed

EndOfWalk(start, factor, branches) ==
    IF start \in DOMAIN branches
    THEN Finished(BranchTurns(start, factor, branches)[MaxBranchHops + 1])
    ELSE Failed

\* Mutant: the two neighbouring ratios are swapped.
MutMinimaRatio(top, below, partials) == top - ((top - below) * partials) \div FullPartials

MinimaRatio(top, below, partials) == below + ((top - below) * partials) \div FullPartials

\* The branch stops partials / FullPartials of the way up to its lowest tick.
CollateralAtMinima(branch, debt) ==
    LET top == RatioAtTick(branch.minima)
        below == (top * FourDecimals) \div TickSpacing
        ratio == MinimaRatio(top, below, branch.partials)
        col == (debt * ZeroTickRatio) \div ratio
    IN  IF top = Failed THEN Failed
        ELSE IF \/ ~Wide(top * FourDecimals)
                \/ ~Wide((top - below) * branch.partials)
                \/ ratio = 0
                \/ ~Wide(debt * ZeroTickRatio)
                \/ col > MaxAmount
             THEN Failed ELSE col

\* Under 1% counts as wiped out; otherwise 0.01% is kept back.
KeptDebt(scaled, stored) ==
    IF scaled > stored \div 100 THEN (scaled * 9999) \div 10000 ELSE 0

WalkBranches(start, factor, stored, branches) ==
    LET w == EndOfWalk(start, factor, branches)
        branch == branches[w.id]
        scaled == MulDivDebtFactors(stored, branch.factor, w.factor)
        debt == KeptDebt(scaled, stored)
        col == CollateralAtMinima(branch, debt)
    IN  IF w = Failed THEN Failed
        ELSE IF branch.status = BranchClosed \/ w.factor = MaxDebtFactor THEN NothingLeft(w.id)
        ELSE IF scaled = Failed THEN Failed
        ELSE IF debt = 0 THEN NothingLeft(w.id)
        ELSE IF col = Failed THEN Failed
        ELSE [tick |-> branch.minima, col |-> col, debt |-> debt, branch |-> w.id]
-----------------------------------------------------------------------------
(* Liquidation records *)

\* Three ids share a TickIdLiquidation account.
GroupOf(tickId) == (tickId + 2) \div 3

\* Mutant: one slot off.
MutSlotOf(tickId) == (tickId + 1) % 3

SlotOf(tickId) == (tickId + 2) % 3

\* Mutant: a re-opened tick answers for the ids it flushed.
MutLiquidationRecord(tickId, tick, flushed) ==
    IF tick.totalIds = tickId \/ tick.liquidated THEN tick.record
    ELSE flushed[SlotOf(tickId)]

\* The tick keeps the record of its latest id; older ones are flushed.
LiquidationRecord(tickId, tick, flushed) ==
    IF tick.totalIds = tickId THEN tick.record ELSE flushed[SlotOf(tickId)]
-----------------------------------------------------------------------------
(* What the arithmetic promises, over bounded inputs *)

Near(m, n, tolerance) == m - n <= tolerance /\ n - m <= tolerance

\* The table's products rise with the tick, and agree with the spacing that
\* the branch walk assumes between two neighbours: one is a table of squared
\* factors, the other a quotient (tick_math.rs 51-108, live_position.rs 229-230).
RatiosRise ==
    \A t \in (MinTick + 1)..MaxTick :
        /\ RatioAtTick(t - 1) < RatioAtTick(t)
        /\ Near((RatioAtTick(t) * FourDecimals) \div TickSpacing, RatioAtTick(t - 1),
                1 + (2 * RatioAtTick(t)) \div ZeroTickRatio)

\* A product of normalised factors is normalised, and is the exact product cut
\* to CoefficientBits: a shift that is off by one loses a bit or a digit of
\* every later factor (live_position.rs 118-133).
ProductsStayPacked ==
    LET half == 2^(CoefficientBits - 1)
        sample == {c \in half..(2 * half - 1) : c % 37 = 0} \cup {half, 2 * half - 1}
    IN  \A a, b \in sample :
            LET product == MulDebtFactors([c |-> a, e |-> ExponentBias], [c |-> b, e |-> 0])
                unit == 2^product.e
            IN  /\ product.c \in half..(2 * half - 1)
                /\ product.c * unit <= a * b
                /\ a * b < (product.c + 1) * unit

\* As a liquidation goes down through a tick, the same debt is backed by more
\* collateral, never less, and the bottom of a tick is the top of the next
\* (live_position.rs 225-237).
CollateralIsContinuous ==
    \A t \in -3..3, debt \in {10, 25, 40} :
        LET col(tick, partials) ==
                CollateralAtMinima([minima |-> tick, partials |-> partials], debt)
        IN  /\ \A p \in 1..FullPartials : col(t, p) <= col(t, p - 1)
            /\ Near(col(t, 0), col(t - 1, FullPartials), 1 + col(t, 0) \div 32)
=============================================================================
