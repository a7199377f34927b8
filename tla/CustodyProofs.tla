---------------------------- MODULE CustodyProofs ----------------------------
(***************************************************************************)
(* TLAPS proofs about Custody, for every set of wallets, positions and     *)
(* levels, every combination of signed amounts and every bound on them.    *)
(***************************************************************************)
EXTENDS Custody, SharedProofs, FiniteSetTheorems, TLAPS

-----------------------------------------------------------------------------
(* Type correctness *)

USE AccessAssumption, LevelsAssumption, CustodyAssumption

LEMMA MoneyCounts ==
    ASSUME NEW some \in SUBSET Money PROVE Cardinality(some) \in Nat
<1>1. IsFiniteSet(Money)
  <2>1. Money = {"new"} \cup {"token0"} \cup {"token1"}
    BY DEF Money, LegField
  <2>2. IsFiniteSet({"new"})
    BY FS_Singleton
  <2>3. IsFiniteSet({"new"} \cup {"token0"})
    BY <2>2, FS_AddElement
  <2>4. IsFiniteSet({"new"} \cup {"token0"} \cup {"token1"})
    BY <2>3, FS_AddElement
  <2> QED BY <2>1, <2>4
<1> QED BY <1>1, FS_Subset, FS_CardinalityType

LEMMA LegCounts ==
    ASSUME NEW leg
    PROVE  Raised(leg) \in Nat /\ Lowered(leg) \in Nat
<1>1. {f \in Money : leg[f] > 0} \in SUBSET Money
      /\ {f \in Money : leg[f] < 0} \in SUBSET Money
  OBVIOUS
<1> QED BY <1>1, MoneyCounts DEF Raised, Lowered

LEMMA PaidOutType ==
    ASSUME NEW call, NEW payout PROVE PaidOut(call, payout) \in Nat
<1>1. {f \in Lands("col", payout) : call.col[f] < 0} \in SUBSET Money
      /\ {f \in Lands("debt", payout) : call.debt[f] > 0} \in SUBSET Money
  BY DEF Lands
<1> QED BY <1>1, MoneyCounts DEF PaidOut

\* A call that is let through pays everything into the wrapper's accounts.
LEMMA PaidHome ==
    ASSUME NEW call, NEW payout, PayoutAllowed(payout)
    PROVE  PaidOut(call, payout) = Lowered(call.col) + Raised(call.debt)
<1>1. \A side : Lands(side, payout) = Money
  BY DEF PayoutAllowed, Lands
<1> QED BY <1>1 DEF PaidOut, Lowered, Raised

\* Pointwise, what a call leaves of collateral and debt.
LEMMA MoveEffect ==
    ASSUME CustodyTypeOK, NEW p \in Position, NEW call, MovePosition(p, call)
    PROVE  /\ collateral' \in [Position -> Units] /\ debt' \in [Position -> Units]
           /\ collateral'[p] = collateral[p] + Raised(call.col) - Lowered(call.col)
           /\ debt'[p] = debt[p] + Raised(call.debt) - Lowered(call.debt)
           /\ \A q \in Position \ {p} : collateral'[q] = collateral[q] /\ debt'[q] = debt[q]
<1> DEFINE c == collateral[p] + Raised(call.col) - Lowered(call.col)
           d == debt[p] + Raised(call.debt) - Lowered(call.debt)
<1>1. /\ Raised(call.col) \in Nat /\ Lowered(call.col) \in Nat
      /\ Raised(call.debt) \in Nat /\ Lowered(call.debt) \in Nat
  BY LegCounts
<1>2. collateral' = [collateral EXCEPT ![p] = c] /\ debt' = [debt EXCEPT ![p] = d]
  BY DEF MovePosition
<1>3. collateral \in [Position -> Units] /\ debt \in [Position -> Units]
  BY DEF CustodyTypeOK
<1>4. collateral'[p] = c /\ debt'[p] = d
  BY <1>2, <1>3
<1>5. c \in Units /\ d \in Units
  BY <1>1, <1>3, <1>4 DEF MovePosition, Units
<1> QED BY <1>2, <1>3, <1>4, <1>5

\* An operation with the arguments that its caller chose.
Operated(a, p, call, payout) ==
    MayOperate(a, p) /\ custody[p] /\ nft[p] = Authority /\ OperateDex(p, call, payout)

LEMMA Operations ==
    ASSUME NEW a, NEW p, OperatePosition(a, p)
    PROVE  \E call \in Call, payout \in Payouts : Operated(a, p, call, payout)
  BY DEF OperatePosition, Operated

LEMMA CustodyTypeStep ==
    CustodyTypeOK /\ [CustodyNext]_custodyVars => CustodyTypeOK'
<1> SUFFICES ASSUME CustodyTypeOK, [CustodyNext]_custodyVars
             PROVE  CustodyTypeOK'
  OBVIOUS
<1> USE DEF CustodyTypeOK, LevelTypeOK
<1>1. CASE UNCHANGED custodyVars
  BY <1>1, AccessTyped DEF custodyVars, fundVars
<1>2. ASSUME NEW p \in Position, NEW l \in Levels, SetWrapperLevel(p, l)
      PROVE  CustodyTypeOK'
  BY <1>2, AccessTyped DEF SetWrapperLevel, StoreLevel, LevelStorable, LevelMax, fundVars
<1>3. ASSUME NEW p \in Position, ReleasePositionNft(p)
      PROVE  CustodyTypeOK'
  <2>1. AccessTypeOK'
    BY <1>3, AccessTyped DEF ReleasePositionNft
  <2>2. nft' \in [Position -> Wallet \cup {NoWallet, Authority}]
    BY <1>3 DEF ReleasePositionNft, AccessTypeOK
  <2> QED BY <1>3, <2>1, <2>2 DEF ReleasePositionNft, ClearCustody, fundVars
<1>4. ASSUME NEW p \in Position, NEW a \in Wallet, Wrap(a, p)
      PROVE  CustodyTypeOK'
  BY <1>4, AccessTyped DEF Wrap, WrapAtLevelZero, LevelMax, fundVars
<1>5. ASSUME NEW p \in Position, NEW a \in Wallet, DepositPositionNft(a, p)
      PROVE  CustodyTypeOK'
  <2>1. AccessTypeOK'
    BY <1>5, AccessTyped DEF DepositPositionNft, RoleChange
  <2> QED BY <1>5, <2>1 DEF DepositPositionNft, fundVars
<1>6. ASSUME NEW p \in Position, NEW a \in Wallet, NEW call \in Call,
             NEW payout \in Payouts, Operated(a, p, call, payout)
      PROVE  CustodyTypeOK'
  <2>1. AccessTypeOK' /\ MovePosition(p, call)
    BY <1>6, AccessTyped DEF Operated, OperateDex
  <2>2. collateral' \in [Position -> Units] /\ debt' \in [Position -> Units]
    BY <2>1, MoveEffect
  <2>3. PaidIn(call) \in Nat /\ PaidOut(call, payout) \in Nat
    BY LegCounts, PaidOutType DEF PaidIn
  <2>4. tokens' \in [Position -> Units]
    BY <1>6, <2>3 DEF Operated, OperateDex, Units
  <2> QED BY <1>6, <2>1, <2>2, <2>4 DEF Operated, OperateDex
<1>7. ASSUME NEW p \in Position, Liquidate(p) \/ FundWrapper(p)
      PROVE  CustodyTypeOK'
  BY <1>7, AccessTyped DEF Liquidate, FundWrapper, Units
<1>8. ASSUME NEW p \in Position, NEW a \in Wallet,
             \/ OpenPosition(a, p)
             \/ \E to \in Wallet \cup {Authority} : TransferNft(a, p, to)
      PROVE  CustodyTypeOK'
  BY <1>8, AccessTyped DEF OpenPosition, TransferNft, fundVars
<1>9. ASSUME NEW p \in Position, NEW a \in Wallet, NEW call \in Call,
             JupiterOperate(a, p, call)
      PROVE  CustodyTypeOK'
  BY <1>9, AccessTyped, MoveEffect DEF JupiterOperate
<1>10. CASE ChangeLists
  <2>1. AccessTypeOK'
    BY <1>10, AccessTyped DEF ChangeLists, RoleChange
  <2> QED BY <1>10, <2>1 DEF ChangeLists, fundVars
<1> QED BY <1>1, <1>2, <1>3, <1>4, <1>5, <1>6, <1>7, <1>8, <1>9, <1>10, Operations
        DEF CustodyNext, Program, World

\* Amounts never turn negative, levels never exceed LEVEL_MAX.
THEOREM CustodyTypeCorrect == CustodySpec => []CustodyTypeOK
<1>1. CustodyInit => CustodyTypeOK
  BY AccessTyped DEF CustodyInit, LevelInit, LevelTypeOK, CustodyTypeOK, Units, LevelMax
<1> QED BY <1>1, CustodyTypeStep, PTL DEF CustodySpec

-----------------------------------------------------------------------------
(* The NFT *)

CustodyInv == CustodyTypeOK /\ CustodyMeansHeld

\* The steps that touch neither an owner, a flag nor an NFT.
StillSteps ==
    \/ UNCHANGED custodyVars
    \/ ChangeLists
    \/ \E p \in Position :
          \/ \E l \in Levels : SetWrapperLevel(p, l)
          \/ Liquidate(p)
          \/ FundWrapper(p)
          \/ \E a \in Wallet :
                \/ OperatePosition(a, p)
                \/ \E call \in Call : JupiterOperate(a, p, call)

LEMMA StillEffect == StillSteps => UNCHANGED <<owner, custody, nft>>
<1>1. ChangeLists => UNCHANGED <<owner, custody, nft>>
  BY DEF ChangeLists, ListChange, SetSnapshotters, SetSenders, AttachOndemand,
         SetOndemandCallers
<1>2. UNCHANGED custodyVars => UNCHANGED <<owner, custody, nft>>
  BY DEF custodyVars, accessVars
<1>3. ASSUME NEW p \in Position,
             \/ \E l \in Levels : SetWrapperLevel(p, l)
             \/ Liquidate(p)
             \/ FundWrapper(p)
      PROVE  UNCHANGED <<owner, custody, nft>>
  BY <1>3 DEF SetWrapperLevel, StoreLevel, Liquidate, FundWrapper, accessVars
<1>4. ASSUME NEW p \in Position, NEW a \in Wallet,
             \/ OperatePosition(a, p)
             \/ \E call \in Call : JupiterOperate(a, p, call)
      PROVE  UNCHANGED <<owner, custody, nft>>
  BY <1>4 DEF OperatePosition, OperateDex, JupiterOperate, accessVars
<1> QED BY <1>1, <1>2, <1>3, <1>4 DEF StillSteps

\* The steps of CustodyNext, those that move an NFT or a flag one by one.
LEMMA CustodyCases ==
    ASSUME [CustodyNext]_custodyVars
    PROVE  \/ StillSteps
           \/ \E p \in Position :
                 \/ ReleasePositionNft(p)
                 \/ \E a \in Wallet :
                       \/ Wrap(a, p)
                       \/ DepositPositionNft(a, p)
                       \/ OpenPosition(a, p)
                       \/ \E to \in Wallet \cup {Authority} : TransferNft(a, p, to)
BY DEF StillSteps, CustodyNext, Program, World

LEMMA CustodyStep ==
    CustodyInv /\ [CustodyNext]_custodyVars => CustodyInv'
<1> SUFFICES ASSUME CustodyInv, [CustodyNext]_custodyVars
             PROVE  CustodyMeansHeld'
  BY CustodyTypeStep DEF CustodyInv
<1> USE DEF CustodyInv, CustodyTypeOK, AccessTypeOK, CustodyMeansHeld, Wrapped
<1>1. CASE StillSteps
  BY <1>1, StillEffect
<1>2. ASSUME NEW p \in Position, ReleasePositionNft(p)
      PROVE  CustodyMeansHeld'
  BY <1>2 DEF ReleasePositionNft, ClearCustody, accessVars
<1>3. ASSUME NEW p \in Position, NEW a \in Wallet, Wrap(a, p)
      PROVE  CustodyMeansHeld'
  BY <1>3 DEF Wrap, WrapAtLevelZero, WrapAccess
<1>4. ASSUME NEW p \in Position, NEW a \in Wallet, DepositPositionNft(a, p)
      PROVE  CustodyMeansHeld'
  BY <1>4 DEF DepositPositionNft, TakeOwnership
<1>5. ASSUME NEW p \in Position, NEW a \in Wallet,
             \/ OpenPosition(a, p)
             \/ \E to \in Wallet \cup {Authority} : TransferNft(a, p, to)
      PROVE  CustodyMeansHeld'
  BY <1>5 DEF OpenPosition, TransferNft, accessVars
<1> QED BY <1>1, <1>2, <1>3, <1>4, <1>5, CustodyCases

\* While the flag is set, the NFT is in the authority's account, so a release
\* can always be carried out.
THEOREM CustodyHolds == CustodySpec => []CustodyMeansHeld
<1>1. CustodyInit => CustodyInv
  BY AccessTyped DEF CustodyInit, LevelInit, LevelTypeOK, CustodyInv, CustodyTypeOK, CustodyMeansHeld, Units, LevelMax
<1>2. CustodyInv => CustodyMeansHeld
  BY DEF CustodyInv
<1> QED BY <1>1, <1>2, CustodyStep, PTL DEF CustodySpec

THEOREM CustodySafe == CustodySpec => []CustodyInv
<1>1. CustodyTypeOK /\ CustodyMeansHeld => CustodyInv
  BY DEF CustodyInv
<1> QED BY <1>1, CustodyTypeCorrect, CustodyHolds, PTL

-----------------------------------------------------------------------------
(* Refinement *)

LEMMA PlaceChange ==
    ASSUME NEW p \in Position,
           \A q \in Position \ {p} :
               owner'[q] = owner[q] /\ custody'[q] = custody[q] /\ nft'[q] = nft[q]
    PROVE  Place' = [Place EXCEPT ![p] = PlaceOf(p)']
<1>1. \A q \in Position : PlaceOf(q)' = IF q = p THEN PlaceOf(p)' ELSE PlaceOf(q)
  BY DEF PlaceOf
<1>2. Place' = [q \in Position |-> PlaceOf(q)'] /\ Place = [q \in Position |-> PlaceOf(q)]
  BY DEF Place
<1> HIDE DEF PlaceOf
<1> QED BY <1>1, <1>2

LEMMA EscrowStep ==
    CustodyInv /\ [CustodyNext]_custodyVars => Keep!EscrowNext \/ UNCHANGED Place
<1> SUFFICES ASSUME CustodyInv, [CustodyNext]_custodyVars
             PROVE  Keep!EscrowNext \/ UNCHANGED Place
  OBVIOUS
<1> USE DEF CustodyInv, CustodyTypeOK, AccessTypeOK
<1>0. \A p \in Position : Place[p] = PlaceOf(p)
  BY DEF Place
<1>1. CASE StillSteps
  <2>1. \A p \in Position : PlaceOf(p)' = PlaceOf(p)
    BY <1>1, StillEffect DEF PlaceOf
  <2> QED BY <2>1 DEF Place
<1>2. ASSUME NEW p \in Position, ReleasePositionNft(p)
      PROVE  Keep!EscrowNext
  <2>1. Place[p] = [where |-> "escrow", of |-> owner[p]]
    BY <1>0, <1>2 DEF ReleasePositionNft, PlaceOf
  <2>2. PlaceOf(p)' = [where |-> "wallet", of |-> owner[p]]
    BY <1>2 DEF ReleasePositionNft, PlaceOf
  <2>3. Place' = [Place EXCEPT ![p] = PlaceOf(p)']
    BY <1>2, PlaceChange DEF ReleasePositionNft, ClearCustody, accessVars
  <2>4. Keep!Return(p)
    BY <2>1, <2>2, <2>3 DEF Keep!Return
  <2> QED BY <2>4 DEF Keep!EscrowNext
<1>3. ASSUME NEW p \in Position, NEW a \in Wallet, Wrap(a, p)
      PROVE  UNCHANGED Place
  <2>1. PlaceOf(p)' = PlaceOf(p)
    BY <1>3 DEF Wrap, WrapAtLevelZero, WrapAccess, PlaceOf, CustodyMeansHeld
  <2>2. Place' = [Place EXCEPT ![p] = PlaceOf(p)']
    BY <1>3, PlaceChange DEF Wrap, WrapAtLevelZero, WrapAccess
  <2> QED BY <1>0, <2>1, <2>2 DEF Place
<1>4. ASSUME NEW p \in Position, NEW a \in Wallet, DepositPositionNft(a, p)
      PROVE  Keep!EscrowNext
  <2>1. Place[p] = [where |-> "wallet", of |-> a]
    BY <1>0, <1>4 DEF DepositPositionNft, PlaceOf
  <2>2. PlaceOf(p)' = [where |-> "escrow", of |-> a]
    BY <1>4 DEF DepositPositionNft, TakeOwnership, PlaceOf
  <2>3. Place' = [Place EXCEPT ![p] = PlaceOf(p)']
    BY <1>4, PlaceChange DEF DepositPositionNft, TakeOwnership
  <2>4. Keep!Lodge(p)
    BY <2>1, <2>2, <2>3 DEF Keep!Lodge, Keep!Wallets
  <2> QED BY <2>4 DEF Keep!EscrowNext
<1>5. ASSUME NEW p \in Position, NEW a \in Wallet, OpenPosition(a, p)
      PROVE  Keep!EscrowNext
  <2>1. Place[p] = [where |-> "wallet", of |-> NoWallet]
    BY <1>0, <1>5 DEF OpenPosition, PlaceOf
  <2>2. PlaceOf(p)' = [where |-> "wallet", of |-> a]
    BY <1>5 DEF OpenPosition, PlaceOf
  <2>3. Place' = [Place EXCEPT ![p] = PlaceOf(p)']
    BY <1>5, PlaceChange DEF OpenPosition, accessVars
  <2>4. Keep!Open(p, a)
    BY <2>1, <2>2, <2>3 DEF Keep!Open, Keep!Unopened
  <2> QED BY <2>4 DEF Keep!EscrowNext
<1>6. ASSUME NEW p \in Position, NEW a \in Wallet,
             NEW to \in Wallet \cup {Authority}, TransferNft(a, p, to)
      PROVE  Keep!EscrowNext
  <2>1. Place[p] = [where |-> "wallet", of |-> a] /\ ~custody[p]
    BY <1>0, <1>6 DEF TransferNft, PlaceOf, CustodyMeansHeld
  <2>2. Place' = [Place EXCEPT ![p] = PlaceOf(p)']
    BY <1>6, PlaceChange DEF TransferNft, accessVars
  <2>3. CASE to \in Wallet
    <3>1. PlaceOf(p)' = [where |-> "wallet", of |-> to]
      BY <1>6, <2>3 DEF TransferNft, PlaceOf
    <3>2. Keep!Give(p, to)
      BY <2>1, <2>2, <2>3, <3>1 DEF Keep!Give, Keep!Wallets
    <3> QED BY <2>3, <3>2 DEF Keep!EscrowNext
  <2>4. CASE to = Authority
    <3>1. PlaceOf(p)' = Keep!Stranded
      BY <1>6, <2>1, <2>4 DEF TransferNft, PlaceOf, Keep!Stranded
    <3>2. Keep!Strand(p)
      BY <2>1, <2>2, <3>1 DEF Keep!Strand, Keep!Wallets
    <3> QED BY <3>2 DEF Keep!EscrowNext
  <2> QED BY <2>3, <2>4
<1> QED BY <1>1, <1>2, <1>3, <1>4, <1>5, <1>6, CustodyCases

\* An NFT only ever leaves the program for the wallet that deposited it.
THEOREM NftReturnsToDepositor == CustodySpec => ImplementsEscrow
<1>1. CustodyInit => Keep!EscrowInit
  BY DEF CustodyInit, Place, PlaceOf, Keep!EscrowInit, Keep!Unopened
<1>2. CustodyInv /\ [CustodyNext]_custodyVars => [Keep!EscrowNext]_Place
  BY EscrowStep
<1> QED BY <1>1, <1>2, CustodySafe, PTL DEF CustodySpec, ImplementsEscrow, Keep!EscrowSpec

-----------------------------------------------------------------------------
(* Funds *)

LEMMA RiskFree ==
    ASSUME NEW call, ~RaisesRisk(call)
    PROVE  Lowered(call.col) = 0 /\ Raised(call.debt) = 0
<1>1. {f \in Money : call.col[f] < 0} = {} /\ {f \in Money : call.debt[f] > 0} = {}
  BY DEF RaisesRisk, Money
<1> QED BY <1>1, FS_EmptySet DEF Lowered, Raised

\* While the NFT is in custody only the program, liquidators and donors act
\* on the position and its tokens.
LEMMA FundSteps ==
    ASSUME CustodyInv, [CustodyNext]_custodyVars, NEW p \in Position, custody[p]
    PROVE  \/ UNCHANGED <<tokens[p], collateral[p], debt[p]>>
           \/ Liquidate(p)
           \/ FundWrapper(p)
           \/ \E a \in Wallet, call \in Call, payout \in Payouts :
                 Operated(a, p, call, payout)
<1> USE DEF CustodyInv, CustodyTypeOK
<1>1. ASSUME UNCHANGED fundVars
      PROVE  UNCHANGED <<tokens[p], collateral[p], debt[p]>>
  BY <1>1 DEF fundVars
<1>2. ASSUME NEW q \in Position, Liquidate(q) \/ FundWrapper(q)
      PROVE  \/ UNCHANGED <<tokens[p], collateral[p], debt[p]>>
             \/ Liquidate(p)
             \/ FundWrapper(p)
  BY <1>2 DEF Liquidate, FundWrapper
<1>3. ASSUME NEW q \in Position, NEW a \in Wallet, NEW call \in Call,
             NEW payout \in Payouts, Operated(a, q, call, payout), q # p
      PROVE  UNCHANGED <<tokens[p], collateral[p], debt[p]>>
  <2>1. tokens'[p] = tokens[p]
    BY <1>3 DEF Operated, OperateDex
  <2>2. collateral'[p] = collateral[p] /\ debt'[p] = debt[p]
    BY <1>3, MoveEffect DEF Operated, OperateDex
  <2> QED BY <2>1, <2>2
<1>4. ASSUME NEW q \in Position, NEW a \in Wallet, NEW call \in Call,
             JupiterOperate(a, q, call)
      PROVE  UNCHANGED <<tokens[p], collateral[p], debt[p]>>
  <2>1. q # p
    BY <1>4 DEF JupiterOperate, CustodyMeansHeld
  <2> QED BY <1>4, <2>1, MoveEffect DEF JupiterOperate
<1>5. ASSUME NEW q \in Position,
             \/ \E l \in Levels : SetWrapperLevel(q, l)
             \/ ReleasePositionNft(q)
             \/ \E a \in Wallet :
                   \/ Wrap(a, q)
                   \/ DepositPositionNft(a, q)
                   \/ OpenPosition(a, q)
                   \/ \E to \in Wallet \cup {Authority} : TransferNft(a, q, to)
      PROVE  UNCHANGED fundVars
  BY <1>5 DEF SetWrapperLevel, StoreLevel, ReleasePositionNft, Wrap, WrapAtLevelZero, DepositPositionNft,
              OpenPosition, TransferNft
<1>6. UNCHANGED custodyVars \/ ChangeLists => UNCHANGED fundVars
  BY DEF custodyVars, ChangeLists
<1>7. ASSUME Program
      PROVE  \/ UNCHANGED <<tokens[p], collateral[p], debt[p]>>
             \/ \E a \in Wallet, call \in Call, payout \in Payouts :
                   Operated(a, p, call, payout)
  <2>1. PICK q \in Position :
            \/ \E l \in Levels : SetWrapperLevel(q, l)
            \/ ReleasePositionNft(q)
            \/ \E a \in Wallet :
                  \/ Wrap(a, q)
                  \/ DepositPositionNft(a, q)
                  \/ \E call \in Call, payout \in Payouts :
                        Operated(a, q, call, payout)
    BY <1>7, Operations DEF Program
  <2>2. CASE \E a \in Wallet, call \in Call, payout \in Payouts :
                Operated(a, q, call, payout)
    <3>1. q \in Position
      BY <2>1
    <3>2. PICK a \in Wallet, call \in Call, payout \in Payouts :
              Operated(a, q, call, payout)
      BY <2>2
    <3>3. CASE q = p
      BY <3>2, <3>3
    <3>4. CASE q # p
      <4>1. UNCHANGED <<tokens[p], collateral[p], debt[p]>>
        BY ONLY <3>1, <3>2, <3>4, <1>3
      <4> QED BY <4>1
    <3> QED BY <3>3, <3>4
  <2>3. CASE ~\E a \in Wallet, call \in Call, payout \in Payouts :
                Operated(a, q, call, payout)
    <3>1. UNCHANGED fundVars
      BY <2>1, <2>3, <1>5
    <3> QED BY <3>1, <1>1
  <2> QED BY <2>2, <2>3
<1>8. ASSUME World
      PROVE  \/ UNCHANGED <<tokens[p], collateral[p], debt[p]>>
             \/ Liquidate(p)
             \/ FundWrapper(p)
  <2>1. PICK q \in Position :
            \/ Liquidate(q)
            \/ FundWrapper(q)
            \/ \E a \in Wallet :
                  \/ OpenPosition(a, q)
                  \/ \E to \in Wallet \cup {Authority} : TransferNft(a, q, to)
                  \/ \E call \in Call : JupiterOperate(a, q, call)
    BY <1>8 DEF World
  <2>2. CASE Liquidate(q) \/ FundWrapper(q)
    BY <2>1, <2>2, <1>2
  <2>3. CASE \E a \in Wallet, call \in Call : JupiterOperate(a, q, call)
    BY <2>1, <2>3, <1>4
  <2>4. CASE \E a \in Wallet :
                \/ OpenPosition(a, q)
                \/ \E to \in Wallet \cup {Authority} : TransferNft(a, q, to)
    <3>1. UNCHANGED fundVars
      BY <2>1, <2>4, <1>5
    <3> QED BY <3>1, <1>1
  <2> QED BY <2>1, <2>2, <2>3, <2>4
<1>9. CASE ChangeLists \/ UNCHANGED custodyVars
  BY <1>1, <1>6, <1>9
<1> QED BY <1>7, <1>8, <1>9 DEF CustodyNext

\* Below level 2 nobody adds debt to a position in custody or takes its
\* collateral, liquidators aside.
THEOREM LevelHolds == CustodySpec => LevelBoundsRisk
<1>1. ASSUME CustodyInv, [CustodyNext]_custodyVars, NEW p \in Position,
             custody[p], level[p] # 2
      PROVE  /\ debt'[p] <= debt[p]
             /\ collateral'[p] < collateral[p] => debt'[p] < debt[p]
  <2> USE DEF CustodyInv, CustodyTypeOK, LevelTypeOK, Units
  <2>1. CASE UNCHANGED <<tokens[p], collateral[p], debt[p]>>
    BY <1>1, <2>1
  <2>2. CASE Liquidate(p) \/ FundWrapper(p)
    BY <1>1, <2>2 DEF Liquidate, FundWrapper
  <2>3. ASSUME NEW a \in Wallet, NEW call \in Call, NEW payout \in Payouts,
               Operated(a, p, call, payout)
        PROVE  debt'[p] <= debt[p] /\ collateral'[p] >= collateral[p]
    <3>0. collateral[p] \in Nat /\ debt[p] \in Nat
      BY <1>1
    <3>1. ~RaisesRisk(call)
      BY <1>1, <2>3 DEF Operated, OperateDex, LevelAllows
    <3>2. /\ Lowered(call.col) = 0 /\ Raised(call.debt) = 0
          /\ Raised(call.col) \in Nat /\ Lowered(call.debt) \in Nat
      BY <3>1, RiskFree, LegCounts
    <3>3. MovePosition(p, call)
      BY <2>3 DEF Operated, OperateDex
    <3>4. /\ collateral'[p] = collateral[p] + Raised(call.col) - Lowered(call.col)
          /\ debt'[p] = debt[p] + Raised(call.debt) - Lowered(call.debt)
      BY <1>1, <3>3, MoveEffect
    <3> QED BY <3>0, <3>2, <3>4
  <2>4. /\ debt[p] \in Nat /\ debt'[p] \in Nat
        /\ collateral[p] \in Nat /\ collateral'[p] \in Nat
    BY <1>1, CustodyTypeStep
  <2> QED BY <1>1, <2>1, <2>2, <2>3, <2>4, FundSteps
<1>2. CustodyInv /\ [CustodyNext]_custodyVars =>
        \A p \in Position :
          custody[p] /\ level[p] # 2 =>
             /\ debt'[p] <= debt[p]
             /\ collateral'[p] < collateral[p] => debt'[p] < debt[p]
  BY <1>1
<1> QED BY <1>2, CustodySafe, PTL DEF CustodySpec, LevelBoundsRisk

\* Whatever Jupiter takes from a wrapper in custody it pays back into the
\* position or the wrapper's own account.
THEOREM FundsStay == CustodySpec => NothingLeaks
<1>1. ASSUME CustodyInv, [CustodyNext]_custodyVars, NEW p \in Position, custody[p]
      PROVE  Worth(p)' >= Worth(p)
  <2> USE DEF CustodyInv, CustodyTypeOK, LevelTypeOK, Units, Worth
  <2>1. CASE UNCHANGED <<tokens[p], collateral[p], debt[p]>>
    BY <1>1, <2>1
  <2>2. CASE Liquidate(p) \/ FundWrapper(p)
    BY <1>1, <2>2 DEF Liquidate, FundWrapper
  <2>3. ASSUME NEW a \in Wallet, NEW call \in Call, NEW payout \in Payouts,
               Operated(a, p, call, payout)
        PROVE  Worth(p)' >= Worth(p)
    <3>1. MovePosition(p, call) /\ PaidOut(call, payout) = Lowered(call.col) + Raised(call.debt)
      BY <2>3, PaidHome DEF Operated, OperateDex
    <3>2. /\ collateral'[p] = collateral[p] + Raised(call.col) - Lowered(call.col)
          /\ debt'[p] = debt[p] + Raised(call.debt) - Lowered(call.debt)
      BY <1>1, <3>1, MoveEffect
    <3>3. tokens'[p] = tokens[p] - (Raised(call.col) + Lowered(call.debt))
                         + (Lowered(call.col) + Raised(call.debt))
      BY <1>1, <2>3, <3>1 DEF Operated, OperateDex, PaidIn
    <3>4. /\ Raised(call.col) \in Nat /\ Lowered(call.col) \in Nat
          /\ Raised(call.debt) \in Nat /\ Lowered(call.debt) \in Nat
          /\ collateral[p] \in Nat /\ debt[p] \in Nat /\ tokens[p] \in Nat
      BY <1>1, LegCounts
    <3> QED BY <3>2, <3>3, <3>4
  <2> QED BY <1>1, <2>1, <2>2, <2>3, FundSteps
<1>2. CustodyInv /\ [CustodyNext]_custodyVars =>
        \A p \in Position : custody[p] => Worth(p)' >= Worth(p)
  BY <1>1
<1> QED BY <1>2, CustodySafe, PTL DEF CustodySpec, NothingLeaks
=============================================================================
