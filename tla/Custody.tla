------------------------------- MODULE Custody -------------------------------
(***************************************************************************)
(* Custody of position NFTs, the access level, and operating a position    *)
(* that is in custody (instructions/custody.rs, operate_position.rs,       *)
(* level_allows in state/wrapper.rs).                                      *)
(*                                                                         *)
(* The position itself, its NFT and the wrapper's token account are        *)
(* Jupiter's and the token program's: their actions are external and say   *)
(* what wallets can do around the program.  Amounts are small whole units  *)
(* of one token.                                                           *)
(***************************************************************************)
EXTENDS WrapperLevel

CONSTANTS
    Authority,   \* the wrapper authority PDA, as an NFT holder
    Legs,        \* the legs that calls to Jupiter are made of
    Payouts,     \* where the account lists that calls come with let Jupiter pay
    MaxUnits     \* bound on collateral, debt and tokens

\* A leg's signed fields.  None and Some(0) have the same effect and are 0.
LegField == {"new", "token0", "token1", "shares"}

Money == LegField \ {"shares"}

Call == [col : Legs, debt : Legs]

\* Every slot that Jupiter can pay tokens into.
PayoutSlot == {"user", "recipient"} \X {"col", "debt"} \X Money

\* What a caller chooses: a claim instead of a transfer, and slots that hold an
\* account of somebody else's.  The others are absent or the wrapper authority's.
\* (A recipient that is not the authority stands for its accounts.)
Payout == [claim : BOOLEAN, astray : SUBSET PayoutSlot]

ASSUME CustodyAssumption ==
    /\ Authority \notin Wallet \cup {NoWallet}
    /\ Legs \subseteq [LegField -> Int]
    /\ Payouts \subseteq Payout
    /\ MaxUnits \in Nat

VARIABLES
    custody,     \* PositionWrapper.custody
    nft,         \* who holds the position NFT; NoWallet before it is minted
    tokens,      \* the wrapper authority's token account
    collateral,  \* the position's collateral at Jupiter
    debt         \* the position's debt at Jupiter

fundVars == <<tokens, collateral, debt>>

custodyVars == <<accessVars, level, custody, nft, fundVars>>

Units == 0..MaxUnits

CustodyTypeOK ==
    /\ AccessTypeOK
    /\ LevelTypeOK
    /\ custody \in [Position -> BOOLEAN]
    /\ nft \in [Position -> Wallet \cup {NoWallet, Authority}]
    /\ tokens \in [Position -> Units]
    /\ collateral \in [Position -> Units]
    /\ debt \in [Position -> Units]

CustodyInit ==
    /\ AccessInit
    /\ LevelInit
    /\ custody = [p \in Position |-> FALSE]
    /\ nft = [p \in Position |-> NoWallet]
    /\ tokens = [p \in Position |-> 0]
    /\ collateral = [p \in Position |-> 0]
    /\ debt = [p \in Position |-> 0]

-----------------------------------------------------------------------------
(* The program *)

\* Wrapping does not check that the position exists.
Wrap(a, p) ==
    /\ WrapAtLevelZero(a, p)
    /\ custody' = [custody EXCEPT ![p] = FALSE]
    /\ UNCHANGED <<nft, fundVars>>

SetWrapperLevel(p, l) ==
    /\ StoreLevel(p, l)
    /\ UNCHANGED <<custody, nft, fundVars>>

\* Any holder may deposit and becomes the owner; the level stays.
DepositPositionNft(a, p) ==
    /\ ~custody[p]
    /\ nft[p] = a
    /\ TakeOwnership(a, p)
    /\ nft' = [nft EXCEPT ![p] = Authority]
    /\ custody' = [custody EXCEPT ![p] = TRUE]
    /\ UNCHANGED <<level, fundVars>>

\* Mutant: the flag survives the release.
MutClearCustody(p) == UNCHANGED custody

ClearCustody(p) == custody' = [custody EXCEPT ![p] = FALSE]

\* Signed by the admin, and the NFT goes to the owner only.
ReleasePositionNft(p) ==
    /\ custody[p]
    /\ nft[p] = Authority
    /\ nft' = [nft EXCEPT ![p] = owner[p]]
    /\ ClearCustody(p)
    /\ UNCHANGED <<accessVars, level, fundVars>>

\* Mutant: a smart leg is judged by its first token.
MutFirstToken(call) ==
    \/ \E f \in {"new", "token0", "shares"} : call.col[f] < 0
    \/ \E f \in {"new", "token0", "shares"} : call.debt[f] > 0

\* Any single field in the risky direction counts.
RaisesRisk(call) ==
    \/ \E f \in LegField : call.col[f] < 0
    \/ \E f \in LegField : call.debt[f] > 0

LevelAllows(l, risky) == l = 2 \/ (l = 1 /\ ~risky)

\* Neither snapshotters nor senders may operate.
MayOperate(a, p) == IsOwner(a, p) \/ IsOnDemandCaller(a, p)

\* Mutant: one slot is missing in the list of those that are looked at.
MutPayoutAllowed(payout) ==
    ~payout.claim /\ payout.astray \subseteq {<<"recipient", "debt", "token1">>}

\* A direct transfer, into accounts that are absent or the authority's.
PayoutAllowed(payout) == ~payout.claim /\ payout.astray = {}

Raised(leg) == Cardinality({f \in Money : leg[f] > 0})

Lowered(leg) == Cardinality({f \in Money : leg[f] < 0})

\* What Jupiter's operate_dex does to a position: every signed field moves
\* one unit and the share bound moves nothing.
MovePosition(p, call) ==
    /\ Lowered(call.col) <= collateral[p]
    /\ Lowered(call.debt) <= debt[p]
    /\ collateral' = [collateral EXCEPT ![p] = @ + Raised(call.col) - Lowered(call.col)]
    /\ debt' = [debt EXCEPT ![p] = @ + Raised(call.debt) - Lowered(call.debt)]
    /\ collateral'[p] <= MaxUnits
    /\ debt'[p] <= MaxUnits

PaidIn(call) == Raised(call.col) + Lowered(call.debt)

\* Which account of the two Jupiter pays into is its own choice.
Lands(side, payout) ==
    {f \in Money : ~payout.claim /\ payout.astray \cap ({"user", "recipient"} \X {side} \X {f}) = {}}

PaidOut(call, payout) ==
    Cardinality({f \in Lands("col", payout) : call.col[f] < 0})
    + Cardinality({f \in Lands("debt", payout) : call.debt[f] > 0})

\* Jupiter takes from the authority's token account and pays into the slots.
OperateDex(p, call, payout) ==
    /\ LevelAllows(level[p], RaisesRisk(call))
    /\ PayoutAllowed(payout)
    /\ PaidIn(call) <= tokens[p]
    /\ MovePosition(p, call)
    /\ tokens' = [tokens EXCEPT ![p] = @ - PaidIn(call) + PaidOut(call, payout)]
    /\ tokens'[p] <= MaxUnits
    /\ UNCHANGED <<accessVars, level, custody, nft>>

OperatePosition(a, p) ==
    /\ MayOperate(a, p)
    /\ custody[p]
    /\ nft[p] = Authority
    /\ \E call \in Call, payout \in Payouts : OperateDex(p, call, payout)

-----------------------------------------------------------------------------
(* Around the program *)

\* Jupiter mints the NFT to the wallet that opens the position.
OpenPosition(a, p) ==
    /\ nft[p] = NoWallet
    /\ nft' = [nft EXCEPT ![p] = a]
    /\ UNCHANGED <<accessVars, level, custody, fundVars>>

\* A plain token transfer: to another wallet, or straight into the account of
\* the wrapper authority without a deposit.
TransferNft(a, p, to) ==
    /\ nft[p] = a
    /\ nft' = [nft EXCEPT ![p] = to]
    /\ UNCHANGED <<accessVars, level, custody, fundVars>>

\* On jup.ag the holder operates the position with tokens of its own.
JupiterOperate(a, p, call) ==
    /\ nft[p] = a
    /\ MovePosition(p, call)
    /\ UNCHANGED <<accessVars, level, custody, nft, tokens>>

\* A liquidator repays debt and takes as much collateral.
Liquidate(p) ==
    /\ collateral[p] > 0
    /\ debt[p] > 0
    /\ collateral' = [collateral EXCEPT ![p] = @ - 1]
    /\ debt' = [debt EXCEPT ![p] = @ - 1]
    /\ UNCHANGED <<accessVars, level, custody, nft, tokens>>

\* Anyone may transfer tokens into the wrapper's account.
FundWrapper(p) ==
    /\ tokens[p] < MaxUnits
    /\ tokens' = [tokens EXCEPT ![p] = @ + 1]
    /\ UNCHANGED <<accessVars, level, custody, nft, collateral, debt>>

-----------------------------------------------------------------------------
Program ==
    \E p \in Position :
        \/ \E l \in Levels : SetWrapperLevel(p, l)
        \/ ReleasePositionNft(p)
        \/ \E a \in Wallet :
              \/ Wrap(a, p)
              \/ DepositPositionNft(a, p)
              \/ OperatePosition(a, p)

World ==
    \E p \in Position :
        \/ Liquidate(p)
        \/ FundWrapper(p)
        \/ \E a \in Wallet :
              \/ OpenPosition(a, p)
              \/ \E to \in Wallet \cup {Authority} : TransferNft(a, p, to)
              \/ \E call \in Call : JupiterOperate(a, p, call)

ChangeLists == ListChange /\ UNCHANGED <<level, custody, nft, fundVars>>

CustodyNext == Program \/ World \/ ChangeLists

CustodySpec == CustodyInit /\ [][CustodyNext]_custodyVars
-----------------------------------------------------------------------------
(* Properties *)

\* "The NFT lives in the associated token account of the wrapper AUTHORITY
\* PDA, never in a wallet, while wrapper.custody is true" (custody.rs).  It is
\* what makes the release transfer succeed.
CustodyMeansHeld ==
    \A p \in Position : custody[p] => nft[p] = Authority /\ Wrapped(p)

PlaceOf(p) ==
    IF nft[p] # Authority THEN [where |-> "wallet", of |-> nft[p]]
    ELSE IF custody[p] THEN [where |-> "escrow", of |-> owner[p]]
    ELSE [where |-> "stranded", of |-> NoWallet]

Place == [p \in Position |-> PlaceOf(p)]

Keep == INSTANCE Escrow
    WITH Item <- Position, Holder <- Wallet, Nobody <- NoWallet, place <- Place

\* "So the NFT always goes back to the wallet that put it in" (custody.rs):
\* whatever happens to owners, lists and levels meanwhile.  An NFT that was
\* transferred into the authority's account without a deposit never leaves.
ImplementsEscrow == Keep!EscrowSpec

\* "Level 1 can only lower the risk" (readme.md): while the NFT is in custody
\* and the level is not 2, no step of anyone adds debt, and only a liquidation,
\* which lowers the debt as well, takes collateral.
LevelBoundsRisk ==
    [][\A p \in Position :
          custody[p] /\ level[p] # 2 =>
             /\ debt'[p] <= debt[p]
             /\ collateral'[p] < collateral[p] => debt'[p] < debt[p]]_custodyVars

Worth(p) == tokens[p] + collateral[p] - debt[p]

\* "Jupiter can only pay into the program's accounts" (readme.md): while the
\* NFT is in custody, no step lowers what the wrapper is worth.  Bridging is
\* not a part of this module, and a liquidation is taken at its face value.
NothingLeaks ==
    [][\A p \in Position : custody[p] => Worth(p)' >= Worth(p)]_custodyVars
=============================================================================
