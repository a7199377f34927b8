----------------------------- MODULE TokenRoad ------------------------------
(***************************************************************************)
(* Tokens from a wrapper to a strategy: Bridge, the three token networks   *)
(* and the Treasury of one EVM chain.  The networks are external: each     *)
(* delivers a packet once, when it likes, and takes a fee of at most what  *)
(* the packet allows.                                                      *)
(***************************************************************************)
EXTENDS Bridge, Treasury

CONSTANTS
    TreasuryAddress,
    Home           \* per provider, its number for the treasury's chain

ASSUME RoadAssumption ==
    /\ Token = Mint
    /\ IsFiniteSet(Strategy) /\ NoStrategy \notin Strategy
    /\ TreasuryAddress \in Address
    /\ Home \in [1..3 -> Nat]

VARIABLE
    arrived        \* the packets delivered, with the amount that was credited

roadVars == <<bridgeVars, treasuryVars, arrived>>

RoadTypeOK ==
    /\ BridgeTypeOK
    /\ TreasuryTypeOK
    /\ DOMAIN arrived \subseteq 1..Len(sent)
    /\ \A i \in DOMAIN arrived : arrived[i] \in sent[i].least..sent[i].amount

RoadInit ==
    /\ BridgeInit
    /\ TreasuryInit
    /\ arrived = <<>>

\* Packets of a transaction that may still roll back do not exist yet.
OnTheWay == 1..Len(Settled.sent) \ DOMAIN arrived

ForTreasury(s) == s.to.address = TreasuryAddress /\ s.domain = Home[s.provider]

Delivered(i, n) ==
    /\ arrived' = [j \in DOMAIN arrived \cup {i} |-> IF j = i THEN n ELSE arrived[j]]
    /\ UNCHANGED bridgeVars

\* A relayer finishes a Circle transfer; Chainlink's router transfers the
\* tokens and calls ccipReceive if the message has gas for it; an issuer's
\* contract mints.
Deliver(i, n) ==
    /\ ForTreasury(sent[i])
    /\ sent[i].provider = Cctp => sent[i].claimer = "anyone"
    /\ sent[i].calls => CcipAccepts
    /\ Delivered(i, n)
    /\ Credit(sent[i].mint, n)

\* Only the treasury can finish the transfer.
Claim(i, n) ==
    /\ ForTreasury(sent[i])
    /\ sent[i].provider = Cctp
    /\ Delivered(i, n)
    /\ ClaimCctp(sent[i].mint, n)

DeliverElsewhere(i, n) ==
    /\ ~ForTreasury(sent[i])
    /\ Delivered(i, n)
    /\ UNCHANGED treasuryVars

Arrive(i) ==
    \E n \in sent[i].least..sent[i].amount :
        Deliver(i, n) \/ Claim(i, n) \/ DeliverElsewhere(i, n)

RoadNext ==
    \/ BridgeNext /\ UNCHANGED <<treasuryVars, arrived>>
    \/ OwnerAction /\ UNCHANGED <<bridgeVars, arrived>>
    \/ \E m \in Mint : Forward(m) /\ UNCHANGED <<bridgeVars, arrived>>
    \/ \E i \in OnTheWay : Arrive(i)

RoadSpec == RoadInit /\ [][RoadNext]_roadVars

\* Networks deliver what they can, and among all who may call claimCctp and
\* forward there is somebody who does.
RoadFairness ==
    /\ \A i \in 1..MaxSent : WF_roadVars(i \in OnTheWay /\ Arrive(i))
    /\ \A m \in Mint : WF_roadVars(Forward(m) /\ UNCHANGED <<bridgeVars, arrived>>)

FairRoadSpec == RoadSpec /\ RoadFairness

-----------------------------------------------------------------------------
(* Properties *)

\* "The treasury pays out only to owner-set strategies" (readme.md), all of it
\* and nothing else: what arrived is in the treasury or at a strategy, through
\* every change of strategy between arrival and forward.
TreasuryBooks ==
    \A m \in Mint :
        held[m] + SumFunction([s \in Strategy |-> paid[<<s, m>>]])
          = SumFunctionOnSet(arrived,
                {i \in DOMAIN arrived : sent[i].mint = m /\ ForTreasury(sent[i])})

\* The treasury stays set up for a token from some time on.
StaysOpen(m) ==
    <>[](CcipAccepts /\ transmitter = "circle" /\ strategy[m] # NoStrategy)

\* Whatever a settled packet carried to the treasury reaches a strategy, if
\* the owner leaves the lanes and the token's strategy in place, even when it
\* arrived before they were.
EventuallyForwarded ==
    \A m \in Mint, i \in 1..MaxSent :
        StaysOpen(m) =>
            ((i \in 1..Len(Settled.sent) /\ sent[i].mint = m /\ ForTreasury(sent[i]))
                ~> (i \in DOMAIN arrived /\ held[m] = 0))
=============================================================================
