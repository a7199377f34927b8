------------------------------ MODULE Treasury ------------------------------
(***************************************************************************)
(* contracts/LendMirrorTreasury.sol: where bridged tokens land on an EVM   *)
(* chain, and the one way out, to the strategy that the owner set for the  *)
(* token.  ERC-20 balances are part of the state because forward empties   *)
(* them.                                                                   *)
(***************************************************************************)
EXTENDS Integers

CONSTANTS
    Token,
    Strategy,    \* addresses the owner sets as strategies
    NoStrategy   \* address(0)

VARIABLES
    strategy,      \* strategy[token]
    onLane,        \* ccipRouter and ccipSourceChainSelector are the right ones
    senderAllowed, \* ccipSenders[the Solana bridge signer]
    transmitter,   \* cctpMessageTransmitter: none, Circle's, or another one
    held,          \* balanceOf(treasury)
    paid           \* what each strategy was sent

treasuryConfig == <<strategy, onLane, senderAllowed, transmitter>>
treasuryVars == <<treasuryConfig, held, paid>>

TreasuryTypeOK ==
    /\ strategy \in [Token -> Strategy \cup {NoStrategy}]
    /\ onLane \in BOOLEAN
    /\ senderAllowed \in BOOLEAN
    /\ transmitter \in {"none", "circle", "other"}
    /\ held \in [Token -> Nat]
    /\ paid \in [Strategy \X Token -> Nat]

TreasuryInit ==
    /\ strategy = [t \in Token |-> NoStrategy]
    /\ onLane = FALSE
    /\ senderAllowed = FALSE
    /\ transmitter = "none"
    /\ held = [t \in Token |-> 0]
    /\ paid = [x \in Strategy \X Token |-> 0]

SetStrategy(t, s) ==
    /\ strategy' = [strategy EXCEPT ![t] = s]
    /\ UNCHANGED <<onLane, senderAllowed, transmitter, held, paid>>

\* setCcipRoute replaces router and selector and writes the entry of one
\* sender, which may be another one than the bridge signer.
SetLane(right, signer, allowed) ==
    /\ onLane' = right
    /\ senderAllowed' = IF signer THEN allowed ELSE senderAllowed
    /\ UNCHANGED <<strategy, transmitter, held, paid>>

SetTransmitter(x) ==
    /\ transmitter' = x
    /\ UNCHANGED <<strategy, onLane, senderAllowed, held, paid>>

\* ccipReceive reverts, and the transfer with it, unless router, selector and
\* sender fit.
CcipAccepts == onLane /\ senderAllowed

Credit(t, n) ==
    /\ held' = [held EXCEPT ![t] = @ + n]
    /\ UNCHANGED <<treasuryConfig, paid>>

\* claimCctp, which anyone may call.
ClaimCctp(t, n) ==
    /\ transmitter = "circle"
    /\ Credit(t, n)

\* Mutant: a unit stays behind.
MutPayable(t) == held[t] - 1

Payable(t) == held[t]

\* Mutant: the strategy is not looked at.
MutForwardable(t) == held[t] > 0

Forwardable(t) == strategy[t] # NoStrategy /\ held[t] > 0

\* forward, which anyone may call.
Forward(t) ==
    /\ Forwardable(t)
    /\ paid' = [paid EXCEPT ![<<strategy[t], t>>] = @ + Payable(t)]
    /\ held' = [held EXCEPT ![t] = @ - Payable(t)]
    /\ UNCHANGED treasuryConfig

OwnerAction ==
    \/ \E t \in Token, s \in Strategy \cup {NoStrategy} : SetStrategy(t, s)
    \/ \E right, signer, allowed \in BOOLEAN : SetLane(right, signer, allowed)
    \/ \E x \in {"circle", "other"} : SetTransmitter(x)
=============================================================================
