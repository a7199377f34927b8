--------------------------- MODULE MCBridgeClient ---------------------------
(***************************************************************************)
(* An instance of BridgeClient for TLC.                                    *)
(***************************************************************************)
EXTENDS BridgeClient

CONSTANTS w1, p1, m1, c1, issuer, circle, ccip, treasury, stray

NoLists == {}
SomeLevels == {1}

OneIssuer == [m \in Mint |-> issuer]

Other == [a \in Address |-> IF a = treasury THEN stray ELSE treasury]

To(address) == [address |-> address, padded |-> TRUE]

Token(kind, dstEid, bps) ==
    [mint |-> m1, program |-> issuer, dstEid |-> dstEid, kind |-> kind,
     minUnderBps |-> bps, bare |-> TRUE]

Profile(address, tokens) ==
    [treasury |-> address, evmDomain |-> 3, router |-> ccip, selector |-> 5,
     lzTokens |-> tokens]

\* The token by way of each issuer.
TheProfiles ==
    {Profile(treasury, {Token("usdai", 1, 50)}), Profile(treasury, {Token("usdt0", 2, 3)}),
     Profile(treasury, {Token("standard-oft", 1, 0)})}

\* A route that no task wrote.
AdminForms ==
    {[provider |-> LzOft, program |-> issuer, to |-> To(stray), domain |-> 1,
      gas |-> 9, claimer |-> "anyone", enabled |-> TRUE, cap |-> 250]}

\* Others send nothing.
NoTransactions == {}

-----------------------------------------------------------------------------
(* The library the tasks are built on *)

Library == INSTANCE ClientCalls

\* What lib/client builds, the program (programs/lendmirror) takes as it was meant:
\* accounts in their places, addresses from the same seeds, arguments and stored
\* accounts in the same bytes, whatever changed after the client read the chain.  No
\* variable occurs in it: the first states are enough.
LibraryMatchesProgram == ClientInit => Library!ClientMatchesProgram
=============================================================================
