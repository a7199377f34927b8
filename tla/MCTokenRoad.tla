---------------------------- MODULE MCTokenRoad -----------------------------
(***************************************************************************)
(* Instances of TokenRoad for TLC: one wrapper, one token, routes of       *)
(* Circle and Chainlink to the treasury and of LayerZero elsewhere.        *)
(***************************************************************************)
EXTENDS TokenRoad

CONSTANTS w1, p1, m1, c1, prog, treasury, stray, s1

NoLists == {}
OneIssuer == [m \in Mint |-> prog]
HomeNumbers == <<1, 5, 2>>

To(address) == [address |-> address, padded |-> TRUE]

Route(provider, program, domain, gas, claimer, address) ==
    [provider |-> provider, program |-> program, to |-> To(address), domain |-> domain,
     gas |-> gas, claimer |-> claimer, enabled |-> TRUE, cap |-> 100]

\* A packet that only the treasury can claim, one that it must accept, and one
\* that goes elsewhere.
RoadForms ==
    {Route(Cctp, prog, 1, 0, "receiver", treasury), Route(Ccip, prog, 5, 1, "anyone", treasury),
     Route(LzOft, prog, 2, 9, "anyone", stray)}

ReleaseIt == [do |-> "release", top |-> TRUE, by |-> w1, from |-> p1, mint |-> m1,
              chain |-> c1, amount |-> 100]

SendIt ==
    [do |-> "send", program |-> prog, source |-> <<w1, m1>>, domain |-> 2,
     to |-> To(stray), amount |-> 100, min |-> 100, bare |-> TRUE]

RoadTransactions == {<<ReleaseIt, SendIt>>}
=============================================================================
