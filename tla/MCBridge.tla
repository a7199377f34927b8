------------------------------ MODULE MCBridge ------------------------------
(***************************************************************************)
(* Instances of Bridge for TLC.                                            *)
(***************************************************************************)
EXTENDS Bridge

CONSTANTS w1, w2, p1, p2, m1, m2, c1, issuer, circle, ccipA, ccipB, treasury, stray

NoLists == {}
SomeLevels == {1}
BothLevels == {0, 2, 3}

OneIssuer == [m \in Mint |-> issuer]

To(address) == [address |-> address, padded |-> TRUE]

Route(provider, program, domain, gas, cap) ==
    [provider |-> provider, program |-> program, to |-> To(treasury),
     domain |-> domain, gas |-> gas, claimer |-> "anyone",
     enabled |-> TRUE, cap |-> cap]

LzRoute == Route(LzOft, issuer, 1, 9, 200)

LzForms == {LzRoute, [LzRoute EXCEPT !.enabled = FALSE]}

CctpRoute == Route(Cctp, circle, 1, 0, 200)
CcipRoute == Route(Ccip, ccipA, 5, 0, 200)

\* Two routes of each kind that can be stored, and the forms that cannot be:
\* a chain number over u32, no slot, a foreign or missing receiver, a provider
\* that no instruction implements.
CallForms ==
    {CctpRoute, CcipRoute,
     [CctpRoute EXCEPT !.claimer = "receiver", !.cap = 100],
     [CcipRoute EXCEPT !.program = ccipB, !.gas = 1],
     [CctpRoute EXCEPT !.domain = 5],
     [CcipRoute EXCEPT !.to.padded = FALSE],
     [CcipRoute EXCEPT !.to.address = ZeroAddress],
     [LzRoute EXCEPT !.gas = 0],
     [LzRoute EXCEPT !.provider = 4]}

ReleaseOf(p, top) ==
    [do |-> "release", top |-> top, by |-> w1, from |-> p, mint |-> m1,
     chain |-> c1, amount |-> 200]

Releases == {ReleaseOf(p1, top) : top \in BOOLEAN}

GoodSend == [do |-> "send", program |-> issuer, source |-> <<w1, m1>>, domain |-> 1,
             to |-> To(treasury), amount |-> 200, min |-> 199, bare |-> TRUE]

\* The exact send, and sends that are wrong in one respect.
Sends ==
    {GoodSend,
     [GoodSend EXCEPT !.amount = 100, !.min = 100],
     [GoodSend EXCEPT !.min = 0],
     [GoodSend EXCEPT !.to = To(stray)],
     [GoodSend EXCEPT !.source = <<w2, m1>>]}

Pays == {[do |-> "pay", from |-> w1, to |-> w2, mint |-> m1, amount |-> 200]}

Upto(n, S) == UNION {[1..k -> S] : k \in 1..n}

HasRelease(t) == \E i \in DOMAIN t : t[i].do = "release"

\* A release of each wrapper, with a send behind each or behind both.
Pairs ==
    LET r == ReleaseOf(p1, TRUE)
        q == ReleaseOf(p2, TRUE)
    IN  {<<r, GoodSend, q, GoodSend>>, <<q, GoodSend, r, GoodSend>>, <<r, q, GoodSend>>}

LzTransactions == {t \in Upto(3, Releases \cup Sends \cup Pays) : HasRelease(t)} \cup Pairs

\* The second wrapper takes part in those alone, while the roles stand still and
\* the other accounts are empty.
LzBound ==
    IF Wrapped(p2)
    THEN /\ tx \in Pairs \cup {<<>>}
         /\ owner = [p \in Position |-> w1]
         /\ attached = {}
         /\ Idle => \A x \in Wallet \cup {BridgeSigner} : bal[<<x, m1>>] = 0
    ELSE Len(sent) <= 1

NoTransactions == {}
=============================================================================
