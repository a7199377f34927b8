--------------------------- MODULE TokenRoadProofs ---------------------------
(***************************************************************************)
(* TLAPS proofs about TokenRoad, for every set of tokens, strategies,      *)
(* routes and transactions; the road keeps what the bridges promise.       *)
(***************************************************************************)
EXTENDS TokenRoad, BridgeProofs

-----------------------------------------------------------------------------
(* What is settled stays settled *)

\* A running transaction has only appended to what was sent when it began.
Extends(s, t) == Len(s) <= Len(t) /\ \A i \in 1..Len(s) : t[i] = s[i]

TxAppends == ~Idle => Extends(before.sent, sent)

\* No bridge step, a roll-back included, takes back a packet that the networks
\* could already have delivered.
LEMMA SettledGrows ==
    ASSUME BridgeTypeOK, TxAppends, [BridgeNext]_bridgeVars
    PROVE  TxAppends' /\ Extends(Settled.sent, Settled.sent')
<1>1. sent \in Seq(Packet) /\ before.sent \in Seq(Packet)
  BY DEF BridgeTypeOK
<1>2. Extends(sent, sent) /\ Extends(before.sent, before.sent)
  BY <1>1 DEF Extends
<1>3. \A x : Extends(sent, Append(sent, x))
  BY <1>1 DEF Extends
<1>4. CASE UNCHANGED <<ledger, txVars>>
  BY <1>2, <1>4 DEF ledger, txVars, TxAppends, Settled, Idle
<1>5. CASE Idle /\ UNCHANGED txVars /\ \E x : sent' = Append(sent, x)
  BY <1>3, <1>5 DEF TxAppends, Settled, Idle, txVars
<1>6. CASE Idle /\ UNCHANGED <<sent, txVars>>
  BY <1>2, <1>6 DEF TxAppends, Settled, Idle, txVars
<1>7. CASE ~Idle /\ UNCHANGED <<tx, before>> /\ (UNCHANGED sent \/ \E x : sent' = Append(sent, x))
  <2>1. Extends(before.sent, sent)
    BY <1>7 DEF TxAppends
  <2>2. CASE UNCHANGED sent
    BY <1>2, <1>7, <2>1, <2>2 DEF TxAppends, Settled, Idle
  <2>3. ASSUME NEW x, sent' = Append(sent, x)
        PROVE  Extends(before.sent, sent')
    <3>1. /\ Len(sent') = Len(sent) + 1 /\ Len(sent) \in Nat /\ Len(before.sent) \in Nat
          /\ \A i \in 1..Len(sent) : sent'[i] = sent[i]
      BY <1>1, <2>3
    <3> QED BY <2>1, <3>1 DEF Extends
  <2> QED BY <1>2, <1>7, <2>2, <2>3 DEF TxAppends, Settled, Idle
<1>8. ASSUME NEW t \in Transactions, Begin(t)
      PROVE  TxAppends' /\ Extends(Settled.sent, Settled.sent')
  BY <1>2, <1>8 DEF Begin, ledger, TxAppends, Settled, Idle
<1>9. CASE Commit
  BY <1>2, <1>9 DEF Commit, EndTx, ledger, TxAppends, Settled, Idle
<1>10. CASE RollBack
  BY <1>2, <1>10 DEF RollBack, EndTx, TxAppends, Settled, Idle
<1>11. CallBridge => Idle /\ UNCHANGED txVars /\ \E x : sent' = Append(sent, x)
  <2>1. ASSUME NEW a \in Wallet, NEW p \in Position, NEW m \in Mint, NEW c \in Chain,
               NEW n \in Amounts, NEW fee \in Fees, BridgeTokensCctp(a, p, m, c, n, fee)
        PROVE  Idle /\ UNCHANGED txVars /\ \E x : sent' = Append(sent, x)
    BY <2>1, Zenon DEF BridgeTokensCctp, BridgeCommon
  <2>2. ASSUME NEW a \in Wallet, NEW p \in Position, NEW m \in Mint, NEW c \in Chain,
               NEW n \in Amounts, BridgeTokensCcip(a, p, m, c, n)
        PROVE  Idle /\ UNCHANGED txVars /\ \E x : sent' = Append(sent, x)
    BY <2>2, Zenon DEF BridgeTokensCcip, BridgeCommon
  <2> QED BY <2>1, <2>2 DEF CallBridge
<1>12. BridgeTokensLz \/ Transfer \/ (\E dust \in Dust : IssuerSend(dust))
         => ~Idle /\ UNCHANGED <<tx, before>> /\ (UNCHANGED sent \/ \E x : sent' = Append(sent, x))
  <2>1. \A kind : Running(kind) => ~Idle
    BY DEF Running, Idle
  <2> QED BY <2>1 DEF BridgeTokensLz, Transfer, IssuerSend, Proceed
<1>13. (\E x \in Account, n \in Amounts : Fund(x, n)) => Idle /\ UNCHANGED <<sent, txVars>>
  BY DEF Fund
<1>14. Settings => UNCHANGED <<ledger, txVars>>
  BY DEF Settings, ChangeRoles, Wrap, SetWrapperLevel, SetBridgeRoute, SetCcipRoute
<1>15. UNCHANGED bridgeVars => UNCHANGED <<ledger, txVars>>
  BY DEF bridgeVars
<1> QED BY <1>4, <1>5, <1>6, <1>7, <1>8, <1>9, <1>10, <1>11, <1>12, <1>13, <1>14, <1>15
        DEF BridgeNext, RunTx

-----------------------------------------------------------------------------
(* The inductive invariant *)

\* The networks deliver settled packets only, and no more than they carry.
ArrivedSettled ==
    /\ DOMAIN arrived \subseteq 1..Len(Settled.sent)
    /\ \A i \in DOMAIN arrived :
          arrived[i] \in Settled.sent[i].least..Settled.sent[i].amount

RoadInv ==
    /\ BridgeTypeOK
    /\ TreasuryTypeOK
    /\ TxAppends
    /\ ArrivedSettled

LEMMA RoadInvTypes == RoadInv => RoadTypeOK
<1> SUFFICES ASSUME RoadInv PROVE RoadTypeOK
  OBVIOUS
<1>1. sent \in Seq(Packet) /\ before.sent \in Seq(Packet)
  BY DEF RoadInv, BridgeTypeOK
<1>2. Extends(Settled.sent, sent)
  BY <1>1 DEF RoadInv, TxAppends, Settled, Extends
<1>3. Settled.sent \in Seq(Packet)
  BY <1>1 DEF Settled
<1>4. Len(sent) \in Nat /\ Len(Settled.sent) \in Nat
  BY <1>1, <1>3
<1> QED BY <1>2, <1>4 DEF RoadInv, RoadTypeOK, ArrivedSettled, Extends

LEMMA RoadInitial == RoadInit => RoadInv
<1> SUFFICES ASSUME RoadInit PROVE RoadInv
  OBVIOUS
<1>1. BridgeTypeOK
  BY BridgeInitTyped DEF RoadInit
<1>2. TreasuryTypeOK
  BY DEF RoadInit, TreasuryInit, TreasuryTypeOK
<1>3. TxAppends
  BY DEF RoadInit, BridgeInit, TxAppends, Idle
<1>4. ArrivedSettled
  BY DEF RoadInit, ArrivedSettled
<1> QED BY <1>1, <1>2, <1>3, <1>4 DEF RoadInv

LEMMA OwnerTyped == TreasuryTypeOK /\ OwnerAction => TreasuryTypeOK'
BY DEF TreasuryTypeOK, OwnerAction, SetStrategy, SetLane, SetTransmitter

LEMMA CreditTyped ==
    ASSUME TreasuryTypeOK, NEW t \in Token, NEW n \in Nat, Credit(t, n)
    PROVE  TreasuryTypeOK'
BY DEF TreasuryTypeOK, Credit, treasuryConfig

LEMMA ForwardTyped ==
    ASSUME TreasuryTypeOK, NEW t \in Token, Forward(t)
    PROVE  TreasuryTypeOK'
<1>1. strategy[t] \in Strategy
  BY DEF TreasuryTypeOK, Forward, Forwardable
<1>2. held[t] \in Nat
  BY DEF TreasuryTypeOK
<1>3. paid' \in [Strategy \X Token -> Nat] /\ held' \in [Token -> Nat]
  BY <1>1, <1>2 DEF TreasuryTypeOK, Forward, Payable
<1> QED BY <1>3 DEF TreasuryTypeOK, Forward, treasuryConfig

\* A delivery credits between the least and the whole amount of the packet.
LEMMA ArrivalKeepsInv ==
    ASSUME RoadInv, NEW i \in OnTheWay, Arrive(i)
    PROVE  RoadInv'
<1>1. PICK n \in sent[i].least..sent[i].amount :
         Deliver(i, n) \/ Claim(i, n) \/ DeliverElsewhere(i, n)
  BY DEF Arrive
<1>2. sent \in Seq(Packet) /\ before.sent \in Seq(Packet)
  BY DEF RoadInv, BridgeTypeOK
<1>3. Settled.sent \in Seq(Packet) /\ Extends(Settled.sent, sent)
  BY <1>2 DEF RoadInv, TxAppends, Settled, Extends
<1>4. i \in 1..Len(Settled.sent) /\ sent[i] = Settled.sent[i] /\ sent[i] \in Packet
  BY <1>3 DEF OnTheWay, Extends
<1>5. n \in Nat /\ sent[i].mint \in Token
  BY <1>1, <1>4, RoadAssumption DEF Packet
<1>6. Delivered(i, n)
  BY <1>1 DEF Deliver, Claim, DeliverElsewhere
<1>7. UNCHANGED bridgeVars
  BY <1>6 DEF Delivered
<1>8. BridgeTypeOK' /\ TxAppends' /\ Settled' = Settled
  <2>1. BridgeTypeOK'
    BY <1>7, StepTyped, NextIsAny DEF RoadInv
  <2>2. UNCHANGED <<bal, sent, tx, before>>
    BY <1>7 DEF bridgeVars, ledger, txVars
  <2> QED BY <2>1, <2>2 DEF RoadInv, TxAppends, Settled, Idle
<1>9. TreasuryTypeOK'
  <2>1. CASE Credit(sent[i].mint, n)
    BY <1>5, <2>1, CreditTyped DEF RoadInv
  <2>2. CASE UNCHANGED treasuryVars
    BY <2>2 DEF RoadInv, TreasuryTypeOK, treasuryVars, treasuryConfig
  <2> QED BY <1>1, <2>1, <2>2 DEF Deliver, Claim, ClaimCctp, DeliverElsewhere
<1>10. ArrivedSettled'
  <2>1. /\ DOMAIN arrived' = DOMAIN arrived \cup {i}
        /\ \A j \in DOMAIN arrived' : arrived'[j] = IF j = i THEN n ELSE arrived[j]
    BY <1>6 DEF Delivered
  <2>2. ArrivedSettled
    BY DEF RoadInv
  <2> QED BY <1>1, <1>4, <1>8, <2>1, <2>2 DEF ArrivedSettled
<1> QED BY <1>8, <1>9, <1>10 DEF RoadInv

\* Where the ledger grows, what has arrived stays right.
LEMMA BridgeKeepsArrived ==
    ASSUME RoadInv, [BridgeNext]_bridgeVars, UNCHANGED arrived
    PROVE  BridgeTypeOK' /\ TxAppends' /\ ArrivedSettled'
<1>1. BridgeTypeOK'
  BY StepTyped, NextIsAny DEF RoadInv
<1>2. TxAppends' /\ Extends(Settled.sent, Settled.sent')
  BY SettledGrows DEF RoadInv
<1>3. Settled.sent \in Seq(Packet)
  BY DEF RoadInv, BridgeTypeOK, Settled
<1>4. Settled.sent' \in Seq(Packet)
  BY <1>1 DEF BridgeTypeOK, Settled
<1>5. ArrivedSettled'
  BY <1>2, <1>3, <1>4 DEF RoadInv, ArrivedSettled, Extends
<1> QED BY <1>1, <1>2, <1>5

LEMMA RoadStep == RoadInv /\ [RoadNext]_roadVars => RoadInv'
<1> SUFFICES ASSUME RoadInv, [RoadNext]_roadVars PROVE RoadInv'
  OBVIOUS
<1>1. CASE BridgeNext /\ UNCHANGED <<treasuryVars, arrived>>
  <2>1. TreasuryTypeOK'
    BY <1>1 DEF RoadInv, TreasuryTypeOK, treasuryVars, treasuryConfig
  <2> QED BY <1>1, <2>1, BridgeKeepsArrived DEF RoadInv
<1>2. CASE OwnerAction /\ UNCHANGED <<bridgeVars, arrived>>
  BY <1>2, OwnerTyped, BridgeKeepsArrived DEF RoadInv
<1>3. ASSUME NEW m \in Mint, Forward(m), UNCHANGED <<bridgeVars, arrived>>
      PROVE  RoadInv'
  <2>1. TreasuryTypeOK'
    BY <1>3, ForwardTyped, RoadAssumption DEF RoadInv
  <2> QED BY <1>3, <2>1, BridgeKeepsArrived DEF RoadInv
<1>4. CASE \E i \in OnTheWay : Arrive(i)
  BY <1>4, ArrivalKeepsInv
<1>5. CASE UNCHANGED roadVars
  <2>1. UNCHANGED <<bridgeVars, treasuryVars, arrived>>
    BY <1>5 DEF roadVars
  <2>2. TreasuryTypeOK'
    BY <2>1 DEF RoadInv, TreasuryTypeOK, treasuryVars, treasuryConfig
  <2> QED BY <2>1, <2>2, BridgeKeepsArrived DEF RoadInv
<1> QED BY <1>1, <1>2, <1>3, <1>4, <1>5 DEF RoadNext

\* Nothing arrives that was not settled on Solana, however transactions roll
\* back, and every arrival is within what its packet allows.
THEOREM RoadTypeCorrect == RoadSpec => []RoadTypeOK
BY RoadInitial, RoadStep, RoadInvTypes, PTL DEF RoadSpec

-----------------------------------------------------------------------------
(* The treasury's books *)

\* What arrived for token m, read off a list of packets.
Arrivals(s, m) == {i \in DOMAIN arrived : s[i].mint = m /\ ForTreasury(s[i])}

Books(s) ==
    \A m \in Mint :
        held[m] + SumFunctionOnSet([st \in Strategy |-> paid[<<st, m>>]], Strategy)
          = SumFunctionOnSet(arrived, Arrivals(s, m))

\* The books are kept over settled packets: a packet of a running transaction
\* is not in them, and a roll-back takes none out.
BooksInv == RoadInv /\ Books(Settled.sent)

\* Two lists that agree on what arrived give the same books.
LEMMA SameArrivals ==
    ASSUME NEW s, NEW t, \A i \in DOMAIN arrived : s[i] = t[i]
    PROVE  Books(s) <=> Books(t)
<1>1. \A m \in Mint : Arrivals(s, m) = Arrivals(t, m)
  BY DEF Arrivals
<1> QED BY <1>1 DEF Books

LEMMA BooksAreBooks ==
    /\ Books(sent) <=> TreasuryBooks
    /\ BooksInv => TreasuryBooks
<1>1. Books(sent) <=> TreasuryBooks
  <2>1. \A m \in Mint : SumFunction([st \in Strategy |-> paid[<<st, m>>]])
                         = SumFunctionOnSet([st \in Strategy |-> paid[<<st, m>>]], Strategy)
    BY DEF SumFunction
  <2> QED BY <2>1 DEF Books, TreasuryBooks, Arrivals
<1>2. ASSUME BooksInv PROVE TreasuryBooks
  <2>1. Settled.sent \in Seq(Packet) /\ Extends(Settled.sent, sent)
    BY <1>2 DEF BooksInv, RoadInv, BridgeTypeOK, TxAppends, Settled, Extends
  <2>2. \A i \in DOMAIN arrived : sent[i] = Settled.sent[i]
    BY <1>2, <2>1 DEF BooksInv, RoadInv, ArrivedSettled, Extends
  <2>3. Books(sent) <=> Books(Settled.sent)
    BY <2>2, SameArrivals
  <2> QED BY <1>1, <1>2, <2>3 DEF BooksInv
<1> QED BY <1>1, <1>2

\* Only finitely many packets have arrived, each with a whole amount.
LEMMA ArrivedFinite ==
    ASSUME RoadInv
    PROVE  /\ IsFiniteSet(DOMAIN arrived)
           /\ \A i \in DOMAIN arrived : arrived[i] \in Int
<1>1. Settled.sent \in Seq(Packet)
  BY DEF RoadInv, BridgeTypeOK, Settled
<1>2. Len(Settled.sent) \in Int /\ DOMAIN arrived \subseteq 1..Len(Settled.sent)
  BY <1>1 DEF RoadInv, ArrivedSettled
<1>3. IsFiniteSet(1..Len(Settled.sent))
  BY <1>2, FS_Interval
<1>4. \A i \in DOMAIN arrived : arrived[i] \in Int
  BY DEF RoadInv, ArrivedSettled
<1> QED BY <1>2, <1>3, <1>4, FS_Subset

\* Steps that move nothing in the treasury keep the books: a settled packet
\* stays where it is in the list.
LEMMA QuietKeepsBooks ==
    ASSUME BooksInv, [BridgeNext]_bridgeVars, UNCHANGED <<held, paid, arrived>>
    PROVE  Books(Settled.sent)'
<1>1. Extends(Settled.sent, Settled.sent')
  BY SettledGrows DEF BooksInv, RoadInv
<1>2. Settled.sent \in Seq(Packet)
  BY DEF BooksInv, RoadInv, BridgeTypeOK, Settled
<1>3. \A i \in DOMAIN arrived : Settled.sent[i] = Settled.sent'[i]
  BY <1>1, <1>2 DEF BooksInv, RoadInv, ArrivedSettled, Extends
<1>4. Books(Settled.sent')
  BY <1>3, SameArrivals DEF BooksInv
<1>5. \A m \in Mint : Arrivals(Settled.sent, m)' = Arrivals(Settled.sent', m)
  BY DEF Arrivals, ForTreasury
<1> QED BY <1>4, <1>5 DEF Books

\* forward moves all that is held for the token to one strategy.
LEMMA ForwardKeepsBooks ==
    ASSUME BooksInv, NEW t \in Mint, Forward(t), UNCHANGED <<bridgeVars, arrived>>
    PROVE  Books(Settled.sent)'
<1> DEFINE f(m) == [st \in Strategy |-> paid[<<st, m>>]]
           g(m) == [st \in Strategy |-> paid'[<<st, m>>]]
           to == strategy[t]
<1>1. TreasuryTypeOK /\ Books(Settled.sent)
  BY DEF BooksInv, RoadInv
<1>2. to \in Strategy /\ held[t] \in Nat
  BY <1>1, RoadAssumption DEF TreasuryTypeOK, Forward, Forwardable
<1>3. Settled' = Settled /\ (\A m \in Mint : Arrivals(Settled.sent, m)' = Arrivals(Settled.sent, m))
  BY DEF bridgeVars, ledger, txVars, Settled, Idle, Arrivals, ForTreasury
<1>4. \A m \in Mint : \A st \in Strategy : f(m)[st] \in Int /\ g(m)[st] \in Int
  <2>1. TreasuryTypeOK'
    BY <1>1, ForwardTyped, RoadAssumption
  <2> QED BY <1>1, <2>1, RoadAssumption DEF TreasuryTypeOK
<1>5. held'[t] = 0 /\ (\A m \in Mint \ {t} : held'[m] = held[m])
  BY <1>1, <1>2, RoadAssumption DEF TreasuryTypeOK, Forward, Payable
<1>6. /\ g(t)[to] = f(t)[to] + held[t]
      /\ \A st \in Strategy \ {to} : g(t)[st] = f(t)[st]
      /\ \A m \in Mint \ {t} : g(m) = f(m)
  BY <1>1, <1>2, RoadAssumption DEF TreasuryTypeOK, Forward, Payable
<1> HIDE DEF f, g, to
<1>7. SumFunctionOnSet(g(t), Strategy) = SumFunctionOnSet(f(t), Strategy) + (g(t)[to] - f(t)[to])
  BY <1>2, <1>4, <1>6, RoadAssumption, SumChange
<1>8. SumFunctionOnSet(f(t), Strategy) \in Int
  BY <1>4, RoadAssumption, SumInt
<1>9. f(t)[to] \in Int
  BY <1>2, <1>4
<1>10. SumFunctionOnSet(g(t), Strategy) = SumFunctionOnSet(f(t), Strategy) + held[t]
  BY <1>2, <1>6, <1>7, <1>8, <1>9
<1>11. \A m \in Mint : held'[m] + SumFunctionOnSet(g(m), Strategy)
                         = held[m] + SumFunctionOnSet(f(m), Strategy)
  BY <1>2, <1>5, <1>6, <1>8, <1>10
<1>12. \A m \in Mint : held[m] + SumFunctionOnSet(f(m), Strategy)
                         = SumFunctionOnSet(arrived, Arrivals(Settled.sent, m))
  BY <1>1 DEF Books, f
<1> QED BY <1>3, <1>11, <1>12 DEF Books, g

\* An arrival is booked once, for its own token, and only if it is for the
\* treasury.
LEMMA ArrivalKeepsBooks ==
    ASSUME BooksInv, NEW i \in OnTheWay, Arrive(i)
    PROVE  Books(Settled.sent)'
<1>1. PICK n \in sent[i].least..sent[i].amount :
         Deliver(i, n) \/ Claim(i, n) \/ DeliverElsewhere(i, n)
  BY DEF Arrive
<1>2. Settled.sent \in Seq(Packet) /\ Extends(Settled.sent, sent)
  BY DEF BooksInv, RoadInv, BridgeTypeOK, TxAppends, Settled, Extends
<1>3. i \in 1..Len(Settled.sent) /\ i \notin DOMAIN arrived /\ sent[i] = Settled.sent[i]
  BY <1>2 DEF OnTheWay, Extends
<1>4. Delivered(i, n)
  BY <1>1 DEF Deliver, Claim, DeliverElsewhere
<1>5. Settled' = Settled
  BY <1>4 DEF Delivered, bridgeVars, ledger, txVars, Settled, Idle
<1>6. /\ DOMAIN arrived' = DOMAIN arrived \cup {i} /\ arrived'[i] = n
      /\ \A j \in DOMAIN arrived : arrived'[j] = arrived[j]
  BY <1>3, <1>4 DEF Delivered
<1>7. RoadInv' /\ Books(Settled.sent) /\ TreasuryTypeOK
  BY ArrivalKeepsInv DEF BooksInv, RoadInv
<1>8. /\ IsFiniteSet(DOMAIN arrived') /\ IsFiniteSet(DOMAIN arrived)
      /\ \A j \in DOMAIN arrived' : arrived'[j] \in Int
      /\ \A j \in DOMAIN arrived : arrived[j] \in Int
  <2>1. \A j \in DOMAIN arrived' : arrived'[j] \in Int
    BY <1>7 DEF RoadInv, ArrivedSettled
  <2>2. \A j \in DOMAIN arrived : arrived[j] \in Int
    BY ArrivedFinite DEF BooksInv
  <2>3. IsFiniteSet(DOMAIN arrived) /\ IsFiniteSet(DOMAIN arrived \cup {i})
    BY ArrivedFinite, FS_AddElement DEF BooksInv
  <2> QED BY <1>6, <2>1, <2>2, <2>3
<1> DEFINE here(m) == Settled.sent[i].mint = m /\ ForTreasury(Settled.sent[i])
<1>9. ASSUME NEW m \in Mint
      PROVE  SumFunctionOnSet(arrived', Arrivals(Settled.sent, m)')
               = SumFunctionOnSet(arrived, Arrivals(Settled.sent, m)) + (IF here(m) THEN n ELSE 0)
  <2> DEFINE A == Arrivals(Settled.sent, m)
  <2>1. A \subseteq DOMAIN arrived /\ i \notin A
    BY <1>3 DEF Arrivals
  <2>2. Arrivals(Settled.sent, m)' = IF here(m) THEN A \cup {i} ELSE A
    BY <1>5, <1>6 DEF Arrivals, ForTreasury
  <2>3. IsFiniteSet(A) /\ A \in SUBSET DOMAIN arrived' /\ i \in DOMAIN arrived'
    BY <1>6, <1>8, <2>1, FS_Subset
  <2>4. \A j \in A : arrived[j] \in Int /\ arrived'[j] = arrived[j]
    BY <1>6, <1>8, <2>1
  <2> HIDE DEF A
  <2>5. SumFunctionOnSet(arrived, A) = SumFunctionOnSet(arrived', A)
    BY <2>3, <2>4, SumSame
  <2>6. SumFunctionOnSet(arrived', A) \in Int /\ n \in Int
    BY <1>6, <1>8, <2>3, SumInt
  <2>7. SumFunctionOnSet(arrived', A \cup {i}) = n + SumFunctionOnSet(arrived', A)
    BY <1>6, <1>8, <2>1, <2>3, SumAdd
  <2>8. CASE here(m)
    BY <2>2, <2>5, <2>6, <2>7, <2>8 DEF A
  <2>9. CASE ~here(m)
    BY <2>2, <2>5, <2>6, <2>9 DEF A
  <2> QED BY <2>8, <2>9
<1>10. \A m \in Mint : held'[m] = held[m] + (IF here(m) THEN n ELSE 0)
  <2>1. CASE ForTreasury(sent[i]) /\ Credit(sent[i].mint, n)
    <3>1. sent[i] \in Packet
      BY <1>2, <1>3
    <3>2. sent[i].mint \in Mint
      BY <3>1 DEF Packet
    <3> QED BY <1>3, <1>6, <1>7, <1>8, <2>1, <3>2, RoadAssumption DEF Credit, TreasuryTypeOK
  <2>2. CASE ~ForTreasury(sent[i]) /\ UNCHANGED treasuryVars
    BY <1>3, <1>7, <2>2, RoadAssumption DEF treasuryVars, TreasuryTypeOK
  <2> QED BY <1>1, <2>1, <2>2 DEF Deliver, Claim, ClaimCctp, DeliverElsewhere
<1>11. UNCHANGED paid
  BY <1>1 DEF Deliver, Claim, ClaimCctp, DeliverElsewhere, Credit, treasuryVars
<1>12. ASSUME NEW m \in Mint
       PROVE  held'[m] + SumFunctionOnSet([st \in Strategy |-> paid'[<<st, m>>]], Strategy)
                = SumFunctionOnSet(arrived', Arrivals(Settled.sent, m)')
  <2> DEFINE pays == SumFunctionOnSet([st \in Strategy |-> paid[<<st, m>>]], Strategy)
  <2>1. pays \in Int
    <3>1. \A st \in Strategy : [s \in Strategy |-> paid[<<s, m>>]][st] \in Int
      BY <1>7, RoadAssumption DEF TreasuryTypeOK
    <3> QED BY <3>1, RoadAssumption, SumInt
  <2>2. held[m] \in Int /\ n \in Int
    BY <1>6, <1>7, <1>8, RoadAssumption DEF TreasuryTypeOK
  <2>3. held[m] + pays = SumFunctionOnSet(arrived, Arrivals(Settled.sent, m))
    BY <1>7 DEF Books
  <2> HIDE DEF pays, here
  <2>4. held'[m] + pays = SumFunctionOnSet(arrived', Arrivals(Settled.sent, m)')
    BY <1>9, <1>10, <2>1, <2>2, <2>3
  <2> QED BY <1>11, <2>4 DEF pays
<1> QED BY <1>5, <1>12 DEF Books

LEMMA BooksInitial == RoadInit => BooksInv
<1> SUFFICES ASSUME RoadInit PROVE BooksInv
  OBVIOUS
<1>1. RoadInv
  BY RoadInitial
<1>2. \A m \in Mint : held[m] = 0 /\ \A st \in Strategy : paid[<<st, m>>] = 0
  BY RoadAssumption DEF RoadInit, TreasuryInit
<1>3. \A m \in Mint : Arrivals(Settled.sent, m) = {}
  BY DEF RoadInit, Arrivals
<1>4. ASSUME NEW m \in Mint
      PROVE  SumFunctionOnSet([st \in Strategy |-> paid[<<st, m>>]], Strategy) = 0
  <2>1. [st \in Strategy |-> paid[<<st, m>>]] = [st \in Strategy |-> 0]
    BY <1>2
  <2> QED BY <2>1, RoadAssumption, SumZero
<1>5. \A m \in Mint : SumFunctionOnSet(arrived, Arrivals(Settled.sent, m)) = 0
  BY <1>3, SumEmpty
<1>6. Books(Settled.sent)
  BY <1>2, <1>4, <1>5 DEF Books
<1> QED BY <1>1, <1>6 DEF BooksInv

LEMMA BooksStep == BooksInv /\ [RoadNext]_roadVars => BooksInv'
<1> SUFFICES ASSUME BooksInv, [RoadNext]_roadVars PROVE BooksInv'
  OBVIOUS
<1>1. RoadInv'
  BY RoadStep DEF BooksInv
<1>2. CASE [BridgeNext]_bridgeVars /\ UNCHANGED <<held, paid, arrived>>
  BY <1>1, <1>2, QuietKeepsBooks DEF BooksInv
<1>3. OwnerAction \/ UNCHANGED treasuryVars => UNCHANGED <<held, paid>>
  BY DEF OwnerAction, SetStrategy, SetLane, SetTransmitter, treasuryVars
<1>4. ASSUME NEW m \in Mint, Forward(m), UNCHANGED <<bridgeVars, arrived>>
      PROVE  BooksInv'
  BY <1>1, <1>4, ForwardKeepsBooks DEF BooksInv
<1>5. CASE \E i \in OnTheWay : Arrive(i)
  BY <1>1, <1>5, ArrivalKeepsBooks DEF BooksInv
<1> QED BY <1>2, <1>3, <1>4, <1>5 DEF RoadNext, roadVars

\* For every token, at every moment, what the treasury holds and what its
\* strategies were paid is what the networks brought there: nothing is paid
\* twice, lost or booked to another token, however Solana's transactions roll
\* back and the owner changes strategies.
THEOREM TreasuryBooksHold == RoadSpec => []TreasuryBooks
BY BooksInitial, BooksStep, BooksAreBooks, PTL DEF RoadSpec

-----------------------------------------------------------------------------
(* The wrappers, with a treasury at the other end *)

LEMMA RoadStepIsBridge == [RoadNext]_roadVars => [BridgeNext]_bridgeVars
<1> SUFFICES ASSUME [RoadNext]_roadVars PROVE [BridgeNext]_bridgeVars
  OBVIOUS
<1>1. CASE \E i \in OnTheWay : Arrive(i)
  BY <1>1 DEF Arrive, Deliver, Claim, DeliverElsewhere, Delivered
<1>2. CASE UNCHANGED roadVars
  BY <1>2 DEF roadVars
<1> QED BY <1>1, <1>2 DEF RoadNext

\* Relayers, claims, strategies and forwards on the EVM side never reach back
\* into Solana's books: the road is a behaviour of the bridge alone, so a
\* wrapper loses what its packets carry and one wrapper at a time, wallets gain
\* nothing and the signer's accounts end as they began, wherever the tokens are.
THEOREM RoadKeepsBridge ==
    RoadSpec => BridgeSpec /\ LossIsSent /\ OneLossAtATime /\ WalletsGainNothing
                           /\ BridgeAccountUntouched
<1>1. RoadInit => BridgeInit
  BY DEF RoadInit
<1>2. RoadSpec => BridgeSpec
  BY <1>1, RoadStepIsBridge, PTL DEF RoadSpec, BridgeSpec
<1> QED BY <1>2, LossesAreSent, OneLoss, WalletsDoNotGain, SignerPassesThrough
=============================================================================
