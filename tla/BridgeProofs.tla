---------------------------- MODULE BridgeProofs ----------------------------
(***************************************************************************)
(* Theorems about Bridge.                                                  *)
(***************************************************************************)
EXTENDS Bridge, SharedProofs

USE LevelsAssumption, BridgeAssumption

-----------------------------------------------------------------------------
(* The operations with any arguments                                       *)
(*                                                                         *)
(* The constants of Bridge name the routes, amounts and transactions that  *)
(* a run goes through.  The proofs let every argument be any of its type:  *)
(* what they show also holds where another component submits its own.      *)

Transaction == Seq(Release \cup Send \cup Pay)

AnySettings ==
    \/ ChangeRoles
    \/ \E p \in Position :
          \/ \E a \in Wallet : Wrap(a, p)
          \/ \E l \in Levels : SetWrapperLevel(p, l)
    \/ \E k \in Key, f \in Form : SetBridgeRoute(k, f)
    \/ \E q \in Program : SetCcipRoute(q)

AnyCall ==
    \E a \in Wallet, p \in Position, m \in Mint, c \in Chain, n \in Nat :
        \/ \E fee \in Nat : BridgeTokensCctp(a, p, m, c, n, fee)
        \/ BridgeTokensCcip(a, p, m, c, n)

AnyTx ==
    \/ \E t \in Transaction : Begin(t)
    \/ BridgeTokensLz
    \/ \E dust \in Dust : IssuerSend(dust)
    \/ Transfer
    \/ Commit
    \/ RollBack

AnyNext ==
    \/ AnySettings
    \/ AnyCall
    \/ AnyTx
    \/ \E x \in Account, n \in Nat : Fund(x, n)

AnySpec == BridgeInit /\ [][AnyNext]_bridgeVars

LEMMA NextIsAny == [BridgeNext]_bridgeVars => [AnyNext]_bridgeVars
<1>1. Settings => AnySettings
  BY DEF Settings, AnySettings
<1>2. CallBridge => AnyCall
  BY DEF CallBridge, AnyCall
<1>3. RunTx => AnyTx
  BY DEF RunTx, AnyTx, Transaction
<1>4. \A x \in Account, n \in Amounts : Fund(x, n) => AnyNext
  BY DEF AnyNext
<1> QED BY <1>1, <1>2, <1>3, <1>4 DEF BridgeNext, AnyNext

-----------------------------------------------------------------------------
(* Types *)

LEMMA Instructions ==
    ASSUME BridgeTypeOK, NEW i \in 1..Len(tx)
    PROVE  /\ tx[i] \in Release \cup Send \cup Pay
           /\ tx[i].do = "release" => tx[i] \in Release
           /\ tx[i].do = "send" => tx[i] \in Send
           /\ tx[i].do = "pay" => tx[i] \in Pay
<1>1. tx \in Seq(Release \cup Send \cup Pay)
  BY DEF BridgeTypeOK
<1>2. tx[i] \in Release \cup Send \cup Pay
  BY <1>1
<1> QED BY <1>2 DEF Release, Send, Pay

\* Moving or taking what an account holds leaves all accounts natural numbers.
LEMMA MovedTyped ==
    ASSUME NEW b \in [Account -> Nat], NEW x \in Account, NEW y \in Account,
           NEW n \in Nat, n <= b[x], x # y
    PROVE  /\ Moved(b, x, y, n) \in [Account -> Nat]
           /\ Moved(b, x, y, n)[x] = b[x] - n
           /\ Moved(b, x, y, n)[y] = b[y] + n
           /\ \A z \in Account \ {x, y} : Moved(b, x, y, n)[z] = b[z]
  BY DEF Moved

LEMMA TakenTyped ==
    ASSUME NEW b \in [Account -> Nat], NEW x \in Account, NEW n \in Nat, n <= b[x]
    PROVE  /\ Taken(b, x, n) \in [Account -> Nat]
           /\ Taken(b, x, n)[x] = b[x] - n
           /\ \A z \in Account \ {x} : Taken(b, x, n)[z] = b[z]
  BY DEF Taken

LEMMA PurseAccounts ==
    /\ Purse \subseteq Account
    /\ \A p \in Position, m \in Mint : <<p, m>> \in Account
    /\ \A w \in Wallet, m \in Mint : <<w, m>> \in Account \ Purse
    /\ \A m \in Mint : <<BridgeSigner, m>> \in Account \ Purse
  BY DEF Purse, Account

\* The two steps through the bridge signer's account, added up.
LEMMA ThroughSignerIs ==
    ASSUME BridgeTypeOK, NEW p \in Position, NEW m \in Mint, NEW n \in Nat,
           n <= bal[<<p, m>>], NEW fee
    PROVE  /\ ThroughSigner(p, m, n, fee) \in [Account -> Nat]
           /\ ThroughSigner(p, m, n, fee)[<<p, m>>] = bal[<<p, m>>] - n
           /\ \A z \in Account \ {<<p, m>>} : ThroughSigner(p, m, n, fee)[z] = bal[z]
<1> DEFINE x == <<p, m>>
           y == <<BridgeSigner, m>>
           b == Moved(bal, x, y, n)
<1>1. bal \in [Account -> Nat]
  BY DEF BridgeTypeOK
<1>2. x \in Account /\ y \in Account /\ x # y
  BY PurseAccounts
<1>3. n <= bal[x]
  OBVIOUS
<1> HIDE DEF x, y
<1>4. /\ b \in [Account -> Nat]
      /\ b[x] = bal[x] - n
      /\ b[y] = bal[y] + n
      /\ \A z \in Account \ {x, y} : b[z] = bal[z]
  BY <1>1, <1>2, <1>3, MovedTyped
<1> HIDE DEF b
<1>5. bal[y] \in Nat
  BY <1>1, <1>2
<1>6. n <= b[y]
  BY <1>4, <1>5
<1>7. /\ Taken(b, y, n) \in [Account -> Nat]
      /\ Taken(b, y, n)[y] = bal[y]
      /\ Taken(b, y, n)[x] = bal[x] - n
      /\ \A z \in Account \ {x, y} : Taken(b, y, n)[z] = bal[z]
  BY <1>2, <1>4, <1>5, <1>6, TakenTyped
<1> QED BY <1>7, <1>2 DEF ThroughSigner, b, x, y

LEMMA Sequences ==
    ASSUME BridgeTypeOK
    PROVE  /\ tx \in Seq(Release \cup Send \cup Pay)
           /\ Len(tx) \in Nat
           /\ Len(sent) \in Nat
<1> DEFINE T == Release \cup Send \cup Pay
<1> HIDE DEF T
<1>1. tx \in Seq(T)
  BY DEF BridgeTypeOK, T
<1>2. Len(tx) \in Nat
  BY <1>1
<1>3. Len(sent) \in Nat
  BY DEF BridgeTypeOK
<1> QED BY <1>1, <1>2, <1>3 DEF T

LEMMA RouteTyped ==
    ASSUME BridgeTypeOK, NEW m \in Mint, NEW c \in Chain, route[<<m, c>>] # NoRoute
    PROVE  /\ route[<<m, c>>] \in Form
           /\ route[<<m, c>>].to \in Receiver
           /\ [route[<<m, c>>].to EXCEPT !.padded = TRUE] \in Receiver
           /\ route[<<m, c>>].domain \in Nat
           /\ route[<<m, c>>].cap \in Nat
           /\ route[<<m, c>>].claimer \in {"anyone", "receiver"}
<1>1. route[<<m, c>>] \in Form
  BY DEF BridgeTypeOK, Key
<1>2. route[<<m, c>>].to \in Receiver
  BY <1>1 DEF Form
<1>3. [route[<<m, c>>].to EXCEPT !.padded = TRUE] \in Receiver
  BY <1>2 DEF Receiver
<1> QED BY <1>1, <1>2, <1>3 DEF Form

LEMMA BridgeInitTyped == BridgeInit => BridgeTypeOK
  BY AccessTyped DEF BridgeInit, BridgeTypeOK, LevelInit, LevelTypeOK, LevelMax, EmptyLedger

LEMMA SettingsTyped == BridgeTypeOK /\ AnySettings => BridgeTypeOK'
<1> SUFFICES ASSUME BridgeTypeOK, AnySettings
             PROVE  BridgeTypeOK'
  OBVIOUS
<1>1. CASE ChangeRoles
  <2>1. AccessTypeOK'
    BY <1>1, AccessTyped DEF ChangeRoles, BridgeTypeOK
  <2> QED BY <1>1, <2>1 DEF ChangeRoles, BridgeTypeOK, LevelTypeOK, ledger, txVars
<1>2. CASE \E p \in Position, a \in Wallet : Wrap(a, p)
  <2>1. PICK p \in Position, a \in Wallet : Wrap(a, p)
    BY <1>2
  <2>2. AccessTypeOK'
    BY <2>1, AccessTyped DEF Wrap, WrapAtLevelZero, BridgeTypeOK
  <2>3. LevelTypeOK'
    BY <2>1 DEF Wrap, WrapAtLevelZero, BridgeTypeOK, LevelTypeOK, LevelMax
  <2> QED BY <2>1, <2>2, <2>3 DEF Wrap, BridgeTypeOK, ledger, txVars
<1>3. CASE \E p \in Position, l \in Levels : SetWrapperLevel(p, l)
  <2>1. PICK p \in Position, l \in Levels : SetWrapperLevel(p, l)
    BY <1>3
  <2>2. l \in 0..LevelMax
    BY <2>1 DEF SetWrapperLevel, StoreLevel, LevelStorable, LevelMax
  <2>3. LevelTypeOK'
    BY <2>1, <2>2 DEF SetWrapperLevel, StoreLevel, BridgeTypeOK, LevelTypeOK
  <2>4. AccessTypeOK'
    BY <2>1, AccessTyped DEF SetWrapperLevel, StoreLevel, BridgeTypeOK
  <2> QED BY <2>1, <2>3, <2>4 DEF SetWrapperLevel, BridgeTypeOK, ledger, txVars
<1>4. CASE \E k \in Key, f \in Form : SetBridgeRoute(k, f)
  <2>1. PICK k \in Key, f \in Form : SetBridgeRoute(k, f)
    BY <1>4
  <2>2. f \in Form /\ f.provider \in 1..3
    BY <2>1 DEF SetBridgeRoute, Storable, Cctp, Ccip, LzOft
  <2>3. route' \in [Key -> {g \in Form : g.provider \in 1..3} \cup {NoRoute}]
    BY <2>1, <2>2 DEF SetBridgeRoute, BridgeTypeOK
  <2>4. AccessTypeOK'
    BY <2>1, AccessTyped DEF SetBridgeRoute, BridgeTypeOK
  <2> QED BY <2>1, <2>3, <2>4 DEF SetBridgeRoute, BridgeTypeOK, LevelTypeOK, ledger, txVars
<1>5. CASE \E q \in Program : SetCcipRoute(q)
  <2>1. AccessTypeOK'
    BY <1>5, AccessTyped DEF SetCcipRoute, BridgeTypeOK
  <2> QED BY <1>5, <2>1 DEF SetCcipRoute, BridgeTypeOK, LevelTypeOK, ledger, txVars
<1> QED BY <1>1, <1>2, <1>3, <1>4, <1>5 DEF AnySettings

LEMMA CallsTyped == BridgeTypeOK /\ AnyCall => BridgeTypeOK'
<1> SUFFICES ASSUME BridgeTypeOK,
                    NEW a \in Wallet, NEW p \in Position, NEW m \in Mint,
                    NEW c \in Chain, NEW n \in Nat,
                    \/ \E fee \in Nat : BridgeTokensCctp(a, p, m, c, n, fee)
                    \/ BridgeTokensCcip(a, p, m, c, n)
             PROVE  BridgeTypeOK'
  BY DEF AnyCall
<1>1. /\ AccessTypeOK /\ UNCHANGED accessVars
      /\ LevelTypeOK /\ UNCHANGED <<level, route, router, tx, pc, before>>
  BY DEF BridgeTypeOK, BridgeTokensCctp, BridgeTokensCcip, configVars, txVars
<1>2. AccessTypeOK' /\ LevelTypeOK'
  BY <1>1, AccessTyped DEF LevelTypeOK
<1>3. n \in Nat /\ n <= bal[<<p, m>>] /\ route[<<m, c>>] # NoRoute
  BY DEF BridgeTokensCctp, BridgeTokensCcip, BridgeCommon, Open
<1> DEFINE r == route[<<m, c>>]
<1>4. /\ r.to \in Receiver
      /\ [r.to EXCEPT !.padded = TRUE] \in Receiver
      /\ r.domain \in Nat
      /\ r.claimer \in {"anyone", "receiver"}
  BY <1>3, RouteTyped
<1>5. <<p, m>> \in Account
  BY PurseAccounts
<1> HIDE DEF r
<1>6. bal' \in [Account -> Nat] /\ sent' \in Seq(Packet)
  <2>1. CASE \E fee \in Nat : BridgeTokensCctp(a, p, m, c, n, fee)
    <3>1. PICK fee \in Nat : BridgeTokensCctp(a, p, m, c, n, fee)
      BY <2>1
    <3>2. bal' \in [Account -> Nat]
      BY <1>3, <3>1, ThroughSignerIs DEF BridgeTokensCctp
    <3>3. fee \in Nat /\ n - fee \in Nat /\ r.domain % DomainLimit \in Nat
      BY <1>3, <1>4, <3>1 DEF BridgeTokensCctp, FeeFits
    <3>4. [provider |-> Cctp, mint |-> m, to |-> r.to,
           domain |-> r.domain % DomainLimit, amount |-> n, least |-> n - fee,
           claimer |-> r.claimer, calls |-> FALSE, payer |-> <<p, m>>] \in Packet
      BY <1>3, <1>4, <1>5, <3>3 DEF Packet, Cctp
    <3> QED BY <3>1, <3>2, <3>4 DEF BridgeTokensCctp, BridgeTypeOK, r
  <2>2. CASE BridgeTokensCcip(a, p, m, c, n)
    <3>1. bal' \in [Account -> Nat]
      BY <1>3, <2>2, ThroughSignerIs DEF BridgeTokensCcip
    <3>2. r.gas \in Nat
      BY <1>3, RouteTyped DEF r, Form
    <3>3. [provider |-> Ccip, mint |-> m, to |-> [r.to EXCEPT !.padded = TRUE],
           domain |-> r.domain, amount |-> n, least |-> n,
           claimer |-> "anyone", calls |-> r.gas > 0, payer |-> <<p, m>>] \in Packet
      <4>1. (r.gas > 0) \in BOOLEAN
        OBVIOUS
      <4> QED BY <1>3, <1>4, <1>5, <4>1 DEF Packet, Ccip
    <3> QED BY <2>2, <3>1, <3>3 DEF BridgeTokensCcip, BridgeTypeOK, r
  <2> QED BY <2>1, <2>2
<1> QED BY <1>1, <1>2, <1>6 DEF BridgeTypeOK

\* A step of the transaction that only moves the ledger and the counter.
LEMMA ProceedTyped ==
    ASSUME BridgeTypeOK, Proceed, pc \in 1..Len(tx),
           bal' \in [Account -> Nat], sent' \in Seq(Packet)
    PROVE  BridgeTypeOK'
<1>1. AccessTypeOK' /\ LevelTypeOK'
  BY AccessTyped DEF Proceed, configVars, BridgeTypeOK, LevelTypeOK
<1>2. tx' = tx /\ pc' = pc + 1 /\ before' = before /\ route' = route /\ router' = router
  BY DEF Proceed, configVars
<1>3. pc' \in 1..(Len(tx') + 1)
  BY <1>2, Sequences
<1> QED BY <1>1, <1>2, <1>3 DEF BridgeTypeOK

LEMMA ReleaseTyped == BridgeTypeOK /\ BridgeTokensLz => BridgeTypeOK'
<1> SUFFICES ASSUME BridgeTypeOK, BridgeTokensLz
             PROVE  BridgeTypeOK'
  OBVIOUS
<1> DEFINE i == tx[pc]
<1>1. pc \in 1..Len(tx) /\ i \in Release
  BY Instructions DEF BridgeTokensLz, Running
<1>2. /\ <<i.from, i.mint>> \in Account /\ <<i.by, i.mint>> \in Account
      /\ i.amount \in Nat /\ <<i.from, i.mint>> # <<i.by, i.mint>>
  BY <1>1 DEF Release, Account
<1>3. /\ i.amount <= bal[<<i.from, i.mint>>]
      /\ bal' = Moved(bal, <<i.from, i.mint>>, <<i.by, i.mint>>, i.amount)
      /\ Proceed /\ sent' = sent
  BY DEF BridgeTokensLz
<1> HIDE DEF i
<1>4. bal' \in [Account -> Nat]
  BY <1>2, <1>3, MovedTyped DEF BridgeTypeOK
<1> QED BY <1>1, <1>3, <1>4, ProceedTyped DEF BridgeTypeOK

LEMMA SendTyped == \A dust \in Dust : BridgeTypeOK /\ IssuerSend(dust) => BridgeTypeOK'
<1> SUFFICES ASSUME NEW dust \in Dust, BridgeTypeOK, IssuerSend(dust)
             PROVE  BridgeTypeOK'
  OBVIOUS
<1> DEFINE s == tx[pc]
           n == s.amount - dust
           k == [provider |-> LzOft, mint |-> s.source[2], to |-> s.to,
                 domain |-> s.domain, amount |-> n, least |-> s.min,
                 claimer |-> "anyone", calls |-> FALSE, payer |-> s.source]
<1>1. pc \in 1..Len(tx) /\ s \in Send
  BY Instructions DEF IssuerSend, Running
<1>2. /\ s.source \in Account /\ s.source[2] \in Mint /\ s.to \in Receiver
      /\ s.amount \in Nat /\ s.domain \in Nat /\ s.min \in Nat
  BY <1>1 DEF Send, Account
<1>3. /\ dust <= s.amount /\ n <= bal[s.source]
      /\ bal' = Taken(bal, s.source, n)
      /\ sent' = Append(sent, k)
      /\ Proceed
  BY DEF IssuerSend
<1> HIDE DEF s
<1>4. n \in Nat
  BY <1>2, <1>3
<1>5. k \in Packet
  BY <1>2, <1>4 DEF Packet, LzOft
<1> HIDE DEF n, k
<1>6. bal' \in [Account -> Nat]
  BY <1>2, <1>3, <1>4, TakenTyped DEF BridgeTypeOK
<1>7. sent' \in Seq(Packet)
  BY <1>3, <1>5 DEF BridgeTypeOK
<1> QED BY <1>1, <1>3, <1>6, <1>7, ProceedTyped

LEMMA TransferTyped == BridgeTypeOK /\ Transfer => BridgeTypeOK'
<1> SUFFICES ASSUME BridgeTypeOK, Transfer
             PROVE  BridgeTypeOK'
  OBVIOUS
<1> DEFINE i == tx[pc]
<1>1. pc \in 1..Len(tx) /\ i \in Pay
  BY Instructions DEF Transfer, Running
<1>2. /\ <<i.from, i.mint>> \in Account /\ <<i.to, i.mint>> \in Account
      /\ i.amount \in Nat /\ <<i.from, i.mint>> # <<i.to, i.mint>>
  BY <1>1 DEF Pay, Account
<1>3. /\ i.amount <= bal[<<i.from, i.mint>>]
      /\ bal' = Moved(bal, <<i.from, i.mint>>, <<i.to, i.mint>>, i.amount)
      /\ Proceed /\ sent' = sent
  BY DEF Transfer
<1> HIDE DEF i
<1>4. bal' \in [Account -> Nat]
  BY <1>2, <1>3, MovedTyped DEF BridgeTypeOK
<1> QED BY <1>1, <1>3, <1>4, ProceedTyped DEF BridgeTypeOK

LEMMA RestTyped ==
    /\ \A t \in Transaction : BridgeTypeOK /\ Begin(t) => BridgeTypeOK'
    /\ BridgeTypeOK /\ (Commit \/ RollBack) => BridgeTypeOK'
    /\ \A x \in Account, n \in Nat : BridgeTypeOK /\ Fund(x, n) => BridgeTypeOK'
    /\ BridgeTypeOK /\ UNCHANGED bridgeVars => BridgeTypeOK'
<1> SUFFICES ASSUME BridgeTypeOK
             PROVE  /\ \A t \in Transaction : Begin(t) => BridgeTypeOK'
                    /\ Commit \/ RollBack => BridgeTypeOK'
                    /\ \A x \in Account, n \in Nat : Fund(x, n) => BridgeTypeOK'
                    /\ UNCHANGED bridgeVars => BridgeTypeOK'
  OBVIOUS
<1>1. ASSUME UNCHANGED configVars
      PROVE  /\ AccessTypeOK' /\ LevelTypeOK'
             /\ route' = route /\ router' = router
             /\ route \in [Key -> {f \in Form : f.provider \in 1..3} \cup {NoRoute}]
             /\ router \in Program \cup {NoProgram}
  BY <1>1, AccessTyped DEF configVars, BridgeTypeOK, LevelTypeOK
<1>2. ASSUME NEW t \in Transaction, Begin(t)
      PROVE  BridgeTypeOK'
  <2>1. t \in Seq(Release \cup Send \cup Pay)
    BY DEF Transaction
  <2>2. 1 \in 1..(Len(t) + 1)
    BY <2>1
  <2> QED BY <1>1, <1>2, <2>1, <2>2 DEF Begin, BridgeTypeOK, ledger
<1>3. ASSUME Commit \/ RollBack
      PROVE  BridgeTypeOK'
  <2>1. EndTx /\ bal' \in [Account -> Nat] /\ sent' \in Seq(Packet)
    BY <1>3 DEF Commit, RollBack, BridgeTypeOK, ledger
  <2>2. EmptyLedger \in [bal : [Account -> Nat], sent : Seq(Packet)]
    BY DEF EmptyLedger
  <2> QED BY <1>1, <2>1, <2>2 DEF EndTx, BridgeTypeOK
<1>4. ASSUME NEW x \in Account, NEW n \in Nat, Fund(x, n)
      PROVE  BridgeTypeOK'
  <2>1. bal' \in [Account -> Nat]
    BY <1>4 DEF Fund, BridgeTypeOK
  <2> QED BY <1>1, <1>4, <2>1 DEF Fund, BridgeTypeOK, txVars
<1>5. ASSUME UNCHANGED bridgeVars
      PROVE  BridgeTypeOK'
  BY <1>1, <1>5 DEF bridgeVars, ledger, txVars, BridgeTypeOK
<1> QED BY <1>2, <1>3, <1>4, <1>5

LEMMA StepTyped == BridgeTypeOK /\ [AnyNext]_bridgeVars => BridgeTypeOK'
  BY SettingsTyped, CallsTyped, ReleaseTyped, SendTyped, TransferTyped, RestTyped
     DEF AnyNext, AnyTx

LEMMA AnyTyped == AnySpec => []BridgeTypeOK
  BY BridgeInitTyped, StepTyped, PTL DEF AnySpec

-----------------------------------------------------------------------------
(* What a running transaction has taken out of the wrappers                *)

Untouched == \A x \in Purse : bal[x] = before.bal[x]

IsRelease(i) == i.do = "release" /\ i.top

Packed(m, c, n, first) ==
    \E i \in first..Len(sent) : sent[i].mint = m /\ Carries(sent[i], route[<<m, c>>], n)

\* Instruction j released, nothing else has or can, and the instruction behind
\* it is the send, which is in the bridge's hands once it has run.
ReleasedAt(j) ==
    LET i == tx[j]
    IN  /\ j \in 1..(pc - 1) /\ j < Len(tx)
        /\ i \in Release /\ i.top
        /\ \A k \in 1..Len(tx) : k # j => ~IsRelease(tx[k])
        /\ Open(<<i.mint, i.chain>>, LzOft, i.amount)
        /\ tx[j + 1].do = "send" /\ tx[j + 1].source = <<i.by, i.mint>>
        /\ CheckLzSend(route[<<i.mint, i.chain>>], i.amount, tx[j + 1])
        /\ bal[<<i.from, i.mint>>] = before.bal[<<i.from, i.mint>>] - i.amount
        /\ \A x \in Purse \ {<<i.from, i.mint>>} : bal[x] = before.bal[x]
        /\ pc > j + 1 => Packed(i.mint, i.chain, i.amount, Len(before.sent) + 1)

TxInv ==
    ~Idle => /\ Len(before.sent) <= Len(sent)
             /\ Untouched \/ \E j \in 1..Len(tx) : ReleasedAt(j)

\* The send that a release checked for carries what was released.
LEMMA SendCarries ==
    ASSUME BridgeTypeOK, NEW m \in Mint, NEW c \in Chain, NEW n \in Nat,
           Open(<<m, c>>, LzOft, n), NEW send \in Send,
           CheckLzSend(route[<<m, c>>], n, send), NEW s \in Packet,
           s.provider = LzOft, s.to = send.to, s.domain = send.domain,
           s.amount <= send.amount, s.least = send.min
    PROVE  Carries(s, route[<<m, c>>], n)
<1>1. n \div 200 <= n \div 100 /\ n \div 200 \in Nat /\ n \div 100 \in Nat
  OBVIOUS
<1>2. send.min \in Nat /\ send.min >= n - n \div 200
  BY DEF CheckLzSend, Send
<1>3. s.least >= n - n \div 100
  BY <1>1, <1>2
<1> QED BY <1>3 DEF Carries, Open, CheckLzSend

LEMMA TxInvBegins == \A t \in Transaction : BridgeTypeOK /\ Begin(t) => TxInv'
<1> SUFFICES ASSUME BridgeTypeOK, NEW t \in Transaction, Begin(t)
             PROVE  TxInv'
  OBVIOUS
<1>1. before' = [bal |-> bal, sent |-> sent] /\ bal' = bal /\ sent' = sent
  BY DEF Begin, ledger
<1>2. Len(sent) \in Nat
  BY Sequences
<1> QED BY <1>1, <1>2 DEF TxInv, Untouched

LEMMA TxInvReleases == BridgeTypeOK /\ TxInv /\ BridgeTokensLz => TxInv'
<1> SUFFICES ASSUME BridgeTypeOK, TxInv, BridgeTokensLz
             PROVE  TxInv'
  OBVIOUS
<1> DEFINE i == tx[pc]
<1>1. pc \in 1..Len(tx) /\ i \in Release /\ i.top /\ pc < Len(tx)
  BY Instructions DEF BridgeTokensLz, Running, OnlyOurs, SendFollows
<1>2. /\ tx' = tx /\ before' = before /\ route' = route
      /\ pc' = pc + 1 /\ sent' = sent
  BY DEF BridgeTokensLz, Proceed, configVars
<1>3. pc \in Nat /\ Len(tx) \in Nat /\ Len(sent) \in Nat
  BY <1>1, Sequences
<1>4. ~Idle
  BY <1>1 DEF Idle
<1>5. \A k \in 1..Len(tx) : k # pc => ~IsRelease(tx[k])
  BY DEF BridgeTokensLz, OnlyOurs, IsRelease
<1>6. Untouched
  <2> SUFFICES ASSUME NEW j \in 1..Len(tx), ReleasedAt(j)
               PROVE  FALSE
    BY <1>4 DEF TxInv
  <2>1. j # pc /\ IsRelease(tx[j])
    BY <1>3 DEF ReleasedAt, IsRelease, Release
  <2> QED BY <1>5, <2>1
<1>7. /\ Open(<<i.mint, i.chain>>, LzOft, i.amount)
      /\ tx[pc + 1].do = "send" /\ tx[pc + 1].source = <<i.by, i.mint>>
      /\ CheckLzSend(route[<<i.mint, i.chain>>], i.amount, tx[pc + 1])
      /\ i.amount <= bal[<<i.from, i.mint>>]
      /\ bal' = Moved(bal, <<i.from, i.mint>>, <<i.by, i.mint>>, i.amount)
  BY DEF BridgeTokensLz, SendFollows
<1>8. /\ <<i.from, i.mint>> \in Purse
      /\ <<i.from, i.mint>> \in Account /\ <<i.by, i.mint>> \in Account \ Purse
      /\ i.amount \in Nat /\ <<i.from, i.mint>> # <<i.by, i.mint>>
  BY <1>1 DEF Release, Account, Purse
<1>9. /\ bal'[<<i.from, i.mint>>] = before.bal[<<i.from, i.mint>>] - i.amount
      /\ \A x \in Purse \ {<<i.from, i.mint>>} : bal'[x] = before.bal[x]
  <2> DEFINE from == <<i.from, i.mint>>
             to == <<i.by, i.mint>>
  <2>1. /\ from \in Account /\ to \in Account /\ from # to
        /\ from \in Purse /\ to \notin Purse
        /\ i.amount \in Nat /\ i.amount <= bal[from]
        /\ bal' = Moved(bal, from, to, i.amount)
    BY <1>7, <1>8
  <2> HIDE DEF from, to, i
  <2>2. bal \in [Account -> Nat]
    BY DEF BridgeTypeOK
  <2>3. /\ bal'[from] = bal[from] - i.amount
        /\ \A z \in Account \ {from, to} : bal'[z] = bal[z]
    BY <2>1, <2>2, MovedTyped
  <2> QED BY <1>6, <2>1, <2>3, PurseAccounts DEF Untouched, from
<1> HIDE DEF i
<1>10. ASSUME NEW j \in 1..Len(tx), j = pc
       PROVE  ReleasedAt(j)'
  <2>1. j \in 1..(pc' - 1) /\ ~(pc' > j + 1)
    BY <1>1, <1>2, <1>3, <1>10
  <2>2. Open(<<tx[j].mint, tx[j].chain>>, LzOft, tx[j].amount)'
    BY <1>2, <1>7, <1>10 DEF Open, i
  <2> QED BY <1>1, <1>2, <1>5, <1>7, <1>9, <1>10, <2>1, <2>2 DEF ReleasedAt, i
<1> QED BY <1>1, <1>2, <1>3, <1>4, <1>10 DEF TxInv

\* A step that pays from a wallet and forgets no packet leaves both cases of
\* the invariant as they are, if the step behind a release packs it.
LEMMA TxInvGoesOn ==
    ASSUME BridgeTypeOK, TxInv, Proceed, ~Idle, pc \in 1..Len(tx),
           \A x \in Purse : bal'[x] = bal[x],
           Len(sent) <= Len(sent)', Len(sent)' \in Nat,
           \A i \in 1..Len(sent) : sent'[i] = sent[i],
           \A j \in 1..Len(tx) :
              ReleasedAt(j) /\ pc = j + 1 =>
                 Packed(tx[j].mint, tx[j].chain, tx[j].amount, Len(before.sent) + 1)'
    PROVE  TxInv'
<1>1. tx' = tx /\ before' = before /\ route' = route /\ pc' = pc + 1
  BY DEF Proceed, configVars
<1>2. Len(before.sent) \in Nat /\ Len(sent) \in Nat /\ Len(tx) \in Nat
  BY Sequences DEF BridgeTypeOK
<1>3. Len(before.sent) <= Len(sent)
  BY DEF TxInv
<1>4. Len(before'.sent) <= Len(sent')
  BY <1>1, <1>2, <1>3
<1>5. CASE Untouched
  BY <1>1, <1>4, <1>5 DEF TxInv, Untouched
<1>6. CASE \E j \in 1..Len(tx) : ReleasedAt(j)
  <2>1. PICK j \in 1..Len(tx) : ReleasedAt(j)
    BY <1>6
  <2> DEFINE i == tx[j]
             first == Len(before.sent) + 1
  <2>2. /\ j \in 1..(pc - 1) /\ j < Len(tx)
        /\ i \in Release /\ i.top
        /\ \A k \in 1..Len(tx) : k # j => ~IsRelease(tx[k])
        /\ Open(<<i.mint, i.chain>>, LzOft, i.amount)
        /\ tx[j + 1].do = "send" /\ tx[j + 1].source = <<i.by, i.mint>>
        /\ CheckLzSend(route[<<i.mint, i.chain>>], i.amount, tx[j + 1])
        /\ bal[<<i.from, i.mint>>] = before.bal[<<i.from, i.mint>>] - i.amount
        /\ \A x \in Purse \ {<<i.from, i.mint>>} : bal[x] = before.bal[x]
        /\ pc > j + 1 => Packed(i.mint, i.chain, i.amount, first)
    BY <2>1 DEF ReleasedAt
  <2>3. Packed(i.mint, i.chain, i.amount, first)'
    <3>1. CASE pc = j + 1
      BY <2>1, <3>1
    <3>2. CASE pc # j + 1
      <4>1. Packed(i.mint, i.chain, i.amount, first)
        BY <2>2, <3>2
      <4>2. PICK k \in first..Len(sent) :
               sent[k].mint = i.mint /\ Carries(sent[k], route[<<i.mint, i.chain>>], i.amount)
        BY <4>1 DEF Packed
      <4>3. k \in 1..Len(sent) /\ k \in first..Len(sent)'
        BY <1>2, <4>2
      <4>4. sent'[k] = sent[k]
        BY <4>3
      <4>5. sent'[k].mint = i.mint /\ Carries(sent'[k], route[<<i.mint, i.chain>>], i.amount)
        BY <4>2, <4>4
      <4> QED BY <1>1, <4>3, <4>5 DEF Packed, Carries
    <3> QED BY <3>1, <3>2
  <2>4. <<i.from, i.mint>> \in Purse
    BY <2>2 DEF Release, Purse
  <2>5. /\ bal'[<<i.from, i.mint>>] = before.bal[<<i.from, i.mint>>] - i.amount
        /\ \A x \in Purse \ {<<i.from, i.mint>>} : bal'[x] = before.bal[x]
    BY <2>2, <2>4
  <2>6. j \in 1..(pc' - 1)
    BY <1>1, <2>2
  <2>7. Open(<<i.mint, i.chain>>, LzOft, i.amount)'
    BY <1>1, <2>2 DEF Open
  <2>8. ReleasedAt(j)'
    BY <1>1, <2>2, <2>3, <2>5, <2>6, <2>7 DEF ReleasedAt
  <2> QED BY <1>1, <1>4, <2>8 DEF TxInv
<1> QED BY <1>5, <1>6 DEF TxInv

LEMMA TxInvPays == BridgeTypeOK /\ TxInv /\ Transfer => TxInv'
<1> SUFFICES ASSUME BridgeTypeOK, TxInv, Transfer
             PROVE  TxInv'
  OBVIOUS
<1> DEFINE i == tx[pc]
           from == <<i.from, i.mint>>
           to == <<i.to, i.mint>>
<1>1. pc \in 1..Len(tx) /\ i \in Pay /\ ~Idle
  BY Instructions, Sequences DEF Transfer, Running, Idle
<1>2. /\ i.amount <= bal[from] /\ bal' = Moved(bal, from, to, i.amount)
      /\ Proceed /\ sent' = sent
  BY DEF Transfer
<1>3. /\ from \in Account \ Purse /\ to \in Account \ Purse /\ from # to
      /\ i.amount \in Nat /\ bal \in [Account -> Nat]
  BY <1>1 DEF Pay, Account, Purse, BridgeTypeOK
<1> HIDE DEF i, from, to
<1>4. \A z \in Account \ {from, to} : bal'[z] = bal[z]
  BY <1>2, <1>3, MovedTyped
<1>5. \A x \in Purse : bal'[x] = bal[x]
  BY <1>3, <1>4, PurseAccounts
<1>6. Len(sent) \in Nat
  BY Sequences
<1>7. \A j \in 1..Len(tx) : ReleasedAt(j) => pc # j + 1
  BY <1>1 DEF ReleasedAt, i, Pay
<1> QED BY <1>1, <1>2, <1>5, <1>6, <1>7, TxInvGoesOn

LEMMA TxInvSends == \A dust \in Dust : BridgeTypeOK /\ TxInv /\ IssuerSend(dust) => TxInv'
<1> SUFFICES ASSUME NEW dust \in Dust, BridgeTypeOK, TxInv, IssuerSend(dust)
             PROVE  TxInv'
  OBVIOUS
<1> DEFINE s == tx[pc]
           n == s.amount - dust
           k == [provider |-> LzOft, mint |-> s.source[2], to |-> s.to,
                 domain |-> s.domain, amount |-> n, least |-> s.min,
                 claimer |-> "anyone", calls |-> FALSE, payer |-> s.source]
<1>1. pc \in 1..Len(tx) /\ s \in Send /\ ~Idle
  BY Instructions, Sequences DEF IssuerSend, Running, Idle
<1>2. /\ dust <= s.amount /\ n <= bal[s.source]
      /\ bal' = Taken(bal, s.source, n) /\ sent' = Append(sent, k)
      /\ Proceed
  BY DEF IssuerSend
<1>3. /\ s.source \in Account \ Purse /\ s.source[2] \in Mint
      /\ s.to \in Receiver /\ s.domain \in Nat /\ s.min \in Nat
      /\ s.amount \in Nat /\ bal \in [Account -> Nat]
  BY <1>1 DEF Send, Account, Purse, BridgeTypeOK
<1>4. n \in Nat /\ n <= s.amount
  BY <1>2, <1>3
<1>5. k \in Packet
  BY <1>3, <1>4 DEF Packet, LzOft
<1>6. /\ k.provider = LzOft /\ k.mint = s.source[2] /\ k.to = s.to
      /\ k.domain = s.domain /\ k.amount <= s.amount /\ k.least = s.min
  BY <1>4
<1> HIDE DEF n, k
<1>7. \A x \in Purse : bal'[x] = bal[x]
  <2> HIDE DEF s
  <2>1. \A z \in Account \ {s.source} : bal'[z] = bal[z]
    BY <1>2, <1>3, <1>4, TakenTyped
  <2> QED BY <1>3, <2>1, PurseAccounts
<1>8. /\ Len(sent) \in Nat /\ Len(sent)' = Len(sent) + 1
      /\ \A i \in 1..Len(sent) : sent'[i] = sent[i]
      /\ sent'[Len(sent) + 1] = k
  BY <1>2, <1>5 DEF BridgeTypeOK
<1>9. ASSUME NEW j \in 1..Len(tx), ReleasedAt(j), pc = j + 1
      PROVE  Packed(tx[j].mint, tx[j].chain, tx[j].amount, Len(before.sent) + 1)'
  <2> DEFINE i == tx[j]
  <2>1. /\ i \in Release
        /\ Open(<<i.mint, i.chain>>, LzOft, i.amount)
        /\ s.source = <<i.by, i.mint>>
        /\ CheckLzSend(route[<<i.mint, i.chain>>], i.amount, s)
    BY <1>9 DEF ReleasedAt
  <2>2. i.mint \in Mint /\ i.chain \in Chain /\ i.amount \in Nat
    BY <2>1 DEF Release
  <2>3. k.mint = i.mint
    BY <1>6, <2>1
  <2> HIDE DEF i, s
  <2>4. Carries(k, route[<<i.mint, i.chain>>], i.amount)
    BY <1>1, <1>5, <1>6, <2>1, <2>2, SendCarries
  <2>5. /\ Len(before.sent) \in Nat /\ Len(before.sent) <= Len(sent)
        /\ before' = before /\ route' = route /\ tx' = tx
    BY <1>1, <1>2 DEF TxInv, BridgeTypeOK, Proceed, configVars
  <2>6. Len(sent) + 1 \in (Len(before.sent) + 1)..Len(sent)'
    BY <1>8, <2>5
  <2>7. Packed(i.mint, i.chain, i.amount, Len(before.sent) + 1)'
    BY <1>8, <2>3, <2>4, <2>5, <2>6 DEF Packed, Carries, i
  <2> QED BY <2>5, <2>7 DEF i
<1>10. Len(sent) <= Len(sent)' /\ Len(sent)' \in Nat
  BY <1>8
<1> QED BY <1>1, <1>2, <1>7, <1>8, <1>9, <1>10, TxInvGoesOn

LEMMA CallsChangeLedger == AnyCall => Idle /\ UNCHANGED <<configVars, txVars>>
<1> SUFFICES ASSUME NEW a \in Wallet, NEW p \in Position, NEW m \in Mint,
                    NEW c \in Chain, NEW n \in Nat,
                    \/ \E fee \in Nat : BridgeTokensCctp(a, p, m, c, n, fee)
                    \/ BridgeTokensCcip(a, p, m, c, n)
             PROVE  Idle /\ UNCHANGED <<configVars, txVars>>
  BY DEF AnyCall
<1> QED BY DEF BridgeTokensCctp, BridgeTokensCcip, BridgeCommon

\* Between transactions nothing but a call moves a wrapper's tokens.
LEMMA OutsideTx ==
    ASSUME BridgeTypeOK,
           \/ AnySettings \/ AnyCall
           \/ \E x \in Account, n \in Nat : Fund(x, n)
    PROVE  Idle /\ Idle'
<1>1. Idle /\ UNCHANGED txVars
  <2>1. CASE AnySettings
    BY <2>1 DEF AnySettings, Wrap, SetWrapperLevel, ChangeRoles, SetBridgeRoute, SetCcipRoute,
                txVars
  <2>2. CASE AnyCall
    BY <2>2, CallsChangeLedger DEF txVars
  <2>3. CASE \E x \in Account, n \in Nat : Fund(x, n)
    BY <2>3 DEF Fund, txVars
  <2> QED BY <2>1, <2>2, <2>3
<1> QED BY <1>1 DEF Idle, txVars

LEMMA StepKeepsTxInv == BridgeTypeOK /\ TxInv /\ [AnyNext]_bridgeVars => TxInv'
<1> SUFFICES ASSUME BridgeTypeOK, TxInv, [AnyNext]_bridgeVars
             PROVE  TxInv'
  OBVIOUS
<1>1. CASE AnySettings \/ AnyCall \/ \E x \in Account, n \in Nat : Fund(x, n)
  BY <1>1, OutsideTx DEF TxInv
<1>2. CASE AnyTx
  <2>1. CASE Commit \/ RollBack
    BY <2>1 DEF Commit, RollBack, EndTx, TxInv, Idle
  <2> QED BY <1>2, <2>1, TxInvBegins, TxInvReleases, TxInvPays, TxInvSends DEF AnyTx
<1>3. CASE UNCHANGED bridgeVars
  <2>1. /\ tx' = tx /\ pc' = pc /\ before' = before /\ bal' = bal
        /\ sent' = sent /\ route' = route
    BY <1>3 DEF bridgeVars, configVars, ledger, txVars
  <2>2. Untouched => Untouched'
    BY <2>1 DEF Untouched
  <2>3. \A j : ReleasedAt(j) => ReleasedAt(j)'
    BY <2>1 DEF ReleasedAt, Open, Packed, Carries
  <2> QED BY <2>1, <2>2, <2>3 DEF TxInv, Idle
<1> QED BY <1>1, <1>2, <1>3 DEF AnyNext

RoutesStorable == \A k \in Key : route[k] # NoRoute => Storable(route[k])

LEMMA StepKeepsRoutes == BridgeTypeOK /\ RoutesStorable /\ [AnyNext]_bridgeVars => RoutesStorable'
<1> SUFFICES ASSUME BridgeTypeOK, RoutesStorable, [AnyNext]_bridgeVars
             PROVE  RoutesStorable'
  OBVIOUS
<1>1. CASE \E k \in Key, f \in Form : SetBridgeRoute(k, f)
  <2>1. PICK k \in Key, f \in Form : SetBridgeRoute(k, f)
    BY <1>1
  <2>2. Storable(f) /\ route' = [route EXCEPT ![k] = f] /\ DOMAIN route = Key
    BY <2>1 DEF SetBridgeRoute, BridgeTypeOK
  <2> SUFFICES ASSUME NEW l \in Key, route'[l] # NoRoute
               PROVE  Storable(route'[l])
    BY DEF RoutesStorable, Storable
  <2>3. route'[l] = f \/ route'[l] = route[l]
    BY <2>2
  <2> QED BY <2>2, <2>3 DEF RoutesStorable
<1>2. CASE route' = route
  BY <1>2 DEF RoutesStorable, Storable
<1>3. CASE ~\E k \in Key, f \in Form : SetBridgeRoute(k, f)
  <2>1. CASE AnySettings
    BY <1>2, <1>3, <2>1 DEF AnySettings, ChangeRoles, Wrap, SetWrapperLevel, SetCcipRoute
  <2>2. CASE AnyCall
    BY <1>2, <2>2, CallsChangeLedger DEF configVars
  <2>3. CASE AnyTx
    BY <1>2, <2>3 DEF AnyTx, Begin, BridgeTokensLz, IssuerSend, Transfer, Proceed,
                      Commit, RollBack, EndTx, configVars
  <2>4. CASE (\E x \in Account, n \in Nat : Fund(x, n)) \/ UNCHANGED bridgeVars
    BY <1>2, <2>4 DEF Fund, bridgeVars, configVars
  <2> QED BY <2>1, <2>2, <2>3, <2>4 DEF AnyNext
<1> QED BY <1>1, <1>3

BridgeInv == BridgeTypeOK /\ RoutesStorable /\ TxInv

LEMMA AnyInvariant == AnySpec => []BridgeInv
<1>1. BridgeInit => BridgeInv
  BY BridgeInitTyped DEF BridgeInv, BridgeInit, TxInv, Idle, RoutesStorable, Key
<1>2. BridgeInv /\ [AnyNext]_bridgeVars => BridgeInv'
  BY StepTyped, StepKeepsTxInv, StepKeepsRoutes DEF BridgeInv
<1> QED BY <1>1, <1>2, PTL DEF AnySpec

-----------------------------------------------------------------------------
(* What a step takes out of the wrappers                                   *)

LossCarried(x) ==
    \E c \in Chain, i \in (Len(Settled.sent) + 1)..Len(Settled.sent') :
        /\ Settled.sent'[i].mint = x[2]
        /\ Carries(Settled.sent'[i], route[<<x[2], c>>], Loss(x))

\* One wrapper's account at most, and a packet for what it loses.
SoleLoss(x) == LossCarried(x) /\ \A z \in Purse \ {x} : ~(Loss(z) > 0)

NoLoss == \A x \in Purse : ~(Loss(x) > 0)

LEMMA CallLoses ==
    ASSUME BridgeInv, AnyCall
    PROVE  \E x \in Purse : SoleLoss(x)
<1>1. BridgeTypeOK /\ Idle /\ Idle'
  BY OutsideTx DEF BridgeInv
<1>2. PICK a \in Wallet, p \in Position, m \in Mint, c \in Chain, n \in Nat :
         \/ \E fee \in Nat : BridgeTokensCctp(a, p, m, c, n, fee)
         \/ BridgeTokensCcip(a, p, m, c, n)
  BY DEF AnyCall
<1> DEFINE x == <<p, m>>
           r == route[<<m, c>>]
<1>3. /\ n \in Nat /\ n <= bal[x] /\ r # NoRoute /\ r.enabled /\ n <= r.cap
      /\ x \in Purse /\ x[2] = m /\ bal \in [Account -> Nat] /\ Len(sent) \in Nat
  BY <1>1, <1>2, Sequences
     DEF BridgeTokensCctp, BridgeTokensCcip, BridgeCommon, Open, Purse, BridgeTypeOK
<1>4. /\ r \in Form /\ r.to \in Receiver /\ r.domain \in Nat
      /\ r.provider \in 1..3 /\ r.claimer \in {"anyone", "receiver"}
  BY <1>1, <1>3, RouteTyped DEF BridgeTypeOK, Key
<1>5. /\ Storable(r) /\ [r.to EXCEPT !.padded = TRUE] = r.to
      /\ r.provider = Cctp => r.domain % DomainLimit = r.domain
  <2>1. Storable(r)
    BY <1>3 DEF BridgeInv, RoutesStorable, Key
  <2>2. r.provider = Cctp => r.domain < DomainLimit
    BY <2>1 DEF Storable
  <2>3. [r.to EXCEPT !.padded = TRUE] = r.to
    BY <1>4, <2>1 DEF Receiver, Storable
  <2> QED BY <1>4, <2>1, <2>2, <2>3
<1>6. PICK s \in Packet :
         /\ sent' = Append(sent, s) /\ s.mint = m
         /\ Carries(s, r, n)
  <2>1. CASE \E fee \in Nat : BridgeTokensCctp(a, p, m, c, n, fee)
    <3>1. PICK fee \in Nat : BridgeTokensCctp(a, p, m, c, n, fee)
      BY <2>1
    <3> DEFINE s == [provider |-> Cctp, mint |-> m, to |-> r.to,
                     domain |-> r.domain % DomainLimit, amount |-> n, least |-> n - fee,
                     claimer |-> r.claimer, calls |-> FALSE, payer |-> x]
    <3>2. sent' = Append(sent, s) /\ r.provider = Cctp /\ fee <= n \div 100
      BY <3>1 DEF BridgeTokensCctp, BridgeCommon, Open, FeeFits
    <3>3. fee \in Nat /\ n - fee \in Nat /\ r.domain % DomainLimit = r.domain
      BY <1>3, <1>5, <3>2
    <3>4. x \in Account
      BY <1>3, PurseAccounts
    <3> HIDE DEF r, x
    <3>5. s \in Packet
      BY <1>3, <1>4, <3>3, <3>4 DEF Packet, Cctp
    <3>6. Carries(s, r, n)
      BY <1>3, <3>2, <3>3 DEF Carries
    <3> QED BY <3>2, <3>5, <3>6
  <2>2. CASE BridgeTokensCcip(a, p, m, c, n)
    <3> DEFINE s == [provider |-> Ccip, mint |-> m, to |-> [r.to EXCEPT !.padded = TRUE],
                     domain |-> r.domain, amount |-> n, least |-> n,
                     claimer |-> "anyone", calls |-> r.gas > 0, payer |-> x]
    <3>1. sent' = Append(sent, s) /\ r.provider = Ccip
      BY <2>2 DEF BridgeTokensCcip, BridgeCommon, Open
    <3>2. x \in Account
      BY <1>3, PurseAccounts
    <3>3. (r.gas > 0) \in BOOLEAN
      BY <1>4 DEF Form
    <3> HIDE DEF r, x
    <3>4. s \in Packet
      BY <1>3, <1>4, <1>5, <3>2, <3>3 DEF Packet, Ccip
    <3>5. Carries(s, r, n)
      BY <1>3, <1>5, <3>1 DEF Carries
    <3> QED BY <3>1, <3>4, <3>5
  <2> QED BY <1>2, <2>1, <2>2
<1>7. bal'[x] = bal[x] - n /\ \A z \in Account \ {x} : bal'[z] = bal[z]
  <2>1. PICK fee : bal' = ThroughSigner(p, m, n, fee)
    BY <1>2 DEF BridgeTokensCctp, BridgeTokensCcip
  <2> QED BY <1>1, <1>3, <2>1, ThroughSignerIs
<1>8. /\ Settled = [bal |-> bal, sent |-> sent]
      /\ Settled' = [bal |-> bal', sent |-> sent']
  BY <1>1 DEF Settled
<1>9. Loss(x) = n /\ \A z \in Purse \ {x} : ~(Loss(z) > 0)
  <2>1. \A z \in Purse : Loss(z) = bal[z] - bal'[z]
    BY <1>8 DEF Loss
  <2>2. \A z \in Account : bal[z] \in Nat
    BY <1>3
  <2> HIDE DEF x
  <2>3. Loss(x) = n
    BY <1>3, <1>7, <2>1, <2>2, PurseAccounts
  <2>4. \A z \in Purse \ {x} : ~(Loss(z) > 0)
    BY <1>7, <2>1, <2>2, PurseAccounts
  <2> QED BY <2>3, <2>4
<1>10. LossCarried(x)
  <2>1. Len(sent') = Len(sent) + 1 /\ sent'[Len(sent) + 1] = s
    BY <1>1, <1>6 DEF BridgeTypeOK
  <2>2. /\ Len(sent) + 1 \in (Len(Settled.sent) + 1)..Len(Settled.sent')
        /\ Settled.sent'[Len(sent) + 1] = s
    BY <1>3, <1>8, <2>1
  <2> QED BY <1>3, <1>6, <1>9, <2>2 DEF LossCarried
<1> QED BY <1>3, <1>9, <1>10 DEF SoleLoss

LEMMA CommitLoses ==
    ASSUME BridgeInv, Commit
    PROVE  NoLoss \/ \E x \in Purse : SoleLoss(x)
<1>1. /\ ~Idle /\ Idle' /\ pc = Len(tx) + 1
      /\ bal' = bal /\ sent' = sent
  BY DEF Commit, EndTx, Idle, ledger
<1>2. /\ before \in [bal : [Account -> Nat], sent : Seq(Packet)]
      /\ bal \in [Account -> Nat] /\ Len(tx) \in Nat
  BY Sequences DEF BridgeInv, BridgeTypeOK
<1>3. /\ Settled = before
      /\ Settled' = [bal |-> bal, sent |-> sent]
  BY <1>1 DEF Settled
<1>4. \A z \in Purse : Loss(z) = before.bal[z] - bal[z] /\ before.bal[z] \in Nat
  BY <1>2, <1>3, PurseAccounts DEF Loss
<1>5. CASE Untouched
  BY <1>4, <1>5 DEF NoLoss, Untouched
<1>6. CASE \E j \in 1..Len(tx) : ReleasedAt(j)
  <2>1. PICK j \in 1..Len(tx) : ReleasedAt(j)
    BY <1>6
  <2> DEFINE i == tx[j]
             x == <<i.from, i.mint>>
  <2>2. /\ i \in Release /\ j < Len(tx)
        /\ bal[x] = before.bal[x] - i.amount
        /\ \A z \in Purse \ {x} : bal[z] = before.bal[z]
        /\ pc > j + 1 => Packed(i.mint, i.chain, i.amount, Len(before.sent) + 1)
    BY <2>1 DEF ReleasedAt
  <2>3. /\ i.mint \in Mint /\ i.chain \in Chain /\ i.amount \in Nat
        /\ x \in Purse /\ x[2] = i.mint
    BY <2>2 DEF Release, Purse
  <2>4. PICK k \in (Len(before.sent) + 1)..Len(sent) :
           sent[k].mint = i.mint /\ Carries(sent[k], route[<<i.mint, i.chain>>], i.amount)
    <3>1. pc > j + 1
      BY <1>1, <1>2, <2>2
    <3> QED BY <2>2, <3>1 DEF Packed
  <2> HIDE DEF i, x
  <2>5. Loss(x) = i.amount /\ \A z \in Purse \ {x} : ~(Loss(z) > 0)
    BY <1>2, <1>4, <2>2, <2>3, PurseAccounts
  <2>6. LossCarried(x)
    BY <1>3, <2>3, <2>4, <2>5 DEF LossCarried
  <2> QED BY <2>3, <2>5, <2>6 DEF SoleLoss
<1> QED BY <1>1, <1>5, <1>6 DEF BridgeInv, TxInv

LEMMA StepLoses ==
    ASSUME BridgeInv, [AnyNext]_bridgeVars
    PROVE  NoLoss \/ \E x \in Purse : SoleLoss(x)
<1>1. /\ bal \in [Account -> Nat] /\ before.bal \in [Account -> Nat]
  BY DEF BridgeInv, BridgeTypeOK
<1>2. ASSUME \A x \in Purse : Settled.bal[x] \in Nat /\ Settled.bal[x] <= Settled.bal'[x],
             \A x \in Purse : Settled.bal'[x] \in Nat
      PROVE  NoLoss
  BY <1>2 DEF NoLoss, Loss
<1>3. \A x \in Purse : bal[x] \in Nat /\ before.bal[x] \in Nat
  BY <1>1, PurseAccounts
<1>4. CASE AnySettings
  <2>1. bal' = bal /\ Idle /\ Idle'
    BY <1>4, OutsideTx DEF BridgeInv, AnySettings, ChangeRoles, Wrap, SetWrapperLevel,
                           SetBridgeRoute, SetCcipRoute, ledger
  <2> QED BY <1>2, <1>3, <2>1 DEF Settled
<1>5. CASE \E y \in Account, n \in Nat : Fund(y, n)
  <2>1. PICK y \in Account, n \in Nat : Fund(y, n)
    BY <1>5
  <2>2. Idle /\ Idle'
    BY <1>5, OutsideTx DEF BridgeInv
  <2>3. n \in Nat /\ bal' = [bal EXCEPT ![y] = @ + n]
    BY <2>1 DEF Fund
  <2>4. \A x \in Account : bal'[x] \in Nat /\ bal[x] <= bal'[x]
    BY <1>1, <2>3
  <2> QED BY <1>2, <1>3, <2>2, <2>4, PurseAccounts DEF Settled
<1>6. CASE (\E t \in Transaction : Begin(t)) \/ UNCHANGED bridgeVars
  <2>1. Settled'.bal = Settled.bal
    BY <1>6 DEF Settled, Idle, Begin, bridgeVars, ledger, txVars
  <2> QED BY <1>2, <1>3, <2>1 DEF Settled
<1>7. CASE BridgeTokensLz \/ (\E dust \in Dust : IssuerSend(dust)) \/ Transfer
  <2>1. before' = before /\ tx' = tx /\ ~Idle
    <3>1. Proceed /\ pc \in 1..Len(tx)
      BY <1>7 DEF BridgeTokensLz, IssuerSend, Transfer, Running
    <3> QED BY <3>1 DEF Proceed, Idle
  <2> QED BY <1>2, <1>3, <2>1 DEF Settled, Idle
<1>8. CASE RollBack
  <2>1. ~Idle /\ Idle' /\ bal' = before.bal
    BY <1>8 DEF RollBack, EndTx, Idle
  <2> QED BY <1>2, <1>3, <2>1 DEF Settled
<1> QED BY <1>4, <1>5, <1>6, <1>7, <1>8, CallLoses, CommitLoses DEF AnyNext, AnyTx

-----------------------------------------------------------------------------
LEMMA AnyLosses == AnySpec => LossIsSent
<1>1. ASSUME BridgeInv, [AnyNext]_bridgeVars
      PROVE  \A p \in Position, m \in Mint :
                Loss(<<p, m>>) > 0 => LossCarried(<<p, m>>)
  <2> SUFFICES ASSUME NEW p \in Position, NEW m \in Mint, Loss(<<p, m>>) > 0
               PROVE  LossCarried(<<p, m>>)
    OBVIOUS
  <2>1. <<p, m>> \in Purse
    BY DEF Purse
  <2> QED BY <1>1, <2>1, StepLoses DEF NoLoss, SoleLoss
<1>2. BridgeInv /\ [AnyNext]_bridgeVars =>
         [\A p \in Position, m \in Mint :
             Loss(<<p, m>>) > 0 =>
                \E c \in Chain, i \in (Len(Settled.sent) + 1)..Len(Settled.sent') :
                    /\ Settled.sent'[i].mint = m
                    /\ Carries(Settled.sent'[i], route[<<m, c>>], Loss(<<p, m>>))]_bridgeVars
  BY <1>1 DEF LossCarried
<1> QED BY <1>2, AnyInvariant, PTL DEF AnySpec, LossIsSent

LEMMA AnyOneLoss == AnySpec => OneLossAtATime
<1>1. BridgeInv /\ [AnyNext]_bridgeVars =>
         [\A x, y \in Purse : Loss(x) > 0 /\ Loss(y) > 0 => x = y]_bridgeVars
  <2> SUFFICES ASSUME BridgeInv, [AnyNext]_bridgeVars,
                      NEW x \in Purse, NEW y \in Purse, Loss(x) > 0, Loss(y) > 0
               PROVE  x = y
    OBVIOUS
  <2> QED BY StepLoses DEF NoLoss, SoleLoss
<1> QED BY <1>1, AnyInvariant, PTL DEF AnySpec, OneLossAtATime

-----------------------------------------------------------------------------
(* The bridge signer's account                                             *)

SignerAccount == {BridgeSigner} \X Mint

SignerKept == ~Idle => \A y \in SignerAccount : bal[y] = before.bal[y]

LEMMA TxSteps ==
    ASSUME BridgeTypeOK, AnyTx, SignerKept
    PROVE  /\ SignerKept'
           /\ \A y \in SignerAccount : bal'[y] = bal[y]
<1>1. \A y \in SignerAccount :
         /\ y \in Account
         /\ \A w \in Wallet \cup Position, m \in Mint : y # <<w, m>>
  BY DEF SignerAccount, Account
<1>2. bal \in [Account -> Nat]
  BY DEF BridgeTypeOK
<1>3. CASE \E t \in Transaction : Begin(t)
  BY <1>3 DEF Begin, SignerKept, ledger
<1>4. CASE Commit \/ RollBack
  BY <1>4 DEF Commit, RollBack, EndTx, SignerKept, Idle, ledger
<1>5. CASE BridgeTokensLz \/ Transfer \/ \E dust \in Dust : IssuerSend(dust)
  <2>1. Proceed /\ pc \in 1..Len(tx) /\ ~Idle
    <3>1. Proceed /\ pc \in 1..Len(tx)
      BY <1>5 DEF BridgeTokensLz, IssuerSend, Transfer, Running
    <3> QED BY <3>1 DEF Idle
  <2>2. \A y \in SignerAccount : bal'[y] = bal[y]
    <3>1. CASE BridgeTokensLz
      <4>1. tx[pc] \in Release
        BY <2>1, <3>1, Instructions DEF BridgeTokensLz, Running
      <4>2. bal' = Moved(bal, <<tx[pc].from, tx[pc].mint>>, <<tx[pc].by, tx[pc].mint>>, tx[pc].amount)
        BY <3>1 DEF BridgeTokensLz
      <4>3. tx[pc].from \in Position /\ tx[pc].by \in Wallet /\ tx[pc].mint \in Mint
        BY <4>1 DEF Release
      <4> DEFINE f == <<tx[pc].from, tx[pc].mint>>
                 t == <<tx[pc].by, tx[pc].mint>>
      <4>4. \A y \in SignerAccount : y \in Account /\ y # f /\ y # t
        BY <1>1, <4>3, Zenon
      <4> HIDE DEF f, t
      <4>5. bal' = Moved(bal, f, t, tx[pc].amount)
        BY <4>2 DEF f, t
      <4> QED BY <1>2, <4>4, <4>5 DEF Moved
    <3>2. CASE Transfer
      <4>1. tx[pc] \in Pay
        BY <2>1, <3>2, Instructions DEF Transfer, Running
      <4>2. bal' = Moved(bal, <<tx[pc].from, tx[pc].mint>>, <<tx[pc].to, tx[pc].mint>>, tx[pc].amount)
        BY <3>2 DEF Transfer
      <4>3. tx[pc].from \in Wallet /\ tx[pc].to \in Wallet /\ tx[pc].mint \in Mint
        BY <4>1 DEF Pay
      <4> DEFINE f == <<tx[pc].from, tx[pc].mint>>
                 t == <<tx[pc].to, tx[pc].mint>>
      <4>4. \A y \in SignerAccount : y \in Account /\ y # f /\ y # t
        BY <1>1, <4>3, Zenon
      <4> HIDE DEF f, t
      <4>5. bal' = Moved(bal, f, t, tx[pc].amount)
        BY <4>2 DEF f, t
      <4> QED BY <1>2, <4>4, <4>5 DEF Moved
    <3>3. CASE \E dust \in Dust : IssuerSend(dust)
      <4>1. PICK dust \in Dust : IssuerSend(dust)
        BY <3>3
      <4>2. tx[pc] \in Send
        BY <2>1, <4>1, Instructions DEF IssuerSend, Running
      <4> DEFINE f == tx[pc].source
      <4>3. f \in Wallet \X Mint
        BY <4>2 DEF Send
      <4>4. \A y \in SignerAccount : y \in Account /\ y # f
        BY <1>1, <4>3
      <4> HIDE DEF f
      <4>5. bal' = Taken(bal, tx[pc].source, tx[pc].amount - dust)
        BY <4>1 DEF IssuerSend
      <4>6. bal' = Taken(bal, f, tx[pc].amount - dust)
        BY <4>5 DEF f
      <4> QED BY <1>2, <4>4, <4>6 DEF Taken
    <3> QED BY <1>5, <3>1, <3>2, <3>3
  <2> QED BY <2>1, <2>2 DEF SignerKept, Proceed
<1> QED BY <1>3, <1>4, <1>5 DEF AnyTx

LEMMA CallsPassThrough ==
    ASSUME BridgeTypeOK, AnyCall
    PROVE  \A y \in SignerAccount : bal'[y] = bal[y]
<1>1. PICK a \in Wallet, p \in Position, m \in Mint, c \in Chain, n \in Nat :
         \/ \E fee \in Nat : BridgeTokensCctp(a, p, m, c, n, fee)
         \/ BridgeTokensCcip(a, p, m, c, n)
  BY DEF AnyCall
<1>2. n \in Nat /\ n <= bal[<<p, m>>]
  BY <1>1 DEF BridgeTokensCctp, BridgeTokensCcip, BridgeCommon
<1>3. PICK fee : bal' = ThroughSigner(p, m, n, fee)
  BY <1>1 DEF BridgeTokensCctp, BridgeTokensCcip
<1>4. \A y \in SignerAccount : y \in Account \ {<<p, m>>}
  BY DEF SignerAccount, Account
<1> QED BY <1>2, <1>3, <1>4, ThroughSignerIs

LEMMA AnySigner == AnySpec => BridgeAccountUntouched
<1>1. BridgeInit => SignerKept
  BY DEF BridgeInit, SignerKept, Idle
<1>2. ASSUME BridgeTypeOK, SignerKept, [AnyNext]_bridgeVars
      PROVE  /\ SignerKept'
             /\ [\A m \in Mint :
                    bal'[<<BridgeSigner, m>>] # bal[<<BridgeSigner, m>>] =>
                       UNCHANGED sent /\ \A x \in Purse : bal'[x] = bal[x]]_bridgeVars
  <2>1. \A m \in Mint : <<BridgeSigner, m>> \in SignerAccount
    BY DEF SignerAccount
  <2>2. CASE UNCHANGED bridgeVars
    BY <1>2, <2>2 DEF bridgeVars, ledger, txVars, SignerKept, Idle
  <2>3. CASE AnyTx
    BY <1>2, <2>1, <2>3, TxSteps
  <2>4. CASE AnyCall
    <3>1. SignerKept'
      BY <1>2, <2>4, OutsideTx DEF SignerKept
    <3> QED BY <1>2, <2>1, <2>4, <3>1, CallsPassThrough
  <2>5. CASE AnySettings
    <3>1. SignerKept'
      BY <1>2, <2>5, OutsideTx DEF SignerKept
    <3>2. bal' = bal
      BY <2>5 DEF AnySettings, ChangeRoles, Wrap, SetWrapperLevel, SetBridgeRoute, SetCcipRoute, ledger
    <3> QED BY <3>1, <3>2
  <2>6. CASE \E y \in Account, n \in Nat : Fund(y, n)
    <3>1. SignerKept'
      BY <1>2, <2>6, OutsideTx DEF SignerKept
    <3>2. PICK y \in Account, n \in Nat : Fund(y, n)
      BY <2>6
    <3>3. sent' = sent /\ bal' = [bal EXCEPT ![y] = @ + n]
      BY <3>2 DEF Fund
    <3>4. bal \in [Account -> Nat]
      BY <1>2 DEF BridgeTypeOK
    <3>5. \A m \in Mint, x \in Purse :
             x # <<BridgeSigner, m>> /\ x \in Account /\ <<BridgeSigner, m>> \in Account
      BY PurseAccounts
    <3> QED BY <3>1, <3>3, <3>4, <3>5
  <2> QED BY <1>2, <2>2, <2>3, <2>4, <2>5, <2>6 DEF AnyNext
<1> QED BY <1>1, <1>2, AnyTyped, PTL DEF AnySpec, BridgeAccountUntouched

-----------------------------------------------------------------------------
(* What the wallets hold *)

WalletAccount == Wallet \X Mint

LEMMA HeldIs ==
    ASSUME NEW b \in [Account -> Nat], NEW m \in Mint
    PROVE  /\ Held(b, m) = SumFunctionOnSet([w \in Wallet |-> b[<<w, m>>]], Wallet)
           /\ \A w \in Wallet : [v \in Wallet |-> b[<<v, m>>]][w] \in Nat
           /\ Held(b, m) \in Nat
<1> DEFINE f == [w \in Wallet |-> b[<<w, m>>]]
<1>1. Held(b, m) = SumFunctionOnSet(f, Wallet)
  BY DEF Held, SumFunction
<1>2. \A w \in Wallet : f[w] \in Nat
  BY PurseAccounts
<1>3. SumFunctionOnSet(f, Wallet) \in Nat
  <2> HIDE DEF f
  <2> QED BY <1>2, SumNat
<1> QED BY <1>1, <1>2, <1>3

\* One wallet's account changes, and what the wallets hold with it.
LEMMA HeldChanges ==
    ASSUME NEW b \in [Account -> Nat], NEW c \in [Account -> Nat],
           NEW w \in Wallet, NEW m \in Mint, NEW x, x = <<w, m>>,
           \A y \in WalletAccount \ {x} : c[y] = b[y]
    PROVE  /\ Held(c, m) = Held(b, m) + (c[x] - b[x])
           /\ \A k \in Mint \ {m} : Held(c, k) = Held(b, k)
<1> DEFINE f == [v \in Wallet |-> b[<<v, m>>]]
           g == [v \in Wallet |-> c[<<v, m>>]]
<1>1. \A v \in Wallet : f[v] \in Int /\ g[v] \in Int
  BY PurseAccounts
<1>2. (\A v \in Wallet \ {w} : g[v] = f[v]) /\ f[w] = b[x] /\ g[w] = c[x]
  BY DEF WalletAccount
<1>3. Held(b, m) = SumFunctionOnSet(f, Wallet) /\ Held(c, m) = SumFunctionOnSet(g, Wallet)
  BY HeldIs
<1>4. ASSUME NEW k \in Mint \ {m} PROVE Held(c, k) = Held(b, k)
  <2>1. [v \in Wallet |-> c[<<v, k>>]] = [v \in Wallet |-> b[<<v, k>>]]
    BY DEF WalletAccount
  <2> QED BY <2>1 DEF Held
<1> HIDE DEF f, g
<1>5. SumFunctionOnSet(g, Wallet) = SumFunctionOnSet(f, Wallet) + (g[w] - f[w])
  <2>1. IsFiniteSet(Wallet) /\ w \in Wallet
    OBVIOUS
  <2> QED BY ONLY <1>1, <1>2, <2>1, SumChange
<1> QED BY <1>2, <1>3, <1>4, <1>5

LEMMA HeldStays ==
    ASSUME NEW b, NEW c, \A w \in Wallet, m \in Mint : c[<<w, m>>] = b[<<w, m>>]
    PROVE  \A m \in Mint : Held(c, m) = Held(b, m)
<1> SUFFICES ASSUME NEW m \in Mint PROVE Held(c, m) = Held(b, m)
  OBVIOUS
<1>1. [w \in Wallet |-> c[<<w, m>>]] = [w \in Wallet |-> b[<<w, m>>]]
  OBVIOUS
<1> QED BY <1>1 DEF Held

\* Instruction j released, and the send it checked for is behind it.
Lent(j) ==
    LET i == tx[j]
    IN  /\ j \in 1..(pc - 1) /\ j < Len(tx)
        /\ IsRelease(i) /\ i \in Release
        /\ tx[j + 1].do = "send" /\ tx[j + 1].source = <<i.by, i.mint>>
        /\ tx[j + 1].min >= i.amount - i.amount \div 200
        /\ bal[<<i.from, i.mint>>] = before.bal[<<i.from, i.mint>>] - i.amount

\* What the wallets may have too much: all that was released until the send
\* has run, and what it may round off afterwards.
Due(j) == IF pc > j + 1 THEN tx[j].amount \div 200 ELSE tx[j].amount

KeptUpTo(m, n) == Held(bal, m) <= Held(before.bal, m) + n

WalletsInv ==
    ~Idle => \A m \in Mint :
                \/ KeptUpTo(m, 0)
                \/ \E j \in 1..Len(tx) : Lent(j) /\ tx[j].mint = m /\ KeptUpTo(m, Due(j))

\* A step that moves nothing out of a wrapper leaves a release what it was.
LEMMA LentGoesOn ==
    ASSUME BridgeTypeOK, Proceed, pc \in 1..Len(tx), NEW j \in 1..Len(tx), Lent(j),
           \A x \in Purse : bal'[x] = bal[x]
    PROVE  Lent(j)'
<1>1. tx' = tx /\ before' = before /\ pc' = pc + 1
  BY DEF Proceed
<1>2. <<tx[j].from, tx[j].mint>> \in Purse
  BY DEF Lent, Release, Purse
<1>3. j \in 1..(pc' - 1)
  BY <1>1, Sequences DEF Lent
<1> QED BY <1>1, <1>2, <1>3 DEF Lent

LEMMA WalletsInvReleases ==
    ASSUME BridgeTypeOK, TxInv, WalletsInv, BridgeTokensLz
    PROVE  WalletsInv'
<1> DEFINE i == tx[pc]
           from == <<i.from, i.mint>>
           to == <<i.by, i.mint>>
<1>1. pc \in 1..Len(tx) /\ i \in Release /\ i.top /\ pc < Len(tx) /\ tx[pc + 1] \in Send
  <2>1. pc \in 1..Len(tx) /\ i \in Release /\ i.top /\ pc < Len(tx) /\ tx[pc + 1].do = "send"
    BY Instructions DEF BridgeTokensLz, Running, OnlyOurs, SendFollows
  <2>2. pc + 1 \in 1..Len(tx)
    BY <2>1, Sequences
  <2> QED BY <2>1, <2>2, Instructions
<1>2. tx' = tx /\ before' = before /\ pc' = pc + 1 /\ ~Idle
  BY <1>1 DEF BridgeTokensLz, Proceed, Idle
<1>3. \A k \in 1..Len(tx) : k # pc => ~IsRelease(tx[k])
  BY DEF BridgeTokensLz, OnlyOurs, IsRelease
<1>4. pc \in Nat /\ Len(tx) \in Nat
  BY <1>1, Sequences
<1>5. Untouched
  <2> SUFFICES ASSUME NEW j \in 1..Len(tx), ReleasedAt(j)
               PROVE  FALSE
    BY <1>2 DEF TxInv
  <2>1. j # pc /\ IsRelease(tx[j])
    BY <1>4 DEF ReleasedAt, IsRelease, Release
  <2> QED BY <1>3, <2>1
<1>6. \A m \in Mint : KeptUpTo(m, 0)
  <2> SUFFICES ASSUME NEW j \in 1..Len(tx), Lent(j)
               PROVE  FALSE
    BY <1>2 DEF WalletsInv
  <2>1. j # pc /\ IsRelease(tx[j])
    BY <1>4 DEF Lent
  <2> QED BY <1>3, <2>1
<1>7. /\ tx[pc + 1].do = "send" /\ tx[pc + 1].source = to
      /\ tx[pc + 1].min >= i.amount - i.amount \div 200
      /\ i.amount <= bal[from] /\ bal' = Moved(bal, from, to, i.amount)
  BY DEF BridgeTokensLz, SendFollows, CheckLzSend
<1>8. /\ from \in Purse /\ from \in Account /\ to \in Account \ Purse
      /\ i.amount \in Nat /\ i.by \in Wallet /\ i.mint \in Mint
  BY <1>1 DEF Release, Account, Purse
<1>9. bal \in [Account -> Nat] /\ before.bal \in [Account -> Nat]
  BY DEF BridgeTypeOK
<1>10. /\ bal' \in [Account -> Nat] /\ bal'[from] = before.bal[from] - i.amount
       /\ bal'[to] = bal[to] + i.amount
       /\ \A z \in Account \ {from, to} : bal'[z] = bal[z]
  <2>1. from # to
    BY <1>8
  <2>2. bal[from] = before.bal[from]
    BY <1>5, <1>8 DEF Untouched
  <2> HIDE DEF from, to, i
  <2> QED BY <1>7, <1>8, <1>9, <2>1, <2>2, MovedTyped
<1>11. ASSUME NEW j \in 1..Len(tx), j = pc
       PROVE  Lent(j)' /\ Due(j)' = i.amount
  <2>1. j \in 1..(pc' - 1) /\ j < Len(tx) /\ ~(pc' > j + 1)
    BY <1>1, <1>2, <1>4, <1>11
  <2>2. Due(j)' = i.amount
    BY <1>2, <1>11, <2>1 DEF Due
  <2>3. IsRelease(i)
    BY <1>1 DEF IsRelease, Release
  <2> QED BY <1>1, <1>2, <1>7, <1>10, <1>11, <2>1, <2>2, <2>3 DEF Lent, IsRelease
<1>12. \A y \in WalletAccount \ {to} : bal'[y] = bal[y]
  BY <1>8, <1>10 DEF WalletAccount, Account, Purse
<1>13. /\ Held(bal', i.mint) = Held(bal, i.mint) + (bal'[to] - bal[to])
       /\ \A k \in Mint \ {i.mint} : Held(bal', k) = Held(bal, k)
  <2>1. to = <<i.by, i.mint>> /\ i.by \in Wallet /\ i.mint \in Mint
    BY <1>8
  <2> HIDE DEF i, to
  <2> QED BY ONLY <1>9, <1>10, <1>12, <2>1, HeldChanges
<1>14. bal[to] \in Nat
  BY <1>8, <1>9
<1>15. \A k \in Mint : Held(bal, k) \in Nat /\ Held(before.bal, k) \in Nat
  BY <1>9, HeldIs
<1>16. ASSUME NEW k \in Mint, k # i.mint PROVE KeptUpTo(k, 0)'
  BY <1>2, <1>6, <1>13, <1>16 DEF KeptUpTo
<1>17. Held(bal', i.mint) <= Held(before.bal, i.mint) + i.amount
  <2> HIDE DEF i, from, to
  <2>1. Held(bal', i.mint) = Held(bal, i.mint) + i.amount
    BY <1>8, <1>10, <1>13, <1>14, <1>15
  <2>2. Held(bal, i.mint) <= Held(before.bal, i.mint) + 0
    BY <1>6, <1>8 DEF KeptUpTo
  <2> QED BY <1>8, <1>15, <2>1, <2>2
<1>18. ASSUME NEW m \in Mint, m = i.mint
       PROVE  \E j \in 1..Len(tx) : Lent(j)' /\ tx[j].mint = m /\ KeptUpTo(m, Due(j))'
  <2>1. PICK j \in 1..Len(tx) : j = pc
    BY <1>1
  <2>2. Lent(j)' /\ Due(j)' = i.amount
    BY <1>11, <2>1
  <2>3. KeptUpTo(m, Due(j))'
    BY <1>2, <1>17, <1>18, <2>2 DEF KeptUpTo
  <2> QED BY <1>18, <2>1, <2>2, <2>3
<1> HIDE DEF i
<1>19. ASSUME NEW m \in Mint
       PROVE  \/ KeptUpTo(m, 0)'
              \/ \E j \in 1..Len(tx)' : Lent(j)' /\ tx[j].mint' = m /\ KeptUpTo(m, Due(j))'
  BY <1>2, <1>16, <1>18
<1> QED BY <1>2, <1>19 DEF WalletsInv

LEMMA WalletsInvPays ==
    ASSUME BridgeTypeOK, WalletsInv, Transfer
    PROVE  WalletsInv'
<1> DEFINE i == tx[pc]
           from == <<i.from, i.mint>>
           to == <<i.to, i.mint>>
           mid == Taken(bal, from, i.amount)
<1>1. pc \in 1..Len(tx) /\ i \in Pay /\ ~Idle
  BY Instructions, Sequences DEF Transfer, Running, Idle
<1>2. i.amount <= bal[from] /\ bal' = Moved(bal, from, to, i.amount) /\ Proceed
  BY DEF Transfer
<1>3. /\ from \in Account \ Purse /\ to \in Account \ Purse /\ from # to
      /\ i.amount \in Nat /\ i.from \in Wallet /\ i.to \in Wallet /\ i.mint \in Mint
      /\ bal \in [Account -> Nat] /\ before.bal \in [Account -> Nat]
  BY <1>1 DEF Pay, Account, Purse, BridgeTypeOK
<1>4. /\ mid \in [Account -> Nat] /\ mid[from] = bal[from] - i.amount
      /\ \A z \in Account \ {from} : mid[z] = bal[z]
  <2> HIDE DEF from, i
  <2> QED BY <1>2, <1>3, TakenTyped
<1>5. /\ bal' \in [Account -> Nat] /\ bal'[from] = bal[from] - i.amount
      /\ bal'[to] = bal[to] + i.amount
      /\ \A z \in Account \ {from, to} : bal'[z] = bal[z]
  <2> HIDE DEF from, to, i
  <2> QED BY <1>2, <1>3, MovedTyped
<1>6. WalletAccount \subseteq Account
  BY DEF WalletAccount, Account
<1>7. /\ Held(mid, i.mint) = Held(bal, i.mint) + (mid[from] - bal[from])
      /\ \A k \in Mint \ {i.mint} : Held(mid, k) = Held(bal, k)
  <2>1. \A y \in WalletAccount \ {from} : mid[y] = bal[y]
    BY <1>4, <1>6
  <2>2. from = <<i.from, i.mint>> /\ i.from \in Wallet /\ i.mint \in Mint
    BY <1>3
  <2> HIDE DEF mid, i, from
  <2> QED BY ONLY <1>3, <1>4, <2>1, <2>2, HeldChanges
<1>8. /\ Held(bal', i.mint) = Held(mid, i.mint) + (bal'[to] - mid[to])
      /\ \A k \in Mint \ {i.mint} : Held(bal', k) = Held(mid, k)
  <2>1. \A z \in Account \ {to} : bal'[z] = mid[z]
    BY <1>3, <1>4, <1>5
  <2>2. \A y \in WalletAccount \ {to} : bal'[y] = mid[y]
    BY <1>6, <2>1
  <2>3. to = <<i.to, i.mint>> /\ i.to \in Wallet /\ i.mint \in Mint
    BY <1>3
  <2> HIDE DEF mid, i, to
  <2> QED BY ONLY <1>4, <1>5, <2>2, <2>3, HeldChanges
<1>9. \A k \in Mint : Held(bal', k) = Held(bal, k)
  <2>1. bal[from] \in Nat /\ bal[to] \in Nat /\ mid[to] = bal[to]
    BY <1>3, <1>4
  <2>2. Held(bal, i.mint) \in Nat
    BY <1>3, HeldIs
  <2>3. /\ i.amount \in Nat
        /\ mid[from] = bal[from] - i.amount
        /\ bal'[to] = bal[to] + i.amount
        /\ Held(mid, i.mint) = Held(bal, i.mint) + (mid[from] - bal[from])
        /\ Held(bal', i.mint) = Held(mid, i.mint) + (bal'[to] - mid[to])
    BY <1>3, <1>4, <1>5, <1>7, <1>8
  <2> HIDE DEF mid, from, to, i
  <2>4. Held(bal', i.mint) = Held(bal, i.mint)
    BY ONLY <2>1, <2>2, <2>3
  <2> QED BY <1>7, <1>8, <2>4
<1>10. tx' = tx /\ before' = before /\ pc' = pc + 1
  BY <1>2 DEF Proceed
<1>11. \A x \in Purse : bal'[x] = bal[x]
  BY <1>3, <1>5, PurseAccounts
<1>12. ASSUME NEW j \in 1..Len(tx), Lent(j)
       PROVE  Lent(j)' /\ Due(j)' = Due(j)
  <2>1. Lent(j)'
    BY <1>1, <1>2, <1>11, <1>12, LentGoesOn
  <2>2. pc > j + 1
    BY <1>1, <1>12, Sequences DEF Lent, Pay
  <2>3. pc' > j + 1
    BY <1>1, <1>10, <2>2, Sequences
  <2> QED BY <1>10, <2>1, <2>2, <2>3 DEF Due
<1>13. \A m \in Mint : \A n : KeptUpTo(m, n) => KeptUpTo(m, n)'
  BY <1>9, <1>10 DEF KeptUpTo
<1> QED BY <1>1, <1>10, <1>12, <1>13 DEF WalletsInv

LEMMA WalletsInvSends ==
    ASSUME BridgeTypeOK, WalletsInv, NEW dust \in Dust, IssuerSend(dust)
    PROVE  WalletsInv'
<1> DEFINE s == tx[pc]
           n == s.amount - dust
           w == s.source[1]
           mint == s.source[2]
<1>1. pc \in 1..Len(tx) /\ s \in Send /\ ~Idle
  BY Instructions, Sequences DEF IssuerSend, Running, Idle
<1>2. /\ dust <= s.amount /\ n >= s.min /\ n <= bal[s.source]
      /\ bal' = Taken(bal, s.source, n) /\ Proceed
  BY DEF IssuerSend
<1>3. /\ s.source \in Account \ Purse /\ s.source = <<w, mint>> /\ w \in Wallet /\ mint \in Mint
      /\ s.amount \in Nat /\ s.min \in Nat
      /\ bal \in [Account -> Nat] /\ before.bal \in [Account -> Nat]
  <2>1. bal \in [Account -> Nat] /\ before.bal \in [Account -> Nat]
    BY DEF BridgeTypeOK
  <2>2. s.source \in Wallet \X Mint /\ s.amount \in Nat /\ s.min \in Nat
    BY <1>1 DEF Send
  <2>3. \A x \in Wallet \X Mint :
          /\ x = <<x[1], x[2]>> /\ x[1] \in Wallet /\ x[2] \in Mint
          /\ x \in Account \ Purse
    BY BridgeAssumption DEF Account, Purse
  <2> HIDE DEF s
  <2> QED BY <2>1, <2>2, <2>3
<1>4. n \in Nat
  <2>1. dust \in Nat
    BY BridgeAssumption
  <2>2. dust <= s.amount /\ s.amount \in Nat
    BY <1>2, <1>3
  <2> HIDE DEF s
  <2> QED BY ONLY <2>1, <2>2 DEF n
<1>5. /\ bal' \in [Account -> Nat] /\ bal'[s.source] = bal[s.source] - n
      /\ \A z \in Account \ {s.source} : bal'[z] = bal[z]
  <2> HIDE DEF s, n
  <2> QED BY <1>2, <1>3, <1>4, TakenTyped
<1>6. \A x \in Purse : bal'[x] = bal[x]
  BY <1>3, <1>5, PurseAccounts
<1>7. /\ Held(bal', mint) = Held(bal, mint) + (bal'[s.source] - bal[s.source])
      /\ \A k \in Mint \ {mint} : Held(bal', k) = Held(bal, k)
  <2>1. \A y \in WalletAccount \ {s.source} : bal'[y] = bal[y]
    BY <1>5 DEF WalletAccount, Account
  <2> HIDE DEF s, n, w, mint
  <2> QED BY ONLY <1>3, <1>5, <2>1, HeldChanges
<1>8. \A k \in Mint : Held(bal, k) \in Nat /\ Held(before.bal, k) \in Nat
  BY <1>3, HeldIs
<1>9. Held(bal', mint) = Held(bal, mint) - n
  <2>1. bal[s.source] \in Nat
    BY <1>3
  <2> HIDE DEF s, n, w, mint
  <2> QED BY <1>3, <1>4, <1>5, <1>7, <1>8, <2>1
<1>10. \A k \in Mint : Held(bal', k) <= Held(bal, k) /\ Held(bal', k) \in Int
  <2> HIDE DEF s, n, w, mint
  <2> QED BY <1>3, <1>4, <1>7, <1>8, <1>9
<1>11. tx' = tx /\ before' = before /\ pc' = pc + 1
  BY <1>2 DEF Proceed
<1>12. ASSUME NEW k \in Mint, NEW d \in Nat, KeptUpTo(k, d)
       PROVE  KeptUpTo(k, d)'
  BY <1>8, <1>10, <1>11, <1>12 DEF KeptUpTo
<1>13. ASSUME NEW j \in 1..Len(tx), Lent(j), KeptUpTo(tx[j].mint, Due(j))
       PROVE  Lent(j)' /\ KeptUpTo(tx[j].mint, Due(j))'
  <2> DEFINE a == tx[j].amount
  <2>1. Lent(j)'
    BY <1>1, <1>2, <1>6, <1>13, LentGoesOn
  <2>2. a \in Nat /\ tx[j].mint \in Mint /\ j \in Nat /\ j <= pc - 1 /\ pc \in Nat
    BY <1>1, <1>13, Sequences DEF Lent, Release
  <2>3. a \div 200 \in Nat
    BY <2>2
  <2>4. CASE pc > j + 1
    <3>1. Due(j) = a \div 200 /\ Due(j)' = a \div 200
      BY <1>11, <2>2, <2>4 DEF Due
    <3>2. Held(bal', tx[j].mint) <= Held(before.bal, tx[j].mint) + a \div 200
      <4> HIDE DEF a
      <4>1. Held(bal, tx[j].mint) <= Held(before.bal, tx[j].mint) + a \div 200
        BY <1>13, <3>1 DEF KeptUpTo
      <4> QED BY <1>8, <1>10, <2>2, <2>3, <4>1
    <3> QED BY <1>11, <2>1, <3>1, <3>2 DEF KeptUpTo
  <2>5. CASE pc = j + 1
    <3>1. Due(j) = a /\ Due(j)' = a \div 200
      BY <1>11, <2>2, <2>5 DEF Due
    <3>2. s.min >= a - a \div 200 /\ mint = tx[j].mint
      BY <1>3, <1>13, <2>5 DEF Lent
    <3>3. Held(bal, mint) <= Held(before.bal, mint) + a
      BY <1>13, <3>1, <3>2 DEF KeptUpTo
    <3>4. Held(bal', mint) <= Held(before.bal, mint) + a \div 200
      <4> HIDE DEF s, n, mint, a
      <4> QED BY <1>2, <1>3, <1>4, <1>8, <1>9, <2>2, <2>3, <3>2, <3>3
    <3> QED BY <1>11, <2>1, <3>1, <3>2, <3>4 DEF KeptUpTo
  <2> QED BY <2>2, <2>4, <2>5
<1> QED BY <1>1, <1>11, <1>12, <1>13 DEF WalletsInv

LEMMA StepKeepsWalletsInv ==
    ASSUME BridgeTypeOK, TxInv, WalletsInv, [AnyNext]_bridgeVars
    PROVE  WalletsInv'
<1>1. CASE AnySettings \/ AnyCall \/ \E x \in Account, n \in Nat : Fund(x, n)
  BY <1>1, OutsideTx DEF WalletsInv
<1>2. CASE Commit \/ RollBack
  BY <1>2 DEF Commit, RollBack, EndTx, WalletsInv, Idle
<1>3. ASSUME NEW t \in Transaction, Begin(t)
      PROVE  WalletsInv'
  <2>1. bal' = bal /\ before'.bal = bal /\ bal \in [Account -> Nat]
    BY <1>3 DEF Begin, ledger, BridgeTypeOK
  <2>2. \A m \in Mint : Held(bal, m) \in Nat
    BY <2>1, HeldIs
  <2> QED BY <2>1, <2>2 DEF WalletsInv, KeptUpTo
<1>4. CASE UNCHANGED bridgeVars
  BY <1>4 DEF bridgeVars, ledger, txVars, WalletsInv, Idle, KeptUpTo, Due, Lent
<1> QED BY <1>1, <1>2, <1>3, <1>4, WalletsInvReleases, WalletsInvPays, WalletsInvSends
        DEF AnyNext, AnyTx

\* What a commit shows: the sum of the losses is no less than each of them.
LEMMA CommitGains ==
    ASSUME BridgeTypeOK, WalletsInv, Commit, NEW m \in Mint
    PROVE  Held(Settled.bal', m) <= Held(Settled.bal, m) + Released(m) \div 200
<1>1. ~Idle /\ pc = Len(tx) + 1 /\ Settled = before /\ Settled'.bal = bal
  BY DEF Commit, EndTx, Settled, Idle, ledger
<1>2. /\ bal \in [Account -> Nat] /\ before.bal \in [Account -> Nat] /\ Len(tx) \in Nat
  BY Sequences DEF BridgeTypeOK
<1> DEFINE f == [p \in Position |-> IF Loss(<<p, m>>) > 0 THEN Loss(<<p, m>>) ELSE 0]
<1>3. \A p \in Position : Loss(<<p, m>>) = before.bal[<<p, m>>] - bal[<<p, m>>] /\ f[p] \in Nat
  <2>1. \A p \in Position : before.bal[<<p, m>>] \in Nat /\ bal[<<p, m>>] \in Nat
    BY <1>2, PurseAccounts
  <2>2. \A p \in Position : Loss(<<p, m>>) = before.bal[<<p, m>>] - bal[<<p, m>>]
    BY <1>1 DEF Loss
  <2> QED BY <2>1, <2>2
<1>4. Released(m) = SumFunctionOnSet(f, Position)
  BY DEF Released, SumFunction
<1>5. \A p \in Position : f[p] >= Loss(<<p, m>>)
  BY <1>2, <1>3, PurseAccounts
<1> HIDE DEF f
<1>6. Released(m) \in Nat /\ \A p \in Position : f[p] <= Released(m)
  <2>1. IsFiniteSet(Position) /\ \A p \in Position : f[p] \in Nat
    BY <1>3
  <2> QED BY ONLY <1>4, <2>1, SumNat
<1>7. Held(bal, m) \in Nat /\ Held(before.bal, m) \in Nat
  BY <1>2, HeldIs
<1>8. Held(bal, m) <= Held(before.bal, m) + Released(m) \div 200
  <2>1. CASE KeptUpTo(m, 0)
    BY <1>6, <1>7, <2>1 DEF KeptUpTo
  <2>2. ASSUME NEW j \in 1..Len(tx), Lent(j), tx[j].mint = m, KeptUpTo(m, Due(j))
        PROVE  Held(bal, m) <= Held(before.bal, m) + Released(m) \div 200
    <3> DEFINE a == tx[j].amount
    <3>1. a \in Nat /\ tx[j].from \in Position /\ pc > j + 1
      BY <1>1, <1>2, <2>2 DEF Lent, Release
    <3>2. bal[<<tx[j].from, m>>] = before.bal[<<tx[j].from, m>>] - a
      BY <2>2 DEF Lent
    <3>3. bal[<<tx[j].from, m>>] \in Nat /\ before.bal[<<tx[j].from, m>>] \in Nat
      BY <1>2, <3>1, PurseAccounts
    <3>4. Loss(<<tx[j].from, m>>) = a
      BY <1>3, <3>1, <3>2, <3>3
    <3>5. a <= Released(m)
      BY <1>3, <1>5, <1>6, <3>1, <3>4
    <3>6. Held(bal, m) <= Held(before.bal, m) + a \div 200
      BY <2>2, <3>1 DEF KeptUpTo, Due
    <3> HIDE DEF a
    <3>7. a \div 200 <= Released(m) \div 200
      BY <1>6, <3>1, <3>5
    <3> QED BY <1>6, <1>7, <3>1, <3>6, <3>7
  <2> QED BY <1>1, <2>1, <2>2 DEF WalletsInv
<1> QED BY <1>1, <1>8

LEMMA AnyWallets == AnySpec => WalletsGainNothing
<1>1. BridgeInit => WalletsInv
  BY DEF BridgeInit, WalletsInv, Idle
<1>2. BridgeInv /\ WalletsInv /\ [AnyNext]_bridgeVars => WalletsInv'
  BY StepKeepsWalletsInv DEF BridgeInv
<1>3. ASSUME BridgeTypeOK, WalletsInv, [AnyNext]_bridgeVars, ~Idle, NEW m \in Mint
      PROVE  Held(Settled.bal', m) <= Held(Settled.bal, m) + Released(m) \div 200
  <2>1. CASE Commit
    BY <1>3, <2>1, CommitGains
  <2>2. CASE Settled'.bal = Settled.bal
    <3>1. Settled.bal \in [Account -> Nat]
      BY <1>3 DEF BridgeTypeOK, Settled
    <3>2. Held(Settled.bal, m) \in Nat
      BY <3>1, HeldIs
    <3> DEFINE f == [p \in Position |-> IF Loss(<<p, m>>) > 0 THEN Loss(<<p, m>>) ELSE 0]
    <3>3. \A p \in Position : f[p] \in Nat
      <4>1. \A p \in Position : Settled.bal[<<p, m>>] \in Nat
        BY <3>1, PurseAccounts
      <4>2. \A p \in Position : Loss(<<p, m>>) = 0
        BY <2>2, <4>1 DEF Loss
      <4> QED BY <4>2
    <3>4. Released(m) = SumFunctionOnSet(f, Position)
      BY DEF Released, SumFunction
    <3> HIDE DEF f
    <3>5. Released(m) \in Nat
      BY <3>3, <3>4, SumNat
    <3> QED BY <2>2, <3>2, <3>5
  <2>3. CASE RollBack
    BY <1>3, <2>2, <2>3 DEF RollBack, EndTx, Settled, Idle
  <2>4. CASE BridgeTokensLz \/ Transfer \/ \E dust \in Dust : IssuerSend(dust)
    <3>1. Proceed
      BY <2>4 DEF BridgeTokensLz, Transfer, IssuerSend
    <3> QED BY <1>3, <2>2, <3>1 DEF Proceed, Settled, Idle
  <2>5. CASE UNCHANGED bridgeVars
    BY <1>3, <2>2, <2>5 DEF bridgeVars, ledger, txVars, Settled, Idle
  <2>6. CASE AnySettings \/ AnyCall \/ \E x \in Account, n \in Nat : Fund(x, n)
    BY <1>3, <2>6, OutsideTx
  <2>7. CASE \E t \in Transaction : Begin(t)
    BY <1>3, <2>7 DEF Begin
  <2> QED BY <1>3, <2>1, <2>3, <2>4, <2>5, <2>6, <2>7 DEF AnyNext, AnyTx
<1>4. BridgeTypeOK /\ WalletsInv /\ [AnyNext]_bridgeVars =>
         [~Idle => \A m \in Mint :
             Held(Settled.bal', m) <= Held(Settled.bal, m) + Released(m) \div 200]_bridgeVars
  BY <1>3
<1> QED BY <1>1, <1>2, <1>4, AnyTyped, AnyInvariant, PTL DEF AnySpec, WalletsGainNothing

-----------------------------------------------------------------------------
(* What the bridges promise *)

LEMMA BridgeIsAny == BridgeSpec => AnySpec
  BY NextIsAny, PTL DEF BridgeSpec, AnySpec

\* The bridges are well typed for any wallets, mints, chains, forms of a route
\* and transactions: no stored route has a provider that no instruction
\* implements, and no token account or promised amount goes below zero.
THEOREM BridgeTypeCorrect == BridgeSpec => []BridgeTypeOK
  BY BridgeIsAny, AnyTyped

\* Every stored route passed set_bridge_route's checks, and at every step of a
\* transaction either no wrapper has been touched, or one
\* release has run that the transaction's only one and the send behind it match.
THEOREM BridgeInvariant == BridgeSpec => []BridgeInv
  BY BridgeIsAny, AnyInvariant

\* Whatever a wrapper loses is one packet to the receiver and the chain of an
\* enabled route, within its cap, with 99% of it promised: for any routes,
\* transactions and callers.
THEOREM LossesAreSent == BridgeSpec => LossIsSent
  BY BridgeIsAny, AnyLosses

\* No transaction takes from two wrappers, whatever else it contains.
THEOREM OneLoss == BridgeSpec => OneLossAtATime
  BY BridgeIsAny, AnyOneLoss

\* What others leave in the bridge signer's account is never spent, and no call
\* leaves anything behind in it.
THEOREM SignerPassesThrough == BridgeSpec => BridgeAccountUntouched
  BY BridgeIsAny, AnySigner

\* No transaction, whatever instructions it is made of, leaves the wallets with
\* more than they had plus half a percent of what wrappers released in it.
THEOREM WalletsDoNotGain == BridgeSpec => WalletsGainNothing
  BY BridgeIsAny, AnyWallets
=============================================================================
