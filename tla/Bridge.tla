------------------------------- MODULE Bridge -------------------------------
(***************************************************************************)
(* Bridging a wrapper's tokens to EVM chains (instructions/                *)
(* bridge_tokens.rs, state/bridge_route.rs, bridges.rs).                   *)
(*                                                                         *)
(* Circle and Chainlink are called by the program: one instruction, one    *)
(* action.  LayerZero is a pair of instructions of one transaction, of     *)
(* which only the first is the program's.  A transaction is therefore run  *)
(* here instruction by instruction, with the ledger it started from kept   *)
(* for the rollback; nothing else happens meanwhile.                       *)
(***************************************************************************)
EXTENDS WrapperLevel, Sequences, FiniteSetsExt

CONSTANTS
    Mint, Chain,
    Program,       \* bridge programs on Solana
    NoProgram,     \* CcipRoute.router before the first set_ccip_route
    Issuer,        \* which program bridges a mint over LayerZero
    Address,       \* 20-byte EVM addresses other than zero
    ZeroAddress,
    NoRoute,       \* a BridgeRoute account that does not exist
    Forms,         \* SetBridgeRouteParams the admin submits
    Amounts,       \* BridgeTokensParams.amount, and tokens wallets hand around
    Fees,          \* BridgeTokensParams.max_fee
    Dust,          \* what an issuer's send may round off
    Transactions,  \* transactions with more than one instruction
    BridgeSigner,  \* the PDA that Circle's and Chainlink's accounts belong to
    DomainLimit,   \* 2^32: Circle's and LayerZero's chain numbers are u32
    MaxBalance,    \* bound on every token account
    MaxSent        \* bound on the packets sent

\* A 32-byte receiver; padded says that its first 12 bytes are zero.
Receiver == [address : Address \cup {ZeroAddress}, padded : BOOLEAN]

\* claimer: Circle's destinationCaller, the receiver itself or anyone.
\* gas is the slot of the source account in the issuer's send for LayerZero;
\* that the admin gives the right one is taken for granted.
Form == [provider : 1..4, program : Program, to : Receiver, domain : Nat,
         gas : Nat, claimer : {"anyone", "receiver"}, enabled : BOOLEAN, cap : Nat]

Cctp == 1
Ccip == 2
LzOft == 3

Key == Mint \X Chain

Account == (Position \cup Wallet \cup {BridgeSigner}) \X Mint

\* The instructions of a transaction: this program's release, reached by the
\* transaction itself or from inside another program; an issuer's send, where
\* bare means that it has neither options nor a compose message; a transfer
\* (one to oneself would change nothing).
Release == [do : {"release"}, top : BOOLEAN, by : Wallet, from : Position,
            mint : Mint, chain : Chain, amount : Nat]

Send == [do : {"send"}, program : Program, source : Wallet \X Mint, domain : Nat,
         to : Receiver, amount : Nat, min : Nat, bare : BOOLEAN]

Pay == {i \in [do : {"pay"}, from : Wallet, to : Wallet, mint : Mint, amount : Nat] :
           i.from # i.to}

\* What a bridge carries: at least `least` of `amount` arrives.
Packet == [provider : 1..3, mint : Mint, to : Receiver, domain : Nat,
           amount : Nat, least : Nat, claimer : {"anyone", "receiver"},
           calls : BOOLEAN, payer : Account]

ASSUME BridgeAssumption ==
    /\ NoProgram \notin Program
    /\ ZeroAddress \notin Address
    /\ NoRoute \notin Form
    /\ Issuer \in [Mint -> Program]
    /\ Forms \subseteq Form
    /\ Amounts \subseteq Nat /\ Fees \subseteq Nat /\ Dust \subseteq Nat
    /\ Transactions \subseteq Seq(Release \cup Send \cup Pay)
    /\ IsFiniteSet(Position) /\ IsFiniteSet(Wallet)
    /\ BridgeSigner \notin Position \cup Wallet
    /\ Position \cap Wallet = {}
    /\ DomainLimit \in Nat \ {0}
    /\ MaxBalance \in Nat /\ MaxSent \in Nat

VARIABLES
    route,   \* BridgeRoute per (mint, dst_chain_id)
    router,  \* CcipRoute.router
    bal,     \* token accounts
    sent,    \* everything the bridges were given, in order
    tx,      \* the transaction that is running, <<>> between transactions
    pc,      \* its next instruction
    before   \* the ledger when it began, EmptyLedger between transactions

ledger == <<bal, sent>>
txVars == <<tx, pc, before>>
configVars == <<accessVars, level, route, router>>
bridgeVars == <<configVars, ledger, txVars>>

Idle == tx = <<>>

EmptyLedger == [bal |-> [x \in Account |-> 0], sent |-> <<>>]

BridgeTypeOK ==
    /\ AccessTypeOK
    /\ LevelTypeOK
    /\ route \in [Key -> {f \in Form : f.provider \in 1..3} \cup {NoRoute}]
    /\ router \in Program \cup {NoProgram}
    /\ bal \in [Account -> Nat]
    /\ sent \in Seq(Packet)
    /\ tx \in Seq(Release \cup Send \cup Pay)
    /\ pc \in 1..(Len(tx) + 1)
    /\ before \in [bal : [Account -> Nat], sent : Seq(Packet)]

BridgeInit ==
    /\ AccessInit
    /\ LevelInit
    /\ route = [k \in Key |-> NoRoute]
    /\ router = NoProgram
    /\ bal = EmptyLedger.bal
    /\ sent = EmptyLedger.sent
    /\ tx = <<>>
    /\ pc = 1
    /\ before = EmptyLedger

-----------------------------------------------------------------------------
(* Settings *)

Wrap(a, p) ==
    /\ Idle
    /\ WrapAtLevelZero(a, p)
    /\ UNCHANGED <<route, router, ledger, txVars>>

SetWrapperLevel(p, l) ==
    /\ Idle
    /\ StoreLevel(p, l)
    /\ UNCHANGED <<route, router, ledger, txVars>>

ChangeRoles ==
    /\ Idle
    /\ RoleChange
    /\ UNCHANGED <<level, route, router, ledger, txVars>>

\* Mutant: chain numbers are not checked to fit u32.
MutStorable(f) ==
    /\ f.provider \in {Cctp, Ccip, LzOft}
    /\ f.provider = LzOft => f.gas \in 1..63
    /\ f.to.padded /\ f.to.address # ZeroAddress

\* Mutant: any number is taken for a provider.
MutAnyProvider(f) ==
    /\ f.provider = LzOft => f.gas \in 1..63
    /\ f.to.padded /\ f.to.address # ZeroAddress
    /\ f.provider \in {Cctp, LzOft} => f.domain < DomainLimit

Storable(f) ==
    /\ f.provider \in {Cctp, Ccip, LzOft}
    /\ f.provider = LzOft => f.gas \in 1..63
    /\ f.to.padded /\ f.to.address # ZeroAddress
    /\ f.provider \in {Cctp, LzOft} => f.domain < DomainLimit

SetBridgeRoute(k, f) ==
    /\ Idle
    /\ Storable(f)
    /\ route' = [route EXCEPT ![k] = f]
    /\ UNCHANGED <<accessVars, level, router, ledger, txVars>>

SetCcipRoute(q) ==
    /\ Idle
    /\ router' = q
    /\ UNCHANGED <<accessVars, level, route, ledger, txVars>>

-----------------------------------------------------------------------------
(* Who may move what *)

LevelBridges(l) == l \in {1, 2}

MayBridge(a, p) == IsOwner(a, p) \/ IsSender(a) \/ IsOnDemandCaller(a, p)

Open(k, provider, n) ==
    /\ route[k] # NoRoute
    /\ route[k].provider = provider
    /\ route[k].enabled
    /\ n <= route[k].cap

Moved(b, from, to, n) == [b EXCEPT ![from] = @ - n, ![to] = @ + n]

Taken(b, from, n) == [b EXCEPT ![from] = @ - n]

\* Mutant: the fee that is offered is left in the bridge signer's account.
MutThroughSigner(p, m, n, fee) ==
    Taken(Moved(bal, <<p, m>>, <<BridgeSigner, m>>, n), <<BridgeSigner, m>>, n - fee)

\* From the wrapper's account to the bridge signer's, and from there to the
\* provider.
ThroughSigner(p, m, n, fee) ==
    Taken(Moved(bal, <<p, m>>, <<BridgeSigner, m>>, n), <<BridgeSigner, m>>, n)

Room == Len(sent) < MaxSent

BridgeCommon(a, p, m, c, provider, n) ==
    /\ Idle
    /\ Wrapped(p)
    /\ MayBridge(a, p)
    /\ LevelBridges(level[p])
    /\ Open(<<m, c>>, provider, n)
    /\ n <= bal[<<p, m>>]
    /\ Room

-----------------------------------------------------------------------------
(* Circle and Chainlink *)

\* Mutant: the caller may offer any fee.
MutFeeFits(fee, n) == TRUE

FeeFits(fee, n) == fee <= n \div 100

BridgeTokensCctp(a, p, m, c, n, fee) ==
    /\ BridgeCommon(a, p, m, c, Cctp, n)
    /\ FeeFits(fee, n)
    /\ bal' = ThroughSigner(p, m, n, fee)
    /\ LET r == route[<<m, c>>]
       IN  sent' = Append(sent,
              [provider |-> Cctp, mint |-> m, to |-> r.to,
               domain |-> r.domain % DomainLimit, amount |-> n, least |-> n - fee,
               claimer |-> r.claimer, calls |-> FALSE, payer |-> <<p, m>>])
    /\ UNCHANGED <<configVars, txVars>>

\* The router must be the one that the snapshot's CcipRoute names.  CCIP takes
\* the last 20 bytes of the receiver.
BridgeTokensCcip(a, p, m, c, n) ==
    /\ BridgeCommon(a, p, m, c, Ccip, n)
    /\ LET r == route[<<m, c>>]
       IN  /\ r.program = router
           /\ bal' = ThroughSigner(p, m, n, 0)
           /\ sent' = Append(sent,
                 [provider |-> Ccip, mint |-> m, to |-> [r.to EXCEPT !.padded = TRUE],
                  domain |-> r.domain, amount |-> n, least |-> n,
                  claimer |-> "anyone", calls |-> r.gas > 0, payer |-> <<p, m>>])
    /\ UNCHANGED <<configVars, txVars>>

-----------------------------------------------------------------------------
(* LayerZero: a release and the issuer's send in one transaction *)

Begin(t) ==
    /\ Idle
    /\ tx' = t
    /\ pc' = 1
    /\ before' = [bal |-> bal, sent |-> sent]
    /\ UNCHANGED <<configVars, ledger>>

Running(kind) == pc \in 1..Len(tx) /\ tx[pc].do = kind

Proceed == pc' = pc + 1 /\ UNCHANGED <<configVars, tx, before>>

\* Mutant: other instructions of the program are not looked for.
MutOnlyOurs == tx[pc].top

\* Called by the transaction itself, which calls the program nowhere else.
OnlyOurs ==
    /\ tx[pc].top
    /\ \A j \in 1..Len(tx) : j # pc => ~(tx[j].do = "release" /\ tx[j].top)

\* Mutant: the least that may arrive is left to the caller.
MutCheckLzSend(r, n, send) ==
    /\ send.domain = r.domain
    /\ send.to = r.to
    /\ send.amount = n
    /\ send.bare

CheckLzSend(r, n, send) ==
    /\ send.domain = r.domain
    /\ send.to = r.to
    /\ send.amount = n
    /\ send.min >= n - n \div 200
    /\ send.bare

\* Mutant: a transaction that ends with the release is let through.
MutSendFollows(i) ==
    pc < Len(tx) =>
       LET send == tx[pc + 1]
       IN  /\ send.do = "send"
           /\ send.program = route[<<i.mint, i.chain>>].program
           /\ CheckLzSend(route[<<i.mint, i.chain>>], i.amount, send)
           /\ send.source = <<i.by, i.mint>>

\* The very next instruction is the issuer's send of what is released, from
\* the caller's account.
SendFollows(i) ==
    /\ pc < Len(tx)
    /\ LET send == tx[pc + 1]
       IN  /\ send.do = "send"
           /\ send.program = route[<<i.mint, i.chain>>].program
           /\ CheckLzSend(route[<<i.mint, i.chain>>], i.amount, send)
           /\ send.source = <<i.by, i.mint>>

BridgeTokensLz ==
    /\ Running("release")
    /\ LET i == tx[pc]
       IN  /\ Wrapped(i.from)
           /\ MayBridge(i.by, i.from)
           /\ LevelBridges(level[i.from])
           /\ Open(<<i.mint, i.chain>>, LzOft, i.amount)
           /\ i.amount > 0
           /\ OnlyOurs
           /\ SendFollows(i)
           /\ i.amount <= bal[<<i.from, i.mint>>]
           /\ bal' = Moved(bal, <<i.from, i.mint>>, <<i.by, i.mint>>, i.amount)
    /\ Proceed
    /\ UNCHANGED sent

\* The issuer's program takes the amount, less what it rounds off, from the
\* source account.  It serves mints of its own only.
IssuerSend(dust) ==
    /\ Running("send")
    /\ LET s == tx[pc]
           n == s.amount - dust
       IN  /\ Room
           /\ s.program = Issuer[s.source[2]]
           /\ dust <= s.amount
           /\ n >= s.min
           /\ n <= bal[s.source]
           /\ bal' = Taken(bal, s.source, n)
           /\ sent' = Append(sent,
                 [provider |-> LzOft, mint |-> s.source[2], to |-> s.to,
                  domain |-> s.domain, amount |-> n, least |-> s.min,
                  claimer |-> "anyone", calls |-> FALSE, payer |-> s.source])
    /\ Proceed

\* A transfer between wallets.
Transfer ==
    /\ Running("pay")
    /\ LET i == tx[pc]
       IN  /\ i.amount <= bal[<<i.from, i.mint>>]
           /\ bal' = Moved(bal, <<i.from, i.mint>>, <<i.to, i.mint>>, i.amount)
    /\ Proceed
    /\ UNCHANGED sent

EndTx == tx' = <<>> /\ pc' = 1 /\ before' = EmptyLedger /\ UNCHANGED configVars

Commit ==
    /\ ~Idle
    /\ pc = Len(tx) + 1
    /\ EndTx
    /\ UNCHANGED ledger

\* Any instruction may fail, and takes the whole transaction back.
RollBack ==
    /\ ~Idle
    /\ bal' = before.bal
    /\ sent' = before.sent
    /\ EndTx

-----------------------------------------------------------------------------
\* Withdrawn or borrowed tokens land in a wrapper's account, and anyone may
\* transfer tokens into any account.
Fund(x, n) ==
    /\ Idle
    /\ bal' = [bal EXCEPT ![x] = @ + n]
    /\ bal'[x] <= MaxBalance
    /\ UNCHANGED <<configVars, sent, txVars>>

-----------------------------------------------------------------------------
Settings ==
    \/ ChangeRoles
    \/ \E p \in Position :
          \/ \E a \in Wallet : Wrap(a, p)
          \/ \E l \in Levels : SetWrapperLevel(p, l)
    \/ \E k \in Key, f \in Forms : SetBridgeRoute(k, f)
    \/ \E q \in Program : SetCcipRoute(q)

CallBridge ==
    \E a \in Wallet, p \in Position, m \in Mint, c \in Chain, n \in Amounts :
        \/ \E fee \in Fees : BridgeTokensCctp(a, p, m, c, n, fee)
        \/ BridgeTokensCcip(a, p, m, c, n)

RunTx ==
    \/ \E t \in Transactions : Begin(t)
    \/ BridgeTokensLz
    \/ \E dust \in Dust : IssuerSend(dust)
    \/ Transfer
    \/ Commit
    \/ RollBack

BridgeNext ==
    \/ Settings
    \/ CallBridge
    \/ RunTx
    \/ \E x \in Account, n \in Amounts : Fund(x, n)

BridgeSpec == BridgeInit /\ [][BridgeNext]_bridgeVars

-----------------------------------------------------------------------------
(* Properties *)

\* The ledger as everybody but the running transaction sees it.
Settled == IF Idle THEN [bal |-> bal, sent |-> sent] ELSE before

Purse == Position \X Mint

Loss(x) == Settled.bal[x] - Settled.bal'[x]

\* Packet s takes n out of the wrapper along route r.
Carries(s, r, n) ==
    /\ r # NoRoute
    /\ r.enabled
    /\ n <= r.cap
    /\ <<s.provider, s.to, s.domain>> = <<r.provider, r.to, r.domain>>
    /\ s.amount <= n
    /\ s.least >= n - n \div 100

\* "A bridge caller gives an amount and a chain, never a destination", "Tokens
\* leave the wrapper only through a bridge instruction", "One bridge call moves
\* at most the route's cap" (readme.md): whatever a wrapper loses is, by the
\* time anyone sees it, one packet to the receiver and the chain of an enabled
\* route for that token, within its cap, of which 99% must arrive.
LossIsSent ==
    [][\A p \in Position, m \in Mint :
          Loss(<<p, m>>) > 0 =>
             \E c \in Chain, i \in (Len(Settled.sent) + 1)..Len(Settled.sent') :
                 /\ Settled.sent'[i].mint = m
                 /\ Carries(Settled.sent'[i], route[<<m, c>>], Loss(<<p, m>>))]_bridgeVars

\* "LayerZero allows one release per transaction" (readme.md): one send never
\* covers two releases, nor do two.
OneLossAtATime ==
    [][\A x, y \in Purse : Loss(x) > 0 /\ Loss(y) > 0 => x = y]_bridgeVars

Held(b, m) == SumFunction([w \in Wallet |-> b[<<w, m>>]])

Released(m) ==
    SumFunction([p \in Position |-> IF Loss(<<p, m>>) > 0 THEN Loss(<<p, m>>) ELSE 0])

\* "The wallet owns the tokens for zero observable time" (bridge_tokens.rs):
\* no transaction leaves the wallets with more than they had, what an issuer's
\* send may round off apart.
WalletsGainNothing ==
    [][~Idle => \A m \in Mint :
          Held(Settled.bal', m) <= Held(Settled.bal, m) + Released(m) \div 200]_bridgeVars

\* The bridge signer's account is shared by every bridge of a token: what
\* others left there is never spent, and no call leaves anything behind.
BridgeAccountUntouched ==
    [][\A m \in Mint :
          bal'[<<BridgeSigner, m>>] # bal[<<BridgeSigner, m>>] =>
             UNCHANGED sent /\ \A x \in Purse : bal'[x] = bal[x]]_bridgeVars
=============================================================================
