-------------------------- MODULE BridgeClientProofs --------------------------
(***************************************************************************)
(* Theorems about BridgeClient, for every profile, route, wrapper and      *)
(* amount; and about the bridges in the hands of the operator's tasks.     *)
(***************************************************************************)
EXTENDS BridgeClient, BridgeProofs

USE BridgeAssumption, ClientAssumption

-----------------------------------------------------------------------------
(* What the builders compute *)

\* A headroom of at most 50 basis points is at most what the program allows,
\* although each side rounds in its own way.
LEMMA HeadroomFits ==
    ASSUME NEW n \in Nat, NEW bps \in 0..50
    PROVE  LzMinAmount(n, bps) >= n - n \div 200
<1>1. n * bps <= n * 50 /\ n * bps \in Nat
  <2>1. PICK r \in Nat : bps + r = 50
    <3>1. 50 - bps \in Nat /\ bps + (50 - bps) = 50
      OBVIOUS
    <3> QED BY <3>1
  <2>2. n * 50 = n * bps + n * r
    BY <2>1
  <2>3. n * bps \in Nat /\ n * r \in Nat
    BY <2>1
  <2> QED BY <2>2, <2>3
<1> DEFINE x == n * bps
<1>2. x \in Nat /\ x <= 50 * n
  BY <1>1
<1> HIDE DEF x
<1>3. x \div 10000 <= n \div 200
  BY <1>2
<1>4. LzMinAmount(n, bps) = n - x \div 10000
  BY DEF LzMinAmount, x
<1> QED BY <1>2, <1>3, <1>4

\* The slot that the profile's kind gives is the sender's token account, and
\* fits the byte that the route keeps for it.
LEMMA SourceSlot ==
    ASSUME NEW kind \in Kind
    PROVE  SourceIndex(kind) \in 1..63 /\ IssuerAccounts(kind)[SourceIndex(kind) + 1] = "source"
<1>1. CASE kind = "standard-oft"
  BY <1>1 DEF SourceIndex, IssuerAccounts
<1>2. CASE kind = "usdt0"
  BY <1>2 DEF SourceIndex, IssuerAccounts
<1>3. CASE kind = "usdai"
  BY <1>3 DEF SourceIndex, IssuerAccounts
<1> QED BY <1>1, <1>2, <1>3 DEF Kind

LEMMA ProfileTyped ==
    ASSUME NEW prof \in Profiles
    PROVE  /\ prof.treasury \in Address /\ prof.treasury # ZeroAddress
           /\ prof.evmDomain \in 0..(DomainLimit - 1)
           /\ prof.router \in Program /\ prof.selector \in Nat
           /\ \A m \in Mint : TokensOf(prof, m) \subseteq LzToken
<1>1. prof \in [treasury : Address, evmDomain : 0..(DomainLimit - 1),
                router : Program, selector : Nat, lzTokens : SUBSET LzToken]
  OBVIOUS
<1>2. prof.lzTokens \subseteq LzToken
  BY <1>1
<1> QED BY <1>1, <1>2 DEF TokensOf

\* Whatever profile is loaded, each of the three providers' routes is one that
\* the program stores.
LEMMA TaskRoutes ==
    ASSUME NEW prof \in Profiles, NEW m \in Mint, NEW enabled \in BOOLEAN, NEW cap \in Nat,
           NEW f \in RouteForms(prof, m, enabled, cap)
    PROVE  f \in Form /\ Storable(f)
<1> DEFINE to == [address |-> prof.treasury, padded |-> TRUE]
<1>1. /\ to \in Receiver /\ to.padded /\ to.address # ZeroAddress
  BY ProfileTyped DEF Receiver
<1>2. ASSUME NEW t \in TokensOf(prof, m),
             f = With([Common(prof, enabled, cap) EXCEPT !.gas = SourceIndex(t.kind)],
                      LzOft, t.program, t.dstEid)
      PROVE  f \in Form /\ Storable(f)
  <2>1. t \in LzToken
    BY ProfileTyped
  <2>2. /\ t.program \in Program /\ t.dstEid \in 0..(DomainLimit - 1)
        /\ SourceIndex(t.kind) \in 1..63
    BY <2>1, SourceSlot DEF LzToken
  <2>3. f = [provider |-> LzOft, program |-> t.program, to |-> to, domain |-> t.dstEid,
             gas |-> SourceIndex(t.kind), claimer |-> "anyone", enabled |-> enabled, cap |-> cap]
    BY <1>2 DEF With, Common
  <2> DEFINE slot == SourceIndex(t.kind)
             limit == DomainLimit
             eid == t.dstEid
  <2>4. eid \in Nat /\ eid < limit
    <3>1. eid \in 0..(limit - 1) /\ limit \in Nat
      BY <2>2
    <3> HIDE DEF eid, limit
    <3> QED BY ONLY <3>1
  <2>5. slot \in 1..63 /\ slot \in Nat
    <3>1. slot \in 1..63
      BY <2>2
    <3> HIDE DEF slot
    <3> QED BY <3>1
  <2> HIDE DEF to, slot
  <2>6. f = [provider |-> 3, program |-> t.program, to |-> to, domain |-> t.dstEid,
             gas |-> slot, claimer |-> "anyone", enabled |-> enabled, cap |-> cap]
    BY <2>3 DEF LzOft, slot
  <2>7. f \in Form
    BY <1>1, <2>2, <2>4, <2>5, <2>6 DEF Form
  <2>8. Storable(f)
    BY <1>1, <2>4, <2>5, <2>6 DEF Storable, LzOft, Cctp, Ccip
  <2> QED BY <2>7, <2>8
<1>3. ASSUME NEW claimer \in {"receiver", "anyone"},
             f = With([Common(prof, enabled, cap) EXCEPT !.claimer = claimer],
                      Cctp, Circle, prof.evmDomain)
      PROVE  f \in Form /\ Storable(f)
  <2>1. f = [provider |-> Cctp, program |-> Circle, to |-> to, domain |-> prof.evmDomain,
             gas |-> 0, claimer |-> claimer, enabled |-> enabled, cap |-> cap]
    BY <1>3 DEF With, Common
  <2>2. prof.evmDomain \in 0..(DomainLimit - 1)
    BY ProfileTyped
  <2> HIDE DEF to
  <2> QED BY <1>1, <2>1, <2>2 DEF Form, Storable, LzOft, Cctp, Ccip
<1>4. ASSUME f = With(Common(prof, enabled, cap), Ccip, prof.router, prof.selector)
      PROVE  f \in Form /\ Storable(f)
  <2>1. f = [provider |-> Ccip, program |-> prof.router, to |-> to, domain |-> prof.selector,
             gas |-> 0, claimer |-> "anyone", enabled |-> enabled, cap |-> cap]
    BY <1>4 DEF With, Common
  <2>2. prof.router \in Program /\ prof.selector \in Nat
    BY ProfileTyped
  <2> HIDE DEF to
  <2> QED BY <1>1, <2>1, <2>2 DEF Form, Storable, LzOft, Cctp, Ccip
<1> QED BY <1>2, <1>3, <1>4 DEF RouteForms

-----------------------------------------------------------------------------
(* The inductive invariant *)

\* Every stored route is one that set_bridge_route lets through, whoever wrote
\* it and whenever.
RoutesInv ==
    /\ route \in [Key -> Form \cup {NoRoute}]
    /\ \A k \in Key : route[k] # NoRoute => Storable(route[k])
    /\ router \in Program \cup {NoProgram}

\* From ReadRoute on, the plan is complete and its tokens were a profile's.
Plan == [by : Wallet, from : Position, mint : Mint, chain : Chain, amount : Nat,
         fee : Nat, tamper : Tampers, route : {f \in Form : Storable(f)},
         router : Program \cup {NoProgram}, tokens : SUBSET LzToken]

ClientInv ==
    /\ RoutesInv
    /\ profile \in Profiles
    /\ task \in {"idle", "ccip", "built", "sent"}
    /\ task # "idle" => plan \in Plan

LEMMA StoringKeepsRoutes ==
    ASSUME RoutesInv, NEW k \in Key, NEW f \in Form, SetBridgeRoute(k, f)
    PROVE  RoutesInv'
<1>1. /\ Storable(f) /\ route' = [route EXCEPT ![k] = f] /\ router' = router
      /\ route \in [Key -> Form \cup {NoRoute}]
  BY DEF SetBridgeRoute, RoutesInv
<1>2. route' \in [Key -> Form \cup {NoRoute}]
  BY <1>1
<1>3. ASSUME NEW l \in Key, route'[l] # NoRoute
      PROVE  Storable(route'[l])
  <2>1. route'[l] = f \/ (route'[l] = route[l] /\ route[l] # NoRoute)
    BY <1>1, <1>3
  <2> QED BY <1>1, <2>1 DEF RoutesInv
<1>4. \A l \in Key : route[l]' # NoRoute => Storable(route[l])'
  BY <1>3 DEF Storable
<1> QED BY <1>1, <1>2, <1>4 DEF RoutesInv

LEMMA RoutesStay == RoutesInv /\ UNCHANGED <<route, router>> => RoutesInv'
  BY DEF RoutesInv, Storable

\* Transactions and calls move tokens and leave the routes alone.
LEMMA RunningKeepsRoutes ==
    /\ RunTx => UNCHANGED <<route, router>>
    /\ \A t : Begin(t) => UNCHANGED <<route, router>>
    /\ \A a, p, m, c, n, fee : BridgeTokensCctp(a, p, m, c, n, fee) => UNCHANGED <<route, router>>
    /\ \A a, p, m, c, n : BridgeTokensCcip(a, p, m, c, n) => UNCHANGED <<route, router>>
<1>1. \A t : Begin(t) => UNCHANGED <<route, router>>
  BY DEF Begin, configVars
<1>2. RunTx => UNCHANGED <<route, router>>
  BY <1>1 DEF RunTx, BridgeTokensLz, IssuerSend, Transfer, Proceed, Commit, RollBack, EndTx,
              configVars
<1>3. \A a, p, m, c, n, fee : BridgeTokensCctp(a, p, m, c, n, fee) => UNCHANGED <<route, router>>
  BY DEF BridgeTokensCctp, configVars
<1>4. \A a, p, m, c, n : BridgeTokensCcip(a, p, m, c, n) => UNCHANGED <<route, router>>
  BY DEF BridgeTokensCcip, configVars
<1> QED BY <1>1, <1>2, <1>3, <1>4

LEMMA ElsewhereKeepsRoutes == RoutesInv /\ Elsewhere => RoutesInv'
<1> SUFFICES ASSUME RoutesInv, Elsewhere PROVE RoutesInv'
  OBVIOUS
<1>1. ASSUME NEW k \in Key, NEW f \in Forms, SetBridgeRoute(k, f) PROVE RoutesInv'
  BY <1>1, StoringKeepsRoutes
<1>2. ASSUME NEW q \in Program, SetCcipRoute(q) PROVE RoutesInv'
  BY <1>2 DEF SetCcipRoute, RoutesInv, Storable
<1>3. CASE RunTx
  BY <1>3, RunningKeepsRoutes, RoutesStay
<1>4. ASSUME NEW p \in Position,
             \/ \E a \in Wallet : Wrap(a, p)
             \/ \E l \in Levels : SetWrapperLevel(p, l)
             \/ \E m \in Mint, n \in Amounts : Fund(<<p, m>>, n)
      PROVE  RoutesInv'
  BY <1>4, RoutesStay DEF Wrap, SetWrapperLevel, Fund, configVars
<1> QED BY <1>1, <1>2, <1>3, <1>4 DEF Elsewhere

LEMMA ReadRoutePlans ==
    ASSUME ClientInv, NEW a \in Wallet, NEW p \in Position, NEW m \in Mint, NEW c \in Chain,
           NEW n \in Amounts, NEW fee \in Fees, NEW tamper \in Tampers,
           ReadRoute(a, p, m, c, n, fee, tamper)
    PROVE  ClientInv'
<1> DEFINE r == route[<<m, c>>]
<1>1. r # NoRoute /\ UNCHANGED <<route, router, profile>> /\ task' \in {"ccip", "built"}
  BY DEF ReadRoute, bridgeVars, configVars
<1>2. r \in {f \in Form : Storable(f)}
  BY <1>1 DEF ClientInv, RoutesInv, Key
<1>3. TokensOf(profile, m) \subseteq LzToken
  BY ProfileTyped DEF ClientInv
<1>4. plan' = [by |-> a, from |-> p, mint |-> m, chain |-> c, amount |-> n,
               fee |-> fee, tamper |-> tamper, route |-> r, router |-> NoProgram,
               tokens |-> TokensOf(profile, m)]
  BY DEF ReadRoute
<1> HIDE DEF r
<1>5. plan' \in Plan
  BY <1>2, <1>3, <1>4 DEF Plan
<1> QED BY <1>1, <1>5, RoutesStay DEF ClientInv

LEMMA SubmitKeeps == ClientInv /\ Submit => ClientInv'
<1> SUFFICES ASSUME ClientInv, Submit PROVE ClientInv'
  OBVIOUS
<1>1. UNCHANGED <<route, router>>
  <2>1. \/ BridgeTokensCctp(plan.by, plan.from, plan.mint, plan.chain, plan.amount, plan.fee)
        \/ BridgeTokensCcip(plan.by, plan.from, plan.mint, plan.chain, plan.amount)
        \/ \E t : Begin(t)
    BY DEF Submit
  <2> QED BY <2>1, RunningKeepsRoutes
<1>2. /\ profile' = profile /\ task = "built"
      /\ \/ task' = "sent" /\ plan' = plan
         \/ task' = "idle"
  BY DEF Submit
<1> QED BY <1>1, <1>2, RoutesStay DEF ClientInv

LEMMA ClientInitial == ClientInit => ClientInv
  BY DEF ClientInit, ClientInv, BridgeInit, RoutesInv

LEMMA ClientStep == ClientInv /\ [ClientNext]_clientVars => ClientInv'
<1> SUFFICES ASSUME ClientInv, [ClientNext]_clientVars PROVE ClientInv'
  OBVIOUS
<1>1. CASE Elsewhere /\ UNCHANGED taskVars
  BY <1>1, ElsewhereKeepsRoutes DEF ClientInv, taskVars
<1>2. CASE EditProfile
  <2>1. UNCHANGED <<route, router>> /\ profile' \in Profiles /\ task' = task /\ plan' = plan
    BY <1>2 DEF EditProfile, bridgeVars, configVars
  <2> QED BY <2>1, RoutesStay DEF ClientInv
<1>3. ASSUME NEW k \in Key, NEW enabled \in BOOLEAN, NEW cap \in Amounts,
             SetBridgeRouteTask(k, enabled, cap)
      PROVE  ClientInv'
  <2>1. PICK f \in RouteForms(profile, k[1], enabled, cap) : SetBridgeRoute(k, f)
    BY <1>3 DEF SetBridgeRouteTask
  <2>2. k[1] \in Mint /\ cap \in Nat /\ profile \in Profiles
    BY DEF Key, ClientInv
  <2>3. f \in Form
    BY <2>2, TaskRoutes
  <2>4. RoutesInv'
    BY <2>1, <2>3, StoringKeepsRoutes DEF ClientInv
  <2> QED BY <1>3, <2>4 DEF SetBridgeRouteTask, taskVars, ClientInv
<1>4. CASE ReadCcipRoute
  <2>1. /\ UNCHANGED <<route, router, profile>> /\ task = "ccip" /\ task' = "built"
        /\ plan' = [plan EXCEPT !.router = router]
    BY <1>4 DEF ReadCcipRoute, bridgeVars, configVars
  <2>2. plan \in Plan /\ router \in Program \cup {NoProgram}
    BY <2>1 DEF ClientInv, RoutesInv
  <2>3. plan' \in Plan
    BY <2>1, <2>2 DEF Plan
  <2> QED BY <2>1, <2>3, RoutesStay DEF ClientInv
<1>5. CASE Finish
  <2>1. UNCHANGED <<route, router, profile>> /\ task' = "idle"
    BY <1>5 DEF Finish, bridgeVars, configVars
  <2> QED BY <2>1, RoutesStay DEF ClientInv
<1>6. CASE UNCHANGED clientVars
  <2>1. UNCHANGED <<route, router, profile, task, plan>>
    BY <1>6 DEF clientVars, taskVars, bridgeVars, configVars
  <2> QED BY <2>1, RoutesStay DEF ClientInv
<1> QED BY <1>1, <1>2, <1>3, <1>4, <1>5, <1>6, ReadRoutePlans, SubmitKeeps
        DEF ClientNext, BridgeTokensTask

-----------------------------------------------------------------------------
(* The tasks and the program *)

\* Any profile, any route written from it, any amount: what the operator's
\* tasks build is what the program stores and lets through.
THEOREM ClientAgreesAlways == ClientSpec => []ClientAgrees
<1>1. ASSUME ClientInv, NEW m \in Mint, NEW n \in Amounts,
             NEW f \in RouteForms(profile, m, TRUE, n)
      PROVE  Storable(f)
  BY <1>1, TaskRoutes DEF ClientInv
<1>2. ASSUME ClientInv, task = "built", plan.tamper = "no",
             NEW t \in plan.tokens, WrittenFrom(t, plan.route)
      PROVE  /\ IssuerSendOf(t).program = plan.route.program
             /\ CheckLzSend(plan.route, plan.amount, IssuerSendOf(t))
             /\ IssuerAccounts(t.kind)[plan.route.gas + 1] = "source"
  <2>1. plan \in Plan
    BY <1>2 DEF ClientInv
  <2>2. t \in LzToken /\ plan.amount \in Nat
    BY <1>2, <2>1 DEF Plan
  <2>3. t.kind \in Kind /\ t.minUnderBps \in 0..50 /\ t.bare
    BY <2>2 DEF LzToken
  <2>4. /\ plan.route.program = t.program /\ plan.route.domain = t.dstEid
        /\ plan.route.gas = SourceIndex(t.kind)
    BY <1>2 DEF WrittenFrom
  <2>5. LzMinAmount(plan.amount, t.minUnderBps) >= plan.amount - plan.amount \div 200
    BY <2>2, <2>3, HeadroomFits
  <2>6. CheckLzSend(plan.route, plan.amount, IssuerSendOf(t))
    BY <1>2, <2>3, <2>4, <2>5 DEF CheckLzSend, IssuerSendOf
  <2> QED BY <2>3, <2>4, <2>6, SourceSlot DEF IssuerSendOf
<1>3. ClientInv => ClientAgrees
  BY <1>1, <1>2 DEF ClientAgrees
<1> QED BY <1>3, ClientInitial, ClientStep, PTL DEF ClientSpec

\* What --tamper changes is enough for the program to refuse the release.
LEMMA TamperedPair ==
    ASSUME ClientInv, task = "sent", plan.tamper # "no", route[PlanKey] = plan.route,
           NEW t \in plan.tokens, tx = LzPair(t), BridgeTokensLz
    PROVE  FALSE
<1> DEFINE r == plan.route
<1>1. plan \in Plan
  BY DEF ClientInv
<1>2. r \in Form /\ plan.amount \in Nat /\ plan.tamper \in Tampers /\ PlanKey \in Key
  BY <1>1 DEF Plan, PlanKey, Key
<1>3. Storable(r)
  BY <1>2 DEF ClientInv, RoutesInv
<1>4. r.to \in Receiver /\ r.to.address \in Address
  BY <1>2, <1>3 DEF Form, Receiver, Storable
<1>5. pc \in 1..Len(tx) /\ tx[pc].do = "release" /\ SendFollows(tx[pc])
  BY DEF BridgeTokensLz, Running
<1>6. CASE plan.tamper = "no-send"
  <2>1. Len(tx) = 1
    BY <1>6 DEF LzPair
  <2> QED BY <1>5, <2>1 DEF SendFollows
<1>7. CASE plan.tamper # "no-send"
  <2>1. Len(tx) = 2 /\ tx[1] = LzRelease /\ tx[2] = IssuerSendOf(t)
    BY <1>7 DEF LzPair
  <2>2. pc = 1
    <3>1. IssuerSendOf(t).do # "release"
      BY DEF IssuerSendOf
    <3> QED BY <1>5, <2>1, <3>1
  <2>3. CheckLzSend(route[<<tx[1].mint, tx[1].chain>>], tx[1].amount, tx[2])
    BY <1>5, <2>2 DEF SendFollows
  <2>4. CheckLzSend(r, plan.amount, IssuerSendOf(t))
    BY <2>1, <2>3 DEF LzRelease, PlanKey
  <2>5. CASE plan.tamper = "amount"
    BY <1>2, <2>4, <2>5 DEF CheckLzSend, IssuerSendOf
  <2>6. CASE plan.tamper = "receiver"
    <3>1. IssuerSendOf(t).to = [r.to EXCEPT !.address = Flipped[@]]
      BY <2>6 DEF IssuerSendOf
    <3>2. [r.to EXCEPT !.address = Flipped[@]].address = Flipped[r.to.address]
      BY <1>4 DEF Receiver
    <3>3. Flipped[r.to.address] # r.to.address
      BY <1>4
    <3> QED BY <2>4, <3>1, <3>2, <3>3 DEF CheckLzSend
  <2> QED BY <1>2, <1>7, <2>5, <2>6 DEF Tampers
<1> QED BY <1>6, <1>7

\* Each of the three ways to tamper is refused on chain, for any profile and
\* any amount.
THEOREM TamperedNeverRuns == ClientSpec => TamperedIsRefused
<1>1. ClientInv =>
        [(task = "sent" /\ plan.tamper # "no" /\ route[PlanKey] = plan.route
            /\ \E t \in plan.tokens : tx = LzPair(t)) => ~BridgeTokensLz]_clientVars
  BY TamperedPair
<1> QED BY <1>1, ClientInitial, ClientStep, PTL DEF ClientSpec, TamperedIsRefused

-----------------------------------------------------------------------------
(* The wrappers, with the tasks at work *)

LEMMA MinIsNat ==
    ASSUME NEW n \in Nat, NEW bps \in 0..50
    PROVE  LzMinAmount(n, bps) \in Nat
<1> DEFINE cut == (n * bps) \div 10000
<1>1. n * bps \in Nat /\ n * bps <= 50 * n
  OBVIOUS
<1>2. cut \in Nat /\ cut <= n
  BY <1>1
<1> QED BY <1>2 DEF LzMinAmount

\* What --tamper and the library put into a transaction are instructions of the
\* chain, whatever the profile says of the token.
LEMMA PairIsTransaction ==
    ASSUME ClientInv, task = "built", NEW t \in plan.tokens,
           plan.tamper = "amount" => plan.amount > 0
    PROVE  LzPair(t) \in Transaction
<1>1. plan \in Plan
  BY DEF ClientInv
<1>2. /\ plan.by \in Wallet /\ plan.from \in Position /\ plan.mint \in Mint
      /\ plan.chain \in Chain /\ plan.amount \in Nat
      /\ plan.route \in Form /\ Storable(plan.route) /\ t \in LzToken
  BY <1>1 DEF Plan
<1>3. LzRelease \in Release
  BY <1>2 DEF LzRelease, Release
<1>4. IssuerSendOf(t) \in Send
  <2> DEFINE n == IF plan.tamper = "amount" THEN plan.amount - 1 ELSE plan.amount
             to == IF plan.tamper = "receiver"
                   THEN [plan.route.to EXCEPT !.address = Flipped[@]]
                   ELSE plan.route.to
  <2>1. n \in Nat
    BY <1>2
  <2>2. to \in Receiver
    <3> DEFINE r == plan.route.to
    <3>1. r \in Receiver /\ r.address # ZeroAddress
      BY <1>2 DEF Form, Storable
    <3>2. r.address \in Address /\ r.padded \in BOOLEAN
      BY <3>1 DEF Receiver
    <3> HIDE DEF r
    <3>3. Flipped[r.address] \in Address
      BY <3>2
    <3>4. [r EXCEPT !.address = Flipped[r.address]] \in Receiver
      BY <3>1, <3>2, <3>3 DEF Receiver
    <3> QED BY <3>1, <3>4 DEF r
  <2>3. /\ t.program \in Program /\ t.dstEid \in Nat /\ t.minUnderBps \in 0..50
        /\ t.bare \in BOOLEAN
    <3>1. t.program \in Program /\ t.minUnderBps \in 0..50 /\ t.bare \in {TRUE}
      BY <1>2 DEF LzToken
    <3> DEFINE eid == t.dstEid
               limit == DomainLimit
    <3>2. eid \in 0..(limit - 1) /\ limit \in Nat
      BY <1>2 DEF LzToken
    <3> HIDE DEF eid, limit
    <3>3. eid \in Nat
      BY ONLY <3>2
    <3> QED BY <3>1, <3>3 DEF eid
  <2>4. <<plan.by, plan.mint>> \in Wallet \X Mint
    BY <1>2
  <2>5. IssuerSendOf(t) =
          [do |-> "send", program |-> t.program, source |-> <<plan.by, plan.mint>>,
           domain |-> t.dstEid, to |-> to, amount |-> n,
           min |-> LzMinAmount(n, t.minUnderBps), bare |-> t.bare]
    BY DEF IssuerSendOf
  <2> HIDE DEF n, to
  <2>6. LzMinAmount(n, t.minUnderBps) \in Nat
    BY <2>1, <2>3, MinIsNat
  <2> QED BY <2>1, <2>2, <2>3, <2>4, <2>5, <2>6 DEF Send
<1> DEFINE i == LzRelease
           j == IssuerSendOf(t)
           any == Release \cup Send \cup Pay
<1>5. i \in any /\ j \in any
  BY <1>3, <1>4
<1>6. LzPair(t) \in {<<i>>, <<i, j>>}
  BY DEF LzPair
<1> HIDE DEF i, j, any
<1>7. <<i>> \in Seq(any) /\ <<i, j>> \in Seq(any)
  BY <1>5
<1>8. LzPair(t) \in Seq(any)
  BY <1>6, <1>7, Zenon
<1> QED BY <1>8 DEF Transaction, any

LEMMA ClientStepIsBridge == ClientInv /\ [ClientNext]_clientVars => [AnyNext]_bridgeVars
<1> SUFFICES ASSUME ClientInv, [ClientNext]_clientVars PROVE [AnyNext]_bridgeVars
  OBVIOUS
<1>1. CASE Elsewhere
  <2>1. ASSUME NEW p \in Position, NEW m \in Mint, NEW n \in Amounts, Fund(<<p, m>>, n)
        PROVE  AnyNext
    <3>1. <<p, m>> \in Account
      BY DEF Account
    <3> QED BY <2>1, <3>1 DEF AnyNext
  <2>2. RunTx => AnyTx
    BY DEF RunTx, AnyTx, Transaction
  <2> QED BY <1>1, <2>1, <2>2 DEF Elsewhere, AnyNext, AnySettings
<1>2. ASSUME NEW k \in Key, NEW enabled \in BOOLEAN, NEW cap \in Amounts,
             SetBridgeRouteTask(k, enabled, cap)
      PROVE  AnyNext
  <2>1. PICK f \in RouteForms(profile, k[1], enabled, cap) : SetBridgeRoute(k, f)
    BY <1>2 DEF SetBridgeRouteTask
  <2>2. k[1] \in Mint /\ cap \in Nat /\ profile \in Profiles
    BY DEF Key, ClientInv
  <2>3. f \in Form
    BY <2>2, TaskRoutes
  <2> QED BY <2>1, <2>3 DEF AnyNext, AnySettings
<1>3. CASE Submit
  <2>1. /\ plan.by \in Wallet /\ plan.from \in Position /\ plan.mint \in Mint
        /\ plan.chain \in Chain /\ plan.amount \in Nat /\ plan.fee \in Nat
        /\ task = "built"
    BY <1>3 DEF Submit, ClientInv, Plan
  <2>2. ASSUME NEW t \in plan.tokens, plan.tamper = "amount" => plan.amount > 0,
               Begin(LzPair(t))
        PROVE  AnyNext
    BY <2>1, <2>2, PairIsTransaction DEF AnyNext, AnyTx
  <2> QED BY <1>3, <2>1, <2>2 DEF Submit, AnyNext, AnyCall
<1>4. CASE EditProfile \/ ReadCcipRoute \/ Finish \/ UNCHANGED clientVars
  BY <1>4 DEF EditProfile, ReadCcipRoute, Finish, clientVars
<1>5. ASSUME NEW a \in Wallet, NEW p \in Position, NEW m \in Mint, NEW c \in Chain,
             NEW n \in Amounts, NEW fee \in Fees, NEW tamper \in Tampers,
             ReadRoute(a, p, m, c, n, fee, tamper)
      PROVE  UNCHANGED bridgeVars
  BY <1>5 DEF ReadRoute
<1> QED BY <1>1, <1>2, <1>3, <1>4, <1>5 DEF ClientNext, BridgeTokensTask

\* Whatever profile is loaded, however it is edited between the steps of a task
\* and whatever --tamper changes, an operator who bridges with the tasks does
\* no more than the program allows everybody: a wrapper loses what one packet
\* carries along an enabled route and wallets gain nothing.
THEOREM TasksKeepBridge ==
    ClientSpec => []BridgeInv /\ LossIsSent /\ OneLossAtATime /\ WalletsGainNothing
                              /\ BridgeAccountUntouched
<1>1. ClientSpec => AnySpec
  <2>1. ClientInit => BridgeInit
    BY DEF ClientInit
  <2> QED BY <2>1, ClientInitial, ClientStep, ClientStepIsBridge, PTL DEF ClientSpec, AnySpec
<1> QED BY <1>1, AnyInvariant, AnyLosses, AnyOneLoss, AnyWallets, AnySigner
=============================================================================
