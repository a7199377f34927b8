---------------------------- MODULE BridgeClient ----------------------------
(***************************************************************************)
(* The two bridge tasks of the operator (tasks/solana/bridge.ts) and the   *)
(* builders they use (lib/client/bridge.ts, lib/client/lzSend.ts), over    *)
(* Bridge.                                                                 *)
(*                                                                         *)
(* set-bridge-route writes a route out of the deployment profile.          *)
(* bridge-tokens reads the route, for Chainlink also the CcipRoute, builds *)
(* a transaction out of them and the profile, simulates it and sends it.   *)
(* The admin's own changes and edits of the profile come in between.      *)
(***************************************************************************)
EXTENDS Bridge

CONSTANTS
    Profiles,  \* config/<type>.ts, as it is or will be
    Circle,    \* CCTP_TOKEN_MESSENGER_MINTER_V2
    Flipped    \* the address that --tamper receiver sends to instead

Kind == {"standard-oft", "usdt0", "usdai"}

\* LzTokenProfile.  "The program allows at most 50" (config/types.ts:84).  bare:
\* options is [] or [0, 3].
LzToken == [mint : Mint, program : Program, dstEid : 0..(DomainLimit - 1), kind : Kind,
            minUnderBps : 0..50, bare : {TRUE}]

ASSUME ClientAssumption ==
    /\ Profiles \subseteq [treasury : Address, evmDomain : 0..(DomainLimit - 1),
                           router : Program, selector : Nat, lzTokens : SUBSET LzToken]
    /\ \A p \in Profiles : \A t, u \in p.lzTokens : t.mint = u.mint => t = u
    /\ Circle \in Program
    /\ Flipped \in [Address -> Address]
    /\ \A a \in Address : Flipped[a] # a

VARIABLES
    profile,  \* what the next task loads
    task,     \* the step bridge-tokens is at
    plan      \* its arguments, and what it has read

taskVars == <<profile, task, plan>>

clientVars == <<bridgeVars, taskVars>>

Tampers == {"no", "amount", "receiver", "no-send"}

NoPlan == [tamper |-> "no"]

ClientInit ==
    /\ BridgeInit
    /\ profile \in Profiles
    /\ task = "idle"
    /\ plan = NoPlan

EditProfile ==
    /\ profile' \in Profiles \ {profile}
    /\ UNCHANGED <<bridgeVars, task, plan>>

TokensOf(prof, m) == {t \in prof.lzTokens : t.mint = m}

\* Where each issuer's send lists the sender's token account, from 0.
SourceIndex(kind) ==
    CASE kind = "standard-oft" -> 3
      [] kind = "usdt0" -> 4
      [] kind = "usdai" -> 9

\* The accounts of each issuer's send, in its order.
IssuerAccounts(kind) ==
    CASE kind = "standard-oft" ->
            <<"signer", "peer", "store", "source", "escrow", "mint", "tokenProgram",
              "eventAuthority", "program">>
      [] kind = "usdt0" ->
            <<"signer", "peer", "store", "credits", "source", "escrow", "mint",
              "tokenProgram", "eventAuthority", "program">>
      [] kind = "usdai" ->
            <<"signer", "store", "peer", "enforcedOptions", "pauseConfig", "feeConfig",
              "defaultRateLimit", "rateLimit", "exemption", "source", "escrow",
              "feeDeposit", "mint", "tokenProgram", "eventAuthority", "program">>
-----------------------------------------------------------------------------
(* set-bridge-route *)

Common(prof, enabled, cap) ==
    [to |-> [address |-> prof.treasury, padded |-> TRUE], claimer |-> "anyone",
     gas |-> 0, enabled |-> enabled, cap |-> cap]

With(f, provider, program, domain) ==
    [provider |-> provider, program |-> program, to |-> f.to, domain |-> domain,
     gas |-> f.gas, claimer |-> f.claimer, enabled |-> f.enabled, cap |-> f.cap]

\* What --provider oft, cctp and ccip write for a mint.  --destination-caller
\* is left out or "any".
RouteForms(prof, m, enabled, cap) ==
    LET f == Common(prof, enabled, cap)
    IN  {With([f EXCEPT !.gas = SourceIndex(t.kind)], LzOft, t.program, t.dstEid)
            : t \in TokensOf(prof, m)}
        \cup {With([f EXCEPT !.claimer = claimer], Cctp, Circle, prof.evmDomain)
            : claimer \in {"receiver", "anyone"}}
        \cup {With(f, Ccip, prof.router, prof.selector)}

SetBridgeRouteTask(k, enabled, cap) ==
    /\ \E f \in RouteForms(profile, k[1], enabled, cap) : SetBridgeRoute(k, f)
    /\ UNCHANGED taskVars
-----------------------------------------------------------------------------
(* bridge-tokens *)

PlanKey == <<plan.mint, plan.chain>>

\* A LayerZero route needs the token in the profile; --tamper means nothing to
\* the others.  The operator owns the wrapper or is a sender: what the OnDemand
\* account adds is in Bridge.
ReadRoute(a, p, m, c, n, fee, tamper) ==
    LET r == route[<<m, c>>]
    IN  /\ task = "idle"
        /\ r # NoRoute
        /\ r.provider = LzOft => TokensOf(profile, m) # {}
        /\ tamper # "no" => r.provider = LzOft
        /\ task' = IF r.provider = Ccip THEN "ccip" ELSE "built"
        /\ plan' = [by |-> a, from |-> p, mint |-> m, chain |-> c, amount |-> n,
                    fee |-> fee, tamper |-> tamper, route |-> r, router |-> NoProgram,
                    tokens |-> TokensOf(profile, m)]
        /\ UNCHANGED <<bridgeVars, profile>>

ReadCcipRoute ==
    /\ task = "ccip"
    /\ router # NoProgram
    /\ task' = "built"
    /\ plan' = [plan EXCEPT !.router = router]
    /\ UNCHANGED <<bridgeVars, profile>>

\* Mutant: the headroom is rounded up.
MutLzMinAmount(n, bps) == n - (n * bps + 9999) \div 10000

LzMinAmount(n, bps) == n - (n * bps) \div 10000

LzRelease ==
    [do |-> "release", top |-> TRUE, by |-> plan.by, from |-> plan.from,
     mint |-> plan.mint, chain |-> plan.chain, amount |-> plan.amount]

IssuerSendOf(t) ==
    LET n == IF plan.tamper = "amount" THEN plan.amount - 1 ELSE plan.amount
    IN  [do |-> "send", program |-> t.program, source |-> <<plan.by, plan.mint>>,
         domain |-> t.dstEid,
         to |-> IF plan.tamper = "receiver" THEN [plan.route.to EXCEPT !.address = Flipped[@]]
                ELSE plan.route.to,
         amount |-> n, min |-> LzMinAmount(n, t.minUnderBps), bare |-> t.bare]

LzPair(t) ==
    IF plan.tamper = "no-send" THEN <<LzRelease>> ELSE <<LzRelease, IssuerSendOf(t)>>

\* The accounts that Circle and Chainlink check are those of the route and of
\* the CcipRoute that the task read.  One less than 0 is no u64: the send cannot
\* be encoded.
Reaches ==
    /\ plan.route.provider = Cctp => route[PlanKey].domain = plan.route.domain
    /\ plan.route.provider = Ccip => router = plan.router

Submit ==
    /\ task = "built"
    /\ IsOwner(plan.by, plan.from) \/ IsSender(plan.by)
    /\ Reaches
    /\ \/ /\ plan.route.provider = Cctp
          /\ BridgeTokensCctp(plan.by, plan.from, plan.mint, plan.chain, plan.amount, plan.fee)
       \/ /\ plan.route.provider = Ccip
          /\ BridgeTokensCcip(plan.by, plan.from, plan.mint, plan.chain, plan.amount)
       \/ /\ plan.route.provider = LzOft
          /\ plan.tamper = "amount" => plan.amount > 0
          /\ \E t \in plan.tokens : Begin(LzPair(t))
    /\ task' = IF plan.route.provider = LzOft THEN "sent" ELSE "idle"
    /\ plan' = IF plan.route.provider = LzOft THEN plan ELSE NoPlan
    /\ UNCHANGED profile

\* The transaction is over; or an account is missing, the simulation fails, the
\* run is dry, the program refuses, or the confirmation does not come.
Finish ==
    /\ task # "idle"
    /\ task = "sent" => Idle
    /\ task' = "idle"
    /\ plan' = NoPlan
    /\ UNCHANGED <<bridgeVars, profile>>

BridgeTokensTask ==
    \/ \E a \in Wallet, p \in Position, m \in Mint, c \in Chain, n \in Amounts, fee \in Fees,
          tamper \in Tampers : ReadRoute(a, p, m, c, n, fee, tamper)
    \/ ReadCcipRoute
    \/ Submit
    \/ Finish

\* What happens beside the tasks: settings, tokens that come in, and other
\* transactions.  Who else may call is Bridge's own subject.
Elsewhere ==
    \/ \E p \in Position :
          \/ \E a \in Wallet : Wrap(a, p)
          \/ \E l \in Levels : SetWrapperLevel(p, l)
          \/ \E m \in Mint, n \in Amounts : Fund(<<p, m>>, n)
    \/ \E k \in Key, f \in Forms : SetBridgeRoute(k, f)
    \/ \E q \in Program : SetCcipRoute(q)
    \/ RunTx

ClientNext ==
    \/ Elsewhere /\ UNCHANGED taskVars
    \/ EditProfile
    \/ \E k \in Key, enabled \in BOOLEAN, cap \in Amounts : SetBridgeRouteTask(k, enabled, cap)
    \/ BridgeTokensTask

ClientSpec == ClientInit /\ [][ClientNext]_clientVars
-----------------------------------------------------------------------------
(* Properties *)

\* The route in force is one that the task writes from this token's profile.
WrittenFrom(t, r) == <<r.program, r.domain, r.gas>> = <<t.program, t.dstEid, SourceIndex(t.kind)>>

\* The tasks and the program agree (bridge.ts, lzSend.ts; bridge_tokens.rs:103,
\* 697, 736): every route the profile yields can be stored, and what
\* bridge-tokens built from the route that is still in force and the profile
\* the route came from passes every check of the release, headroom, slot of
\* the source account and rounding included.
ClientAgrees ==
    /\ \A m \in Mint, n \in Amounts : \A f \in RouteForms(profile, m, TRUE, n) : Storable(f)
    /\ (task = "built" /\ plan.tamper = "no" /\ plan.route.provider = LzOft
           /\ route[PlanKey] = plan.route) =>
          \A t \in plan.tokens : WrittenFrom(t, plan.route) =>
             /\ IssuerSendOf(t).program = plan.route.program
             /\ CheckLzSend(plan.route, plan.amount, IssuerSendOf(t))
             /\ IssuerAccounts(t.kind)[plan.route.gas + 1] = "source"

\* "TAMPERED: the program must refuse this" (tasks/solana/bridge.ts:281): no
\* release runs in a transaction that --tamper built, as long as the route is
\* the one the task read.
TamperedIsRefused ==
    [][(task = "sent" /\ plan.tamper # "no" /\ route[PlanKey] = plan.route
           /\ \E t \in plan.tokens : tx = LzPair(t))
          => ~BridgeTokensLz]_clientVars
=============================================================================
