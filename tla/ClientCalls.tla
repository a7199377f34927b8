---------------------------- MODULE ClientCalls ----------------------------
(***************************************************************************)
(* Calls built by the client library (lib/client) and run by the program.  *)
(*                                                                         *)
(* The client derives addresses and reads what it cannot derive; by the    *)
(* time the call runs the chain may have changed.  Who may call, levels,   *)
(* custody and amounts are other modules' matter: here every caller may.   *)
(***************************************************************************)
EXTENDS ClientInstructions, FiniteSets, TLC

-----------------------------------------------------------------------------
(* Addresses *)

Known(name) == <<"key", name>>
Pda(program, seeds) == <<"pda", program, seeds>>
Ata(owner, program, mint) == <<"ata", owner, program, mint>>

Text(text) == <<"text", text>>
KeyOf(address) == <<"bytes", address>>
VaultId == <<"u16le", "vaultId">>
NftId == <<"u32le", "nftId">>
DstEid == <<"u32be", "dstEid">>
DstChainId == <<"u64le", "dstChainId">>

Self == Known("lendmirror")
SystemProgram == Known("system")
TokenProgram == Known("token")
Token2022 == Known("token2022")
AssociatedToken == Known("associatedToken")
Vaults == Known("vaults")
TokenMessengerMinter == Known("tokenMessengerMinter")
MessageTransmitter == Known("messageTransmitter")
NativeMint == Known("nativeMint")
Caller == Known("wallet")
Token == Known("mint")
NoKey == Known("none")

ClientSeed ==
    [STORE |-> "LendMirrorStoreV1", PEER |-> "LendMirrorPeerV1",
     JUP_POSITION |-> "LendMirrorJupPositionV1",
     CCIP_ROUTE |-> "LendMirrorCcipRouteV1", CCIP_PAYER |-> "LendMirrorCcipPayerV1",
     WRAPPER |-> "LendMirrorPositionWrapperV1", ONDEMAND |-> "LendMirrorOnDemandV1",
     WRAPPER_AUTH |-> "LendMirrorWrapperAuthV1",
     BRIDGE_ROUTE |-> "LendMirrorBridgeRouteV1"]

ProgramSeed ==
    [STORE |-> "LendMirrorStoreV1", PEER |-> "LendMirrorPeerV1",
     JUP_POSITION |-> "LendMirrorJupPositionV1",
     CCIP_ROUTE |-> "LendMirrorCcipRouteV1", CCIP_PAYER |-> "LendMirrorCcipPayerV1",
     WRAPPER |-> "LendMirrorPositionWrapperV1", ONDEMAND |-> "LendMirrorOnDemandV1",
     WRAPPER_AUTH |-> "LendMirrorWrapperAuthV1",
     BRIDGE_ROUTE |-> "LendMirrorBridgeRouteV1"]

-----------------------------------------------------------------------------
(* The chain, as far as client and program read it: the program's own        *)
(* accounts that exist, the wrapper's owner, the position's tick, the        *)
(* CcipRoute, the bridge route and the token program of the bridged mint;    *)
(* chainlink is what the router itself is set to use.                        *)

Made == {"store", "wrapper", "ondemand", "peer", "ccipRoute", "bridgeRoute"}

ChainlinkA ==
    [feeQuoter |-> Known("feeQuoterA"), rmnRemote |-> Known("rmnRemoteA"),
     linkMint |-> Known("linkA")]

RouteA == ChainlinkA @@ [router |-> Known("routerA"), selector |-> "selectorA"]

Bridges ==
    {[provider |-> "cctp", program |-> TokenMessengerMinter,
      domainOrSelector |-> "domainA"],
     [provider |-> "ccip", program |-> RouteA.router,
      domainOrSelector |-> RouteA.selector],
     [provider |-> "lz", program |-> Known("issuer"), domainOrSelector |-> "domainA"]}

Settled ==
    [made : {Made}, owner : {Known("ownerA")}, tick : {"tickA"}, ccip : {RouteA},
     chainlink : {ChainlinkA}, bridge : Bridges, mintProgram : {TokenProgram, Token2022}]

\* One thing that the admin, a depositor or the market changes, or an account
\* that is not there yet.
Changed(chain) ==
    {[chain EXCEPT !.made = Made \ {name}] : name \in Made}
    \cup {[chain EXCEPT !.owner = Known("ownerB")], [chain EXCEPT !.tick = "tickB"]}
    \cup {[chain EXCEPT !.bridge = bridge] : bridge \in Bridges}
    \cup {[chain EXCEPT !.bridge.domainOrSelector = "domainB"]}

\* Two places name the same thing: the CcipRoute repeats the bridge route's router
\* and destination and Chainlink's own programs and fee token.  Each is changed by
\* itself, so that one, the other, both or neither may be the new one.
Repeated(chain) ==
    {{[chain EXCEPT !.ccip.router = x, !.bridge.program = y] :
        x \in {chain.ccip.router, Known("routerB")},
        y \in {chain.bridge.program, Known("routerB")}},
     {[chain EXCEPT !.ccip.selector = x, !.bridge.domainOrSelector = y] :
        x \in {chain.ccip.selector, "selectorB"},
        y \in {chain.bridge.domainOrSelector, "selectorB"}},
     {[chain EXCEPT !.ccip.feeQuoter = x, !.chainlink.feeQuoter = y] :
        x, y \in {chain.ccip.feeQuoter, Known("feeQuoterB")}},
     {[chain EXCEPT !.ccip.rmnRemote = x, !.chainlink.rmnRemote = y] :
        x, y \in {chain.ccip.rmnRemote, Known("rmnRemoteB")}},
     {[chain EXCEPT !.ccip.linkMint = x, !.chainlink.linkMint = y] :
        x, y \in {chain.ccip.linkMint, Known("linkB")}}}

\* What a client saw, and what its call meets.  No account is ever closed.
Moments ==
    LET around(chain) ==
            ({chain} \X Changed(chain)) \cup (Changed(chain) \X {chain})
            \cup {<<other, other>> : other \in Changed(chain)}
            \cup UNION {twice \X twice : twice \in Repeated(chain)}
    IN {m \in UNION {around(chain) : chain \in Settled} : m[1].made \subseteq m[2].made}

-----------------------------------------------------------------------------
(* The client's addresses *)

ClientPda(seed, rest) == Pda(Self, <<Text(ClientSeed[seed])>> \o rest)

programData == Pda(Known("loader"), <<KeyOf(Self)>>)
oapp == ClientPda("STORE", <<>>)

\* Mutant: the endpoint's number in the other byte order.
MutPeer == ClientPda("PEER", <<KeyOf(oapp), <<"u32le", "dstEid">>>>)

peer == ClientPda("PEER", <<KeyOf(oapp), DstEid>>)
jupPosition == ClientPda("JUP_POSITION", <<VaultId, NftId>>)
wrapper == ClientPda("WRAPPER", <<VaultId, NftId>>)
ondemand == ClientPda("ONDEMAND", <<KeyOf(wrapper)>>)
wrapperAuthority == ClientPda("WRAPPER_AUTH", <<KeyOf(wrapper)>>)
ccipRouteAddress == ClientPda("CCIP_ROUTE", <<>>)
ccipPayerAddress == ClientPda("CCIP_PAYER", <<>>)
bridgeRouteAddress == ClientPda("BRIDGE_ROUTE", <<KeyOf(Token), DstChainId>>)

endpointSetting == Pda(Known("endpoint"), <<Text("Endpoint")>>)

jupiterPositionPda == Pda(Vaults, <<Text("position"), VaultId, NftId>>)
jupiterPositionMintPda == Pda(Vaults, <<Text("position_mint"), VaultId, NftId>>)
jupiterVaultStatePda == Pda(Vaults, <<Text("vault_state"), VaultId>>)
jupiterVaultConfigPda == Pda(Vaults, <<Text("vault_config"), VaultId>>)
jupiterTickPda(tick) == Pda(Vaults, <<Text("tick"), VaultId, <<"tick", tick>>>>)

selectorOf(route) == <<"u64le", route.selector>>

ccipSendAccounts(route, payer) ==
    LET billing == Pda(route.router, <<Text("fee_billing_signer")>>)
        tokenConfig(mint) ==
            Pda(route.feeQuoter, <<Text("fee_billing_token_config"), KeyOf(mint)>>)
    IN [config |-> Pda(route.router, <<Text("config")>>),
        destChainState |->
            Pda(route.router, <<Text("dest_chain_state"), selectorOf(route)>>),
        nonce |-> Pda(route.router, <<Text("nonce"), selectorOf(route), KeyOf(payer)>>),
        feeTokenMint |-> NativeMint,
        feeTokenUser |-> SystemProgram,
        feeTokenReceiver |-> Ata(billing, TokenProgram, NativeMint),
        feeBillingSigner |-> billing,
        feeQuoterConfig |-> Pda(route.feeQuoter, <<Text("config")>>),
        feeQuoterDestChain |->
            Pda(route.feeQuoter, <<Text("dest_chain"), selectorOf(route)>>),
        feeQuoterBillingTokenConfig |-> tokenConfig(NativeMint),
        feeQuoterLinkTokenConfig |-> tokenConfig(route.linkMint),
        rmnRemoteCurses |-> Pda(route.rmnRemote, <<Text("curses")>>),
        rmnRemoteConfig |-> Pda(route.rmnRemote, <<Text("config")>>),
        tokenPoolsSigner |-> Pda(route.router, <<Text("external_token_pools_signer")>>)]

cctpAccounts(mint, owner, domain) ==
    [senderAuthorityPda |-> Pda(TokenMessengerMinter, <<Text("sender_authority")>>),
     denylistAccount |->
        Pda(TokenMessengerMinter, <<Text("denylist_account"), KeyOf(owner)>>),
     messageTransmitter |-> Pda(MessageTransmitter, <<Text("message_transmitter")>>),
     tokenMessenger |-> Pda(TokenMessengerMinter, <<Text("token_messenger")>>),
     remoteTokenMessenger |->
        Pda(TokenMessengerMinter,
            <<Text("remote_token_messenger"), <<"decimal", domain>>>>),
     tokenMinter |-> Pda(TokenMessengerMinter, <<Text("token_minter")>>),
     localToken |-> Pda(TokenMessengerMinter, <<Text("local_token"), KeyOf(mint)>>),
     eventAuthority |-> Pda(TokenMessengerMinter, <<Text("__event_authority")>>)]

-----------------------------------------------------------------------------
(* The library's methods: the accounts that each passes to the generated     *)
(* instruction, by name.                                                     *)

ata(owner, mint, tokenProgram) == Ata(owner, tokenProgram, mint)
nftAta(owner) == ata(owner, jupiterPositionMintPda, TokenProgram)

\* Mutant: the list's address is passed whether or not it is attached.
MutOndemandIfAttached(seen) == [name \in {"ondemand"} |-> ondemand]

\* The wrapper's OnDemand list if it is attached, else undefined.
ondemandIfAttached(seen) ==
    [name \in {"ondemand"} \cap seen.made |-> ondemand]

ByAdmin == [admin |-> Caller, store |-> oapp]
ByWallet == [authority |-> Caller, store |-> oapp, wrapper |-> wrapper]

setWrapperLevel == ByAdmin @@ [wrapper |-> wrapper]

depositPositionNft ==
    ByWallet
    @@ [wrapperAuthority |-> wrapperAuthority, vaultsProgram |-> Vaults,
        positionMint |-> jupiterPositionMintPda, sourceNftAta |-> nftAta(Caller),
        wrapperNftAta |-> nftAta(wrapperAuthority), tokenProgram |-> TokenProgram,
        associatedTokenProgram |-> AssociatedToken]

releasePositionNft(seen) ==
    ByAdmin
    @@ [wrapper |-> wrapper, wrapperAuthority |-> wrapperAuthority,
        owner |-> seen.owner,
        positionMint |-> jupiterPositionMintPda,
        wrapperNftAta |-> nftAta(wrapperAuthority), ownerNftAta |-> nftAta(seen.owner),
        tokenProgram |-> TokenProgram, associatedTokenProgram |-> AssociatedToken]

wrapPosition == ByWallet

attachOndemand == [authority |-> Caller, wrapper |-> wrapper, ondemand |-> ondemand]

setOndemandCallers == [authority |-> Caller, wrapper |-> wrapper, ondemand |-> ondemand]

\* The liquidation record and the branches are LiveRefresh's matter: this
\* position has none.
JupiterAccounts(seen) ==
    [vaultsProgram |-> Vaults, position |-> jupiterPositionPda,
     vaultState |-> jupiterVaultStatePda, vaultConfig |-> jupiterVaultConfigPda,
     tick |-> jupiterTickPda(seen.tick)]

refreshWrapper(seen) == ByWallet @@ JupiterAccounts(seen) @@ ondemandIfAttached(seen)

getJupiterPosition(seen) ==
    [authority |-> Caller, payer |-> Caller, store |-> oapp,
     positionStore |-> jupPosition]
    @@ JupiterAccounts(seen)

initStore ==
    [payer |-> Caller, store |-> oapp, program |-> Self, programData |-> programData]

sendPayload(seen) ==
    ByWallet @@ ondemandIfAttached(seen)
    @@ ccipSendAccounts(seen.ccip, ccipPayerAddress)
    @@ [peer |-> peer, endpoint |-> endpointSetting, ccipPayer |-> ccipPayerAddress,
        ccipRoute |-> ccipRouteAddress, feeTokenProgram |-> TokenProgram,
        feeQuoter |-> seen.ccip.feeQuoter, rmnRemote |-> seen.ccip.rmnRemote,
        ccipRouter |-> seen.ccip.router]

setSnapshotters == ByAdmin

setSenders == ByAdmin

setPeerConfig == ByAdmin @@ [peer |-> peer]

quotePayload ==
    [store |-> oapp, wrapper |-> wrapper, peer |-> peer, endpoint |-> endpointSetting]

\* The call by which a wrapper's authority acts at Jupiter.
operatePosition(seen) ==
    ByWallet @@ ondemandIfAttached(seen)
    @@ [wrapperAuthority |-> wrapperAuthority, vaultsProgram |-> Vaults]

setBridgeRoute == ByAdmin @@ [bridgeRoute |-> bridgeRouteAddress]

\* What the three bridges share.
Bridging(seen, tokenProgram) ==
    ByWallet @@ ondemandIfAttached(seen)
    @@ [wrapperAuthority |-> wrapperAuthority, bridgeRoute |-> bridgeRouteAddress,
        mint |-> Token, wrapperAta |-> ata(wrapperAuthority, Token, tokenProgram),
        tokenProgram |-> tokenProgram, associatedTokenProgram |-> AssociatedToken]

bridgeTokensCctp(seen) ==
    Bridging(seen, TokenProgram)
    @@ cctpAccounts(Token, ccipPayerAddress, seen.bridge.domainOrSelector)
    @@ [bridgeSigner |-> ccipPayerAddress,
        bridgeAta |-> ata(ccipPayerAddress, Token, TokenProgram),
        messageSentEventData |-> Known("eventData"),
        messageTransmitterProgram |-> MessageTransmitter,
        tokenMessengerMinterProgram |-> TokenMessengerMinter]

\* The first of the accounts that follow: the one the router takes the tokens from,
\* and those of the token's lane.  The entries of Chainlink's table come after them.
ccipTokenRemainingAccounts(route, mintProgram) ==
    << ata(ccipPayerAddress, Token, mintProgram),
       Pda(route.feeQuoter,
           <<Text("per_chain_per_token_config"), selectorOf(route), KeyOf(Token)>>),
       Pda(Known("poolProgram"),
           <<Text("ccip_tokenpool_chainconfig"), selectorOf(route), KeyOf(Token)>>) >>

bridgeTokensCcip(seen) ==
    Bridging(seen, seen.mintProgram) @@ ccipSendAccounts(seen.ccip, ccipPayerAddress)
    @@ [bridgeSigner |-> ccipPayerAddress,
        bridgeAta |-> ata(ccipPayerAddress, Token, seen.mintProgram),
        ccipRoute |-> ccipRouteAddress, feeTokenProgram |-> TokenProgram,
        feeQuoter |-> seen.ccip.feeQuoter, rmnRemote |-> seen.ccip.rmnRemote,
        ccipRouter |-> seen.ccip.router,
        remaining |-> ccipTokenRemainingAccounts(seen.ccip, seen.mintProgram)]

bridgeTokensLz(seen) ==
    Bridging(seen, seen.mintProgram)
    @@ [authorityAta |-> ata(Caller, Token, seen.mintProgram)]

\* Made by hand, with its own discriminator, keys and data.
setCcipRouteInstruction == ByAdmin @@ [ccipRoute |-> ccipRouteAddress]

setCcipRouteKeys ==
    Call(<<"admin", "ccipRoute", "store", "systemProgram">>,
         {"admin", "ccipRoute"}, {"admin"},
         Struct(<<<<"router", Key>>, <<"feeQuoter", Key>>, <<"rmnRemote", Key>>,
                  <<"linkMint", Key>>, <<"destChainSelector", U64>>,
                  <<"receiver", Block(20)>>, <<"gasLimit", U64>>>>))

-----------------------------------------------------------------------------
(* Calls *)

\* The client's instruction, the accounts it is given, and the program's struct.
Calls(seen) ==
    [initStore |-> <<ClientInitStore, initStore, InitStore>>,
     setPeerConfig |-> <<ClientSetPeerConfig, setPeerConfig, SetPeerConfig>>,
     setSnapshotters |-> <<ClientSetSnapshotters, setSnapshotters, SetSnapshotters>>,
     setSenders |-> <<ClientSetSenders, setSenders, SetSenders>>,
     quoteSend |-> <<ClientQuoteSend, quotePayload, QuoteSend>>,
     setCcipRoute |-> <<ClientSetCcipRoute, setCcipRouteInstruction, SetCcipRoute>>,
     setCcipRouteByHand |-> <<setCcipRouteKeys, setCcipRouteInstruction, SetCcipRoute>>,
     getJupiterPosition |->
        <<ClientGetJupiterPosition, getJupiterPosition(seen), GetJupiterPosition>>,
     wrapPosition |-> <<ClientWrapPosition, wrapPosition, WrapPosition>>,
     attachOndemand |-> <<ClientAttachOndemand, attachOndemand, AttachOndemand>>,
     setOndemandCallers |->
        <<ClientSetOndemandCallers, setOndemandCallers, SetOndemandCallers>>,
     refreshWrapper |-> <<ClientRefreshWrapper, refreshWrapper(seen), RefreshWrapper>>,
     sendPositionSnapshot |->
        <<ClientSendPositionSnapshotViaChainlinkAndLz, sendPayload(seen),
          SendPositionSnapshotViaChainlinkAndLz>>,
     setWrapperLevel |-> <<ClientSetWrapperLevel, setWrapperLevel, SetWrapperLevel>>,
     depositPositionNft |->
        <<ClientDepositPositionNft, depositPositionNft, DepositPositionNft>>,
     releasePositionNft |->
        <<ClientReleasePositionNft, releasePositionNft(seen), ReleasePositionNft>>,
     operatePosition |->
        <<ClientOperatePosition, operatePosition(seen), OperatePosition>>,
     setBridgeRoute |-> <<ClientSetBridgeRoute, setBridgeRoute, SetBridgeRoute>>,
     bridgeTokensCctp |->
        <<ClientBridgeTokensCctp, bridgeTokensCctp(seen), BridgeTokensCctp>>,
     bridgeTokensCcip |->
        <<ClientBridgeTokensCcip, bridgeTokensCcip(seen), BridgeTokensCcip>>,
     bridgeTokensLz |-> <<ClientBridgeTokensLz, bridgeTokensLz(seen), BridgeTokensLz>>]

\* What a caller leaves out and the generated client fills in.
Defaults ==
    [systemProgram |-> SystemProgram, tokenProgram |-> TokenProgram,
     instructionsSysvar |-> Known("instructions")]

\* An account that is left out is the program's own address, unwritable.
getAccountMetasAndSigners(row, given) ==
    LET filled == given @@ Defaults
    IN [n \in DOMAIN row.accounts |->
            LET name == row.accounts[n]
            IN IF name \in DOMAIN filled
               THEN [key |-> filled[name], writable |-> name \in row.writable,
                     signer |-> name \in row.signers]
               ELSE [key |-> Self, writable |-> FALSE, signer |-> FALSE]]

\* What the client must find before it builds a call.
Buildable(call, seen) ==
    CASE call = "sendPositionSnapshot" -> {"peer", "ccipRoute"} \subseteq seen.made
      [] call = "quoteSend" -> "peer" \in seen.made
      [] call = "releasePositionNft" -> "wrapper" \in seen.made
      [] call = "bridgeTokensCctp" ->
            "bridgeRoute" \in seen.made /\ seen.bridge.provider = "cctp"
      [] call = "bridgeTokensCcip" ->
            /\ {"bridgeRoute", "ccipRoute"} \subseteq seen.made
            /\ seen.bridge.provider = "ccip"
      [] call = "bridgeTokensLz" ->
            "bridgeRoute" \in seen.made /\ seen.bridge.provider = "lz"
      [] OTHER -> TRUE

-----------------------------------------------------------------------------
(* The program *)

ProgramPda(seed, rest) == Pda(Self, <<Text(ProgramSeed[seed])>> \o rest)

\* The accounts by the names that the struct gives to their positions.
Named(row, metas) ==
    [name \in {row.accounts[n] : n \in DOMAIN row.accounts} |->
        metas[CHOOSE n \in DOMAIN row.accounts : row.accounts[n] = name].key]

\* An optional account whose place holds the program's own address.
LeftOut(row, k) == {name \in row.optional : k[name] = Self}

\* The address that the seeds, address and token constraints of the structs
\* demand of an account; k has NoKey for accounts that the struct lacks.
Demanded(k, now) ==
    [store |-> ProgramPda("STORE", <<>>),
     wrapper |-> ProgramPda("WRAPPER", <<VaultId, NftId>>),
     ondemand |-> ProgramPda("ONDEMAND", <<KeyOf(k["wrapper"])>>),
     wrapperAuthority |-> ProgramPda("WRAPPER_AUTH", <<KeyOf(k["wrapper"])>>),
     peer |-> ProgramPda("PEER", <<KeyOf(k["store"]), DstEid>>),
     ccipRoute |-> ProgramPda("CCIP_ROUTE", <<>>),
     ccipPayer |-> ProgramPda("CCIP_PAYER", <<>>),
     bridgeSigner |-> ProgramPda("CCIP_PAYER", <<>>),
     bridgeRoute |-> ProgramPda("BRIDGE_ROUTE", <<KeyOf(k["mint"]), DstChainId>>),
     positionStore |-> ProgramPda("JUP_POSITION", <<VaultId, NftId>>),
     endpoint |-> Pda(Known("endpoint"), <<Text("Endpoint")>>),
     program |-> Self,
     programData |-> Pda(Known("loader"), <<KeyOf(k["program"])>>),
     owner |-> now.owner,
     vaultsProgram |-> Vaults,
     position |-> Pda(k["vaultsProgram"], <<Text("position"), VaultId, NftId>>),
     positionMint |-> Pda(Vaults, <<Text("position_mint"), VaultId, NftId>>),
     vaultState |-> Pda(k["vaultsProgram"], <<Text("vault_state"), VaultId>>),
     vaultConfig |-> Pda(k["vaultsProgram"], <<Text("vault_config"), VaultId>>),
     tick |-> Pda(k["vaultsProgram"], <<Text("tick"), VaultId, <<"tick", now.tick>>>>),
     sourceNftAta |-> Ata(k["authority"], k["tokenProgram"], k["positionMint"]),
     wrapperNftAta |-> Ata(k["wrapperAuthority"], k["tokenProgram"], k["positionMint"]),
     ownerNftAta |-> Ata(k["owner"], k["tokenProgram"], k["positionMint"]),
     wrapperAta |-> Ata(k["wrapperAuthority"], k["tokenProgram"], k["mint"]),
     bridgeAta |-> Ata(k["bridgeSigner"], k["tokenProgram"], k["mint"]),
     authorityAta |-> Ata(k["authority"], k["tokenProgram"], k["mint"]),
     systemProgram |-> SystemProgram,
     associatedTokenProgram |-> AssociatedToken,
     instructionsSysvar |-> Known("instructions"),
     feeTokenProgram |-> TokenProgram]

\* The routers' accounts that the program checks itself, and the checks on the
\* bridge route's provider.
ChecksPass(call, k, given, now) ==
    /\ "mint" \in DOMAIN k => k["tokenProgram"] = now.mintProgram
    /\ "positionMint" \in DOMAIN k => k["tokenProgram"] = TokenProgram
    /\ "ccipRouter" \in DOMAIN k =>
          /\ k["config"][2] = now.ccip.router
          /\ k["feeTokenMint"] = NativeMint
          /\ k["feeTokenUser"] = SystemProgram
          /\ k["feeQuoter"] = now.ccip.feeQuoter
          /\ k["rmnRemote"] = now.ccip.rmnRemote
          /\ k["ccipRouter"] = now.ccip.router
    /\ call = "bridgeTokensCcip" =>
          /\ now.bridge.provider = "ccip"
          /\ now.bridge.program = now.ccip.router
          /\ k["ccipRouter"] = now.bridge.program
          /\ k["feeBillingSigner"]
                = Pda(now.ccip.router, <<Text("fee_billing_signer")>>)
          /\ given.remaining[1] = k["bridgeAta"]
    /\ call = "bridgeTokensCctp" =>
          /\ now.bridge.provider = "cctp"
          /\ k["tokenMessengerMinterProgram"] = now.bridge.program
    /\ call = "bridgeTokensLz" => now.bridge.provider = "lz"

\* Mutant: a bridge asks for the lane of the snapshots.
MutLane(call, now) ==
    now.chainlink @@ [router |-> now.ccip.router, selector |-> now.ccip.selector]

\* The lane that the router is asked for: a snapshot goes where the CcipRoute says,
\* tokens where the bridge route does.
Lane(call, now) ==
    now.chainlink
    @@ [router |-> now.ccip.router,
        selector |-> IF call = "bridgeTokensCcip" THEN now.bridge.domainOrSelector
                     ELSE now.ccip.selector]

\* The router and Circle check the rest against the lane they are asked for and
\* their own settings.
ProvidersTake(call, k, given, now) ==
    /\ LET lane == Lane(call, now)
           asked == ccipSendAccounts(lane, ccipPayerAddress)
                    @@ [feeQuoter |-> lane.feeQuoter, rmnRemote |-> lane.rmnRemote]
       IN /\ "ccipRouter" \in DOMAIN k =>
                \A name \in DOMAIN asked \cap DOMAIN k : k[name] = asked[name]
          /\ call = "bridgeTokensCcip" =>
                given.remaining = ccipTokenRemainingAccounts(lane, now.mintProgram)
    /\ LET asked == cctpAccounts(Token, ccipPayerAddress, now.bridge.domainOrSelector)
       IN "tokenMessenger" \in DOMAIN k =>
            /\ \A name \in DOMAIN asked : k[name] = asked[name]
            /\ k["messageTransmitterProgram"] = MessageTransmitter

Accepts(call, parts, now) ==
    LET row == parts[3]
        metas == getAccountMetasAndSigners(parts[1], parts[2])
        k == Named(row, metas)
        present == DOMAIN k \ LeftOut(row, k)
        \* set_bridge_route has the mint in its arguments.
        all == k @@ [mint |-> Token]
               @@ [name \in {"wrapper", "store", "program", "vaultsProgram",
                             "authority", "owner", "wrapperAuthority",
                             "bridgeSigner", "tokenProgram", "positionMint"}
                        |-> NoKey]
        demanded == Demanded(all, now)
    IN /\ Len(metas) = Len(row.accounts)
       /\ \A n \in DOMAIN metas :
            row.accounts[n] \in present =>
                /\ row.accounts[n] \in row.writable => metas[n].writable
                /\ row.accounts[n] \in row.signers => metas[n].signer
       /\ row.creates \cap now.made = {}
       /\ (present \cap Made) \ (row.creates \cup row.ensures) \subseteq now.made
       /\ \A name \in present \cap DOMAIN demanded : k[name] = demanded[name]
       /\ ChecksPass(call, k, parts[2], now)
       /\ ProvidersTake(call, k, parts[2], now)
-----------------------------------------------------------------------------
(* What must hold of them *)

\* What a call does to the chain, it can do now: the records that name Chainlink's
\* programs twice agree.
Ready(call, row, now) ==
    LET needs == {row.accounts[n] : n \in DOMAIN row.accounts} \cap Made
        makes == row.creates \cup row.ensures
    IN /\ row.creates \cap now.made = {}
       /\ needs \ (makes \cup row.optional) \subseteq now.made
       /\ call = "bridgeTokensCctp" =>
            now.bridge.program = TokenMessengerMinter /\ now.mintProgram = TokenProgram
       /\ call = "bridgeTokensCcip" => now.bridge.program = now.ccip.router
       /\ call \in {"sendPositionSnapshot", "bridgeTokensCcip"} =>
            /\ now.ccip.feeQuoter = now.chainlink.feeQuoter
            /\ now.ccip.rmnRemote = now.chainlink.rmnRemote

\* What the client read for the call is what the program, or the provider that it
\* asks, goes by.  A bridge takes its lane from the CcipRoute, and the program sends
\* the tokens where the bridge route says: it does not look at the CcipRoute's selector
\* again, and only the client looks at its LINK mint.
StillTrue(call, seen, now) ==
    /\ call \in {"refreshWrapper", "getJupiterPosition"} => seen.tick = now.tick
    /\ call = "releasePositionNft" => seen.owner = now.owner
    /\ call \in {"sendPositionSnapshot", "bridgeTokensCcip"} =>
          /\ seen.ccip.router = now.ccip.router
          /\ seen.ccip.feeQuoter = now.ccip.feeQuoter
          /\ seen.ccip.rmnRemote = now.ccip.rmnRemote
          /\ seen.ccip.linkMint = now.chainlink.linkMint
    /\ call = "sendPositionSnapshot" => seen.ccip.selector = now.ccip.selector
    /\ call = "bridgeTokensCcip" => seen.ccip.selector = now.bridge.domainOrSelector
    /\ call \in {"bridgeTokensCctp", "bridgeTokensCcip", "bridgeTokensLz"} =>
          seen.bridge.provider = now.bridge.provider
    /\ call = "bridgeTokensCctp" =>
          seen.bridge.domainOrSelector = now.bridge.domainOrSelector

\* A call that the client could build (lendmirror.ts 292-703, bridge.ts 64-374,
\* ccip.ts 102-136, jupiterOperate.ts 131-147) is taken by the program and the
\* provider if the chain is ready for it and what the client read is what they go by,
\* and only then.  An OnDemand list attached in between does no harm, nor does a
\* CcipRoute whose selector changes while tokens go where the bridge route says.
CallsLand ==
    \A m \in Moments :
        LET calls == Calls(m[1])
        IN \A call \in DOMAIN calls :
            Buildable(call, m[1]) =>
                (Accepts(call, calls[call], m[2])
                 <=> Ready(call, calls[call][3], m[2]) /\ StillTrue(call, m[1], m[2]))

\* The arguments arrive as they were sent (generated instructions, and the params
\* that the handlers take).
ArgumentsArrive ==
    LET calls == Calls(CHOOSE chain \in Settled : TRUE)
    IN \A call \in DOMAIN calls : SameBytes(calls[call][1].args, calls[call][3].args)

\* Client and program agree on accounts and filters, the CCIP reader, room for
\* options, error codes, arguments and calls.
ClientMatchesProgram ==
    /\ AccountsReadBack
    /\ RouteReadBack
    /\ PeerHasRoom
    /\ ErrorsReadBack
    /\ ArgumentsArrive
    /\ CallsLand
=============================================================================
