--------------------------- MODULE ClientInstructions ---------------------------
(***************************************************************************)
(* The accounts, the rights on them and the arguments of every             *)
(* instruction: as the generated client (lib/client/generated/lendmirror/  *)
(* instructions) sends them, and as the program's structs take them.       *)
(*                                                                         *)
(* Accounts go by position, not by name: one that is out of place is read  *)
(* as another.                                                             *)
(***************************************************************************)
EXTENDS ClientRecords

NoArgs == Struct(<<>>)

\* The accounts in order, those that are written, those that sign, the arguments.
\* Of the program's: those that may be missing, those it creates, and those it
\* creates if there are none.
Call(accounts, writable, signers, args) ==
    [accounts |-> accounts, writable |-> writable, signers |-> signers, args |-> args,
     optional |-> {}, creates |-> {}, ensures |-> {}]

-----------------------------------------------------------------------------
(* The client *)

ClientAttachOndemand ==
    Call(<<"authority", "wrapper", "ondemand", "systemProgram">>,
         {"authority", "ondemand"}, {"authority"},
         NoArgs)

ClientBridgeTokensCcip ==
    Call(<<"authority", "store", "wrapper", "ondemand", "wrapperAuthority",
           "bridgeSigner", "bridgeRoute", "mint", "wrapperAta", "bridgeAta",
           "tokenProgram", "associatedTokenProgram", "systemProgram",
           "ccipRoute", "config", "destChainState", "nonce", "feeTokenProgram",
           "feeTokenMint", "feeTokenUser", "feeTokenReceiver",
           "feeBillingSigner", "feeQuoter", "feeQuoterConfig",
           "feeQuoterDestChain", "feeQuoterBillingTokenConfig",
           "feeQuoterLinkTokenConfig", "rmnRemote", "rmnRemoteCurses",
           "rmnRemoteConfig", "ccipRouter">>,
         {"authority", "bridgeSigner", "mint", "wrapperAta", "bridgeAta",
          "destChainState", "nonce", "feeTokenReceiver"}, {"authority"},
         ClientBridgeTokensParams)

ClientBridgeTokensCctp ==
    Call(<<"authority", "store", "wrapper", "ondemand", "wrapperAuthority",
           "bridgeSigner", "bridgeRoute", "mint", "wrapperAta", "bridgeAta",
           "tokenProgram", "associatedTokenProgram", "systemProgram",
           "senderAuthorityPda", "denylistAccount", "messageTransmitter",
           "tokenMessenger", "remoteTokenMessenger", "tokenMinter",
           "localToken", "messageSentEventData", "messageTransmitterProgram",
           "tokenMessengerMinterProgram", "eventAuthority">>,
         {"authority", "bridgeSigner", "mint", "wrapperAta", "bridgeAta",
          "messageTransmitter", "localToken", "messageSentEventData"},
         {"authority", "messageSentEventData"},
         ClientBridgeTokensParams)

ClientBridgeTokensLz ==
    Call(<<"authority", "store", "wrapper", "ondemand", "wrapperAuthority",
           "bridgeRoute", "mint", "wrapperAta", "authorityAta",
           "instructionsSysvar", "tokenProgram", "associatedTokenProgram",
           "systemProgram">>,
         {"authority", "wrapperAta", "authorityAta"}, {"authority"},
         ClientBridgeTokensParams)

ClientDepositPositionNft ==
    Call(<<"authority", "store", "wrapper", "wrapperAuthority", "vaultsProgram",
           "positionMint", "sourceNftAta", "wrapperNftAta", "tokenProgram",
           "associatedTokenProgram", "systemProgram">>,
         {"authority", "wrapper", "sourceNftAta", "wrapperNftAta"}, {"authority"},
         NoArgs)

ClientGetJupiterPosition ==
    Call(<<"authority", "payer", "store", "vaultsProgram", "position",
           "vaultState", "vaultConfig", "tick", "tickIdLiquidation",
           "positionStore", "systemProgram">>,
         {"payer", "store", "positionStore"}, {"authority", "payer"},
         Struct(<<<<"vaultId", U16>>, <<"nftId", U32>>>>))

ClientInitStore ==
    Call(<<"payer", "store", "program", "programData", "systemProgram">>,
         {"payer", "store"}, {"payer"},
         Struct(<<<<"admin", Key>>, <<"endpoint", Key>>,
                  <<"vaultsProgram", Key>>>>))

ClientOperatePosition ==
    Call(<<"authority", "store", "wrapper", "ondemand", "wrapperAuthority",
           "vaultsProgram">>,
         {"authority", "wrapperAuthority"}, {"authority"},
         Struct(<<<<"colAmounts", Option(ClientDexColAmounts)>>,
                  <<"debtAmounts", Option(ClientDexDebtAmounts)>>,
                  <<"transferType", Option(U8)>>,
                  <<"remainingAccountsIndices", Bytes>>>>))

ClientQuoteSend ==
    Call(<<"store", "wrapper", "peer", "endpoint">>,
         {}, {},
         Struct(<<<<"dstEid", U32>>, <<"receiver", Block(32)>>,
                  <<"options", Bytes>>, <<"payInLzToken", Flag>>>>))

ClientRefreshWrapper ==
    Call(<<"authority", "store", "wrapper", "ondemand", "vaultsProgram",
           "position", "vaultState", "vaultConfig", "tick", "tickIdLiquidation">>,
         {"wrapper"}, {"authority"},
         NoArgs)

ClientReleasePositionNft ==
    Call(<<"admin", "store", "wrapper", "wrapperAuthority", "owner",
           "positionMint", "wrapperNftAta", "ownerNftAta", "tokenProgram",
           "associatedTokenProgram", "systemProgram">>,
         {"admin", "wrapper", "wrapperNftAta", "ownerNftAta"}, {"admin"},
         NoArgs)

ClientSendPositionSnapshotViaChainlinkAndLz ==
    Call(<<"authority", "ondemand", "wrapper", "store", "peer", "endpoint",
           "ccipPayer", "ccipRoute", "config", "destChainState", "nonce",
           "systemProgram", "feeTokenProgram", "feeTokenMint", "feeTokenUser",
           "feeTokenReceiver", "feeBillingSigner", "feeQuoter",
           "feeQuoterConfig", "feeQuoterDestChain",
           "feeQuoterBillingTokenConfig", "feeQuoterLinkTokenConfig",
           "rmnRemote", "rmnRemoteCurses", "rmnRemoteConfig",
           "tokenPoolsSigner", "ccipRouter">>,
         {"authority", "wrapper", "ccipPayer", "destChainState", "nonce",
          "feeTokenReceiver", "tokenPoolsSigner"}, {"authority"},
         Struct(<<<<"dstEid", U32>>, <<"options", Bytes>>, <<"nativeFee", U64>>,
                  <<"lzTokenFee", U64>>, <<"ccipFeeLamports", U64>>>>))

ClientSetBridgeRoute ==
    Call(<<"admin", "store", "bridgeRoute", "systemProgram">>,
         {"admin", "bridgeRoute"}, {"admin"},
         Struct(<<<<"mint", Key>>, <<"dstChainId", U64>>, <<"provider", U8>>,
                  <<"providerProgram", Key>>, <<"providerAux", Key>>,
                  <<"receiver", Block(32)>>, <<"destinationCaller", Block(32)>>,
                  <<"domainOrSelector", U64>>, <<"gasLimit", U64>>,
                  <<"enabled", Flag>>, <<"maxAmountPerTx", U64>>>>))

ClientSetCcipRoute ==
    Call(<<"admin", "ccipRoute", "store", "systemProgram">>,
         {"admin", "ccipRoute"}, {"admin"},
         Struct(<<<<"router", Key>>, <<"feeQuoter", Key>>, <<"rmnRemote", Key>>,
                  <<"linkMint", Key>>, <<"destChainSelector", U64>>,
                  <<"receiver", Block(20)>>, <<"gasLimit", U64>>>>))

ClientSetOndemandCallers ==
    Call(<<"authority", "wrapper", "ondemand">>,
         {"ondemand"}, {"authority"},
         ClientSetAllowlistParams)

ClientSetPeerConfig ==
    Call(<<"admin", "peer", "store", "systemProgram">>,
         {"admin", "peer"}, {"admin"},
         Struct(<<<<"remoteEid", U32>>, <<"config", ClientPeerConfigParam>>>>))

ClientSetSenders ==
    Call(<<"admin", "store">>,
         {"admin", "store"}, {"admin"},
         ClientSetAllowlistParams)

ClientSetSnapshotters ==
    Call(<<"admin", "store">>,
         {"admin", "store"}, {"admin"},
         ClientSetAllowlistParams)

ClientSetWrapperLevel ==
    Call(<<"admin", "store", "wrapper">>,
         {"wrapper"}, {"admin"},
         Struct(<<<<"level", U8>>>>))

ClientWrapPosition ==
    Call(<<"authority", "store", "wrapper", "systemProgram">>,
         {"authority", "wrapper"}, {"authority"},
         Struct(<<<<"vaultId", U16>>, <<"nftId", U32>>>>))

-----------------------------------------------------------------------------
(* The program *)

InitStore ==
    [Call(<<"payer", "store", "program", "programData", "systemProgram">>,
          {"payer", "store"}, {"payer"},
          InitStoreParams)
     EXCEPT !.creates = {"store"}]

SetPeerConfig ==
    [Call(<<"admin", "peer", "store", "systemProgram">>,
          {"admin", "peer"}, {"admin"},
          SetPeerConfigParams)
     EXCEPT !.ensures = {"peer"}]

SetCcipRoute ==
    [Call(<<"admin", "ccipRoute", "store", "systemProgram">>,
          {"admin", "ccipRoute"}, {"admin"},
          SetCcipRouteParams)
     EXCEPT !.ensures = {"ccipRoute"}]

SetSnapshotters ==
    Call(<<"admin", "store">>,
         {"admin", "store"}, {"admin"},
         SetAllowlistParams)

SetSenders ==
    Call(<<"admin", "store">>,
         {"admin", "store"}, {"admin"},
         SetAllowlistParams)

WrapPosition ==
    [Call(<<"authority", "store", "wrapper", "systemProgram">>,
          {"authority", "wrapper"}, {"authority"},
          WrapPositionParams)
     EXCEPT !.creates = {"wrapper"}]

AttachOndemand ==
    [Call(<<"authority", "wrapper", "ondemand", "systemProgram">>,
          {"authority", "ondemand"}, {"authority"},
          NoArgs)
     EXCEPT !.creates = {"ondemand"}]

SetOndemandCallers ==
    Call(<<"authority", "wrapper", "ondemand">>,
         {"ondemand"}, {"authority"},
         SetAllowlistParams)

SetWrapperLevel ==
    Call(<<"admin", "store", "wrapper">>,
         {"wrapper"}, {"admin"},
         Struct(<<<<"level", U8>>>>))

DepositPositionNft ==
    [Call(<<"authority", "store", "wrapper", "wrapperAuthority", "vaultsProgram",
            "positionMint", "sourceNftAta", "wrapperNftAta", "tokenProgram",
            "associatedTokenProgram", "systemProgram">>,
          {"authority", "wrapper", "sourceNftAta", "wrapperNftAta"},
          {"authority"},
          NoArgs)
     EXCEPT !.ensures = {"wrapperNftAta"}]

ReleasePositionNft ==
    [Call(<<"admin", "store", "wrapper", "wrapperAuthority", "owner",
            "positionMint", "wrapperNftAta", "ownerNftAta", "tokenProgram",
            "associatedTokenProgram", "systemProgram">>,
          {"admin", "wrapper", "wrapperNftAta", "ownerNftAta"}, {"admin"},
          NoArgs)
     EXCEPT !.ensures = {"ownerNftAta"}]

GetJupiterPosition ==
    [Call(<<"authority", "payer", "store", "vaultsProgram", "position",
            "vaultState", "vaultConfig", "tick", "tickIdLiquidation",
            "positionStore", "systemProgram">>,
          {"payer", "store", "positionStore"}, {"authority", "payer"},
          GetJupiterPositionParams)
     EXCEPT !.optional = {"tickIdLiquidation"}, !.ensures = {"positionStore"}]

RefreshWrapper ==
    [Call(<<"authority", "store", "wrapper", "ondemand", "vaultsProgram",
            "position", "vaultState", "vaultConfig", "tick", "tickIdLiquidation">>,
          {"wrapper"}, {"authority"},
          NoArgs)
     EXCEPT !.optional = {"ondemand", "tickIdLiquidation"}]

QuoteSend ==
    Call(<<"store", "wrapper", "peer", "endpoint">>,
         {}, {},
         QuoteSendParams)

SendPositionSnapshotViaChainlinkAndLz ==
    [Call(<<"authority", "ondemand", "wrapper", "store", "peer", "endpoint",
            "ccipPayer", "ccipRoute", "config", "destChainState", "nonce",
            "systemProgram", "feeTokenProgram", "feeTokenMint", "feeTokenUser",
            "feeTokenReceiver", "feeBillingSigner", "feeQuoter",
            "feeQuoterConfig", "feeQuoterDestChain",
            "feeQuoterBillingTokenConfig", "feeQuoterLinkTokenConfig",
            "rmnRemote", "rmnRemoteCurses", "rmnRemoteConfig",
            "tokenPoolsSigner", "ccipRouter">>,
          {"authority", "wrapper", "ccipPayer", "destChainState", "nonce",
           "feeTokenReceiver", "tokenPoolsSigner"}, {"authority"},
          SendPositionSnapshotViaChainlinkAndLzParams)
     EXCEPT !.optional = {"ondemand"}]

OperatePosition ==
    [Call(<<"authority", "store", "wrapper", "ondemand", "wrapperAuthority",
            "vaultsProgram">>,
          {"authority", "wrapperAuthority"}, {"authority"},
          OperatePositionParams)
     EXCEPT !.optional = {"ondemand"}]

SetBridgeRoute ==
    [Call(<<"admin", "store", "bridgeRoute", "systemProgram">>,
          {"admin", "bridgeRoute"}, {"admin"},
          SetBridgeRouteParams)
     EXCEPT !.ensures = {"bridgeRoute"}]

BridgeCommon ==
    [Call(<<"authority", "store", "wrapper", "ondemand", "wrapperAuthority",
            "bridgeSigner", "bridgeRoute", "mint", "wrapperAta", "bridgeAta",
            "tokenProgram", "associatedTokenProgram", "systemProgram">>,
          {"authority", "bridgeSigner", "mint", "wrapperAta", "bridgeAta"},
          {"authority"},
          NoArgs)
     EXCEPT !.optional = {"ondemand"}, !.ensures = {"bridgeAta"}]

\* A struct that starts with BridgeCommon.
AfterCommon(accounts, writable, signers, args) ==
    [BridgeCommon EXCEPT !.accounts = @ \o accounts, !.writable = @ \cup writable,
                         !.signers = @ \cup signers, !.args = args]

BridgeTokensCctp ==
    AfterCommon(<<"senderAuthorityPda", "denylistAccount", "messageTransmitter",
                  "tokenMessenger", "remoteTokenMessenger", "tokenMinter",
                  "localToken", "messageSentEventData", "messageTransmitterProgram",
                  "tokenMessengerMinterProgram", "eventAuthority">>,
                {"messageTransmitter", "localToken", "messageSentEventData"},
                {"messageSentEventData"},
                BridgeTokensParams)

BridgeTokensCcip ==
    AfterCommon(<<"ccipRoute", "config", "destChainState", "nonce", "feeTokenProgram",
                  "feeTokenMint", "feeTokenUser", "feeTokenReceiver",
                  "feeBillingSigner", "feeQuoter", "feeQuoterConfig",
                  "feeQuoterDestChain", "feeQuoterBillingTokenConfig",
                  "feeQuoterLinkTokenConfig", "rmnRemote", "rmnRemoteCurses",
                  "rmnRemoteConfig", "ccipRouter">>,
                {"destChainState", "nonce", "feeTokenReceiver"}, {},
                BridgeTokensParams)

BridgeTokensLz ==
    [Call(<<"authority", "store", "wrapper", "ondemand", "wrapperAuthority",
            "bridgeRoute", "mint", "wrapperAta", "authorityAta",
            "instructionsSysvar", "tokenProgram", "associatedTokenProgram",
            "systemProgram">>,
          {"authority", "wrapperAta", "authorityAta"}, {"authority"},
          BridgeTokensParams)
     EXCEPT !.optional = {"ondemand"}, !.ensures = {"authorityAta"}]
=============================================================================
