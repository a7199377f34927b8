---------------------------- MODULE ClientRecords ----------------------------
(***************************************************************************)
(* What the program stores and is called with, as the generated client     *)
(* (lib/client/generated/lendmirror) and the hand-written CCIP client      *)
(* (lib/client/ccip.ts) lay it out, and as the program's structs do.       *)
(*                                                                         *)
(* Both sides write Borsh: the fields in order, integers little-endian, a  *)
(* tag before an option or a variant, a length before a vector.  Anchor    *)
(* puts eight bytes before an account and before the arguments of a call.  *)
(* Instruction arguments that the client nests in params lie in the same   *)
(* bytes without it.                                                       *)
(***************************************************************************)
EXTENDS Integers, Sequences, SequencesExt

Atom(type, width) == [is |-> "atom", type |-> type, width |-> width]

U8 == Atom("u8", 1)
U16 == Atom("u16", 2)
U32 == Atom("u32", 4)
U64 == Atom("u64", 8)
I32 == Atom("i32", 4)
I64 == Atom("i64", 8)
I128 == Atom("i128", 16)
Flag == Atom("bool", 1)
Key == Atom("key", 32)
Block(n) == Atom("bytes", n)
Keys(n) == Atom("keys", 32 * n)

Vector(of) == [is |-> "vector", of |-> of]
Option(of) == [is |-> "option", of |-> of]
Struct(fields) == [is |-> "struct", fields |-> fields]
Variants(cases) == [is |-> "variants", cases |-> cases]

Bytes == Vector(U8)
KeyList == Vector(Key)

\* What a value does with its options, vectors and variants.
Picks == [some : BOOLEAN, length : {0, 2}, variant : {1, 2}]

\* The bytes of a value: for each piece the field it belongs to, how it is read,
\* and its width.
RECURSIVE Cells(_, _, _)
Cells(t, pick, field) ==
    CASE t.is = "atom" -> <<<<field, t.type, t.width>>>>
      [] t.is = "vector" ->
            <<<<field, "length", 4>>>>
            \o FlattenSeq([n \in 1..pick.length |-> Cells(t.of, pick, field)])
      [] t.is = "option" ->
            IF pick.some THEN <<<<field, "some", 1>>>> \o Cells(t.of, pick, field)
            ELSE <<<<field, "none", 1>>>>
      [] t.is = "variants" ->
            <<<<field, "variant", 1>>>> \o Cells(t.cases[pick.variant], pick, field)
      [] t.is = "struct" ->
            FlattenSeq([n \in DOMAIN t.fields |->
                Cells(t.fields[n][2], pick, Append(field, t.fields[n][1]))])

WidthOf(cells) == FoldLeft(LAMBDA w, cell : w + cell[3], 0, cells)

RECURSIVE Fixed(_)
Fixed(t) ==
    CASE t.is = "atom" -> TRUE
      [] t.is = "struct" -> \A n \in DOMAIN t.fields : Fixed(t.fields[n][2])
      [] OTHER -> FALSE

Behind(t) == Struct(<<<<"discriminator", Block(8)>>>> \o t.fields)

SomePick == [some |-> TRUE, length |-> 0, variant |-> 1]

Width(t) == WidthOf(Cells(t, SomePick, <<>>))

\* Where each field starts, if that does not depend on the value.
NoOffset == -1

Offsets(t) ==
    [n \in DOMAIN t.fields |->
        IF \A k \in 1..(n - 1) : Fixed(t.fields[k][2])
        THEN Width(Struct(SubSeq(t.fields, 1, n - 1)))
        ELSE NoOffset]
-----------------------------------------------------------------------------
(* Types (generated/lendmirror/types) *)

ClientDexAmounts ==
    Struct(<<<<"token0", I128>>, <<"token1", I128>>, <<"sharesMinMax", I128>>>>)

ClientDexColAmounts ==
    Struct(<<<<"amounts", Option(ClientDexAmounts)>>, <<"newCol", Option(I128)>>>>)

ClientDexDebtAmounts ==
    Struct(<<<<"amounts", Option(ClientDexAmounts)>>, <<"newDebt", Option(I128)>>>>)

ClientEnforcedOptions ==
    Struct(<<<<"send", Bytes>>, <<"sendAndCall", Bytes>>>>)

ClientBridgeTokensParams ==
    Struct(<<<<"amount", U64>>, <<"dstChainId", U64>>, <<"maxFee", U64>>,
             <<"minFinalityThreshold", U32>>, <<"feeLamports", U64>>,
             <<"minAmount", U64>>, <<"nativeFee", U64>>, <<"options", Bytes>>>>)

ClientPositionSnapshot ==
    Struct(<<<<"position", Key>>, <<"vaultId", U16>>, <<"nftId", U32>>,
             <<"positionMint", Key>>, <<"supplyToken", Key>>,
             <<"borrowToken", Key>>, <<"colRaw", U64>>, <<"debtRaw", U64>>,
             <<"dustDebt", U64>>, <<"netDebt", U64>>, <<"tick", I32>>,
             <<"tickId", U32>>, <<"storedColRaw", U64>>,
             <<"storedDebtRaw", U64>>, <<"storedTick", I32>>,
             <<"isSupplyOnly", Flag>>, <<"isLiquidated", Flag>>,
             <<"isFullyLiquidated", Flag>>, <<"branchId", U32>>,
             <<"vaultSupplyExchangePrice", U64>>,
             <<"vaultBorrowExchangePrice", U64>>, <<"snapshotTime", I64>>>>)

ClientPeerConfigParam ==
    Variants(<<Struct(<<<<"peer", Block(32)>>>>),
               Struct(<<<<"send", Bytes>>, <<"sendAndCall", Bytes>>>>)>>)

ClientSetAllowlistParams == Struct(<<<<"keys", KeyList>>>>)

-----------------------------------------------------------------------------
(* Accounts (generated/lendmirror/accounts): the fields behind the           *)
(* discriminator, and where a filter looks for each.                         *)

ClientBridgeRoute ==
    Struct(<<<<"mint", Key>>, <<"dstChainId", U64>>, <<"provider", U8>>,
             <<"providerProgram", Key>>, <<"providerAux", Key>>,
             <<"receiver", Block(32)>>, <<"destinationCaller", Block(32)>>,
             <<"domainOrSelector", U64>>, <<"gasLimit", U64>>,
             <<"enabled", Flag>>, <<"maxAmountPerTx", U64>>, <<"bump", U8>>>>)

ClientBridgeRouteFilters ==
    <<8, 40, 48, 49, 81, 113, 145, 177, 185, 193, 194, 202>>

ClientCcipRoute ==
    Struct(<<<<"router", Key>>, <<"feeQuoter", Key>>, <<"rmnRemote", Key>>,
             <<"linkMint", Key>>, <<"destChainSelector", U64>>,
             <<"receiver", Block(20)>>, <<"gasLimit", U64>>, <<"bump", U8>>>>)

ClientCcipRouteFilters ==
    <<8, 40, 72, 104, 136, 144, 164, 172>>

ClientEndpointSettings ==
    Struct(<<<<"eid", U32>>, <<"bump", U8>>, <<"admin", Key>>,
             <<"lzTokenMint", Option(Key)>>>>)

ClientEndpointSettingsFilters ==
    <<8, 12, 13, 45>>

ClientOnDemandStrategy ==
    Struct(<<<<"wrapper", Key>>, <<"bump", U8>>, <<"callers", Keys(8)>>,
             <<"callerCount", U8>>>>)

ClientOnDemandStrategyFilters ==
    <<8, 40, 41, 297>>

ClientPeerConfig ==
    Struct(<<<<"peerAddress", Block(32)>>,
             <<"enforcedOptions", ClientEnforcedOptions>>, <<"bump", U8>>>>)

ClientPeerConfigFilters ==
    <<8, 40, NoOffset>>

ClientPositionSnapshotAccount ==
    Struct(<<<<"snapshot", ClientPositionSnapshot>>>>)

ClientPositionSnapshotAccountFilters ==
    <<8>>

ClientPositionWrapper ==
    Struct(<<<<"owner", Key>>, <<"vaultId", U16>>, <<"nftId", U32>>,
             <<"bump", U8>>, <<"snapshot", Option(ClientPositionSnapshot)>>,
             <<"version", U8>>, <<"level", U8>>, <<"custody", Flag>>,
             <<"positionMint", Key>>, <<"lastSentSnapshotTime", I64>>,
             <<"sendCount", U64>>, <<"authorityBump", U8>>,
             <<"reserved", Block(64)>>>>)

ClientPositionWrapperFilters ==
    <<8, 40, 42, 46, 47, NoOffset, NoOffset, NoOffset, NoOffset, NoOffset,
      NoOffset, NoOffset, NoOffset>>

ClientStore ==
    Struct(<<<<"admin", Key>>, <<"bump", U8>>, <<"endpointProgram", Key>>,
             <<"vaultsProgram", Key>>, <<"snapshotters", Keys(8)>>,
             <<"snapshotterCount", U8>>, <<"senders", Keys(8)>>,
             <<"senderCount", U8>>,
             <<"lastPosition", Option(ClientPositionSnapshot)>>>>)

ClientStoreFilters ==
    <<8, 40, 41, 73, 105, 361, 362, 618, 619>>

-----------------------------------------------------------------------------
(* The program's structs, in the client's names *)

ALLOWLIST_LEN == 8

DexAmounts ==
    Struct(<<<<"token0", I128>>, <<"token1", I128>>, <<"sharesMinMax", I128>>>>)

DexColAmounts ==
    Struct(<<<<"amounts", Option(DexAmounts)>>, <<"newCol", Option(I128)>>>>)

DexDebtAmounts ==
    Struct(<<<<"amounts", Option(DexAmounts)>>, <<"newDebt", Option(I128)>>>>)

EnforcedOptions ==
    Struct(<<<<"send", Bytes>>, <<"sendAndCall", Bytes>>>>)

PositionSnapshot ==
    Struct(<<<<"position", Key>>, <<"vaultId", U16>>, <<"nftId", U32>>,
             <<"positionMint", Key>>, <<"supplyToken", Key>>,
             <<"borrowToken", Key>>, <<"colRaw", U64>>, <<"debtRaw", U64>>,
             <<"dustDebt", U64>>, <<"netDebt", U64>>, <<"tick", I32>>,
             <<"tickId", U32>>, <<"storedColRaw", U64>>,
             <<"storedDebtRaw", U64>>, <<"storedTick", I32>>,
             <<"isSupplyOnly", Flag>>, <<"isLiquidated", Flag>>,
             <<"isFullyLiquidated", Flag>>, <<"branchId", U32>>,
             <<"vaultSupplyExchangePrice", U64>>,
             <<"vaultBorrowExchangePrice", U64>>, <<"snapshotTime", I64>>>>)

PositionSnapshotAccount ==
    Struct(<<<<"snapshot", PositionSnapshot>>>>)

Store ==
    Struct(<<<<"admin", Key>>, <<"bump", U8>>, <<"endpointProgram", Key>>,
             <<"vaultsProgram", Key>>, <<"snapshotters", Keys(ALLOWLIST_LEN)>>,
             <<"snapshotterCount", U8>>, <<"senders", Keys(ALLOWLIST_LEN)>>,
             <<"senderCount", U8>>, <<"lastPosition", Option(PositionSnapshot)>>>>)

PositionWrapper ==
    Struct(<<<<"owner", Key>>, <<"vaultId", U16>>, <<"nftId", U32>>,
             <<"bump", U8>>, <<"snapshot", Option(PositionSnapshot)>>,
             <<"version", U8>>, <<"level", U8>>, <<"custody", Flag>>,
             <<"positionMint", Key>>, <<"lastSentSnapshotTime", I64>>,
             <<"sendCount", U64>>, <<"authorityBump", U8>>,
             <<"reserved", Block(64)>>>>)

OnDemandStrategy ==
    Struct(<<<<"wrapper", Key>>, <<"bump", U8>>,
             <<"callers", Keys(ALLOWLIST_LEN)>>, <<"callerCount", U8>>>>)

PeerConfig ==
    Struct(<<<<"peerAddress", Block(32)>>,
             <<"enforcedOptions", EnforcedOptions>>, <<"bump", U8>>>>)

CcipRoute ==
    Struct(<<<<"router", Key>>, <<"feeQuoter", Key>>, <<"rmnRemote", Key>>,
             <<"linkMint", Key>>, <<"destChainSelector", U64>>,
             <<"receiver", Block(20)>>, <<"gasLimit", U64>>, <<"bump", U8>>>>)

BridgeRoute ==
    Struct(<<<<"mint", Key>>, <<"dstChainId", U64>>, <<"provider", U8>>,
             <<"providerProgram", Key>>, <<"providerAux", Key>>,
             <<"receiver", Block(32)>>, <<"destinationCaller", Block(32)>>,
             <<"domainOrSelector", U64>>, <<"gasLimit", U64>>,
             <<"enabled", Flag>>, <<"maxAmountPerTx", U64>>, <<"bump", U8>>>>)

InitStoreParams ==
    Struct(<<<<"admin", Key>>, <<"endpoint", Key>>, <<"vaultsProgram", Key>>>>)

SetAllowlistParams ==
    Struct(<<<<"keys", KeyList>>>>)

SetCcipRouteParams ==
    Struct(<<<<"router", Key>>, <<"feeQuoter", Key>>, <<"rmnRemote", Key>>,
             <<"linkMint", Key>>, <<"destChainSelector", U64>>,
             <<"receiver", Block(20)>>, <<"gasLimit", U64>>>>)

WrapPositionParams ==
    Struct(<<<<"vaultId", U16>>, <<"nftId", U32>>>>)

GetJupiterPositionParams ==
    Struct(<<<<"vaultId", U16>>, <<"nftId", U32>>>>)

QuoteSendParams ==
    Struct(<<<<"dstEid", U32>>, <<"receiver", Block(32)>>, <<"options", Bytes>>,
             <<"payInLzToken", Flag>>>>)

SendPositionSnapshotViaChainlinkAndLzParams ==
    Struct(<<<<"dstEid", U32>>, <<"options", Bytes>>, <<"nativeFee", U64>>,
             <<"lzTokenFee", U64>>, <<"ccipFeeLamports", U64>>>>)

OperatePositionParams ==
    Struct(<<<<"colAmounts", Option(DexColAmounts)>>,
             <<"debtAmounts", Option(DexDebtAmounts)>>,
             <<"transferType", Option(U8)>>,
             <<"remainingAccountsIndices", Bytes>>>>)

SetBridgeRouteParams ==
    Struct(<<<<"mint", Key>>, <<"dstChainId", U64>>, <<"provider", U8>>,
             <<"providerProgram", Key>>, <<"providerAux", Key>>,
             <<"receiver", Block(32)>>, <<"destinationCaller", Block(32)>>,
             <<"domainOrSelector", U64>>, <<"gasLimit", U64>>,
             <<"enabled", Flag>>, <<"maxAmountPerTx", U64>>>>)

BridgeTokensParams ==
    Struct(<<<<"amount", U64>>, <<"dstChainId", U64>>, <<"maxFee", U64>>,
             <<"minFinalityThreshold", U32>>, <<"feeLamports", U64>>,
             <<"minAmount", U64>>, <<"nativeFee", U64>>, <<"options", Bytes>>>>)

PeerConfigParam ==
    Variants(<<Struct(<<<<"peer", Block(32)>>>>),
               Struct(<<<<"send", Bytes>>, <<"sendAndCall", Bytes>>>>)>>)

SetPeerConfigParams ==
    Struct(<<<<"remoteEid", U32>>, <<"config", PeerConfigParam>>>>)

\* PeerConfig::SIZE, which a vector may fill up to its MAX_LEN.
EnforcedOptionsSendMaxLen == 512
EnforcedOptionsSendAndCallMaxLen == 1024

PeerConfigSize ==
    8 + 32 + (4 + EnforcedOptionsSendMaxLen)
    + (4 + EnforcedOptionsSendAndCallMaxLen) + 1
-----------------------------------------------------------------------------
(* The CCIP client's own reader of the CcipRoute *)

CcipRouteMinLength == 8 + 32 * 4 + 8 + 20 + 8 + 1

\* Mutant: the selector is taken for a 4-byte number.
MutDecodeCcipRoute ==
    <<<<"router", 8>>, <<"feeQuoter", 8 + 32>>, <<"rmnRemote", 8 + 2 * 32>>,
      <<"linkMint", 8 + 3 * 32>>, <<"destChainSelector", 8 + 4 * 32>>,
      <<"receiver", 8 + 4 * 32 + 4>>, <<"gasLimit", 8 + 4 * 32 + 4 + 20>>>>

\* Each field and where it starts.
decodeCcipRoute ==
    <<<<"router", 8>>, <<"feeQuoter", 8 + 32>>, <<"rmnRemote", 8 + 2 * 32>>,
      <<"linkMint", 8 + 3 * 32>>, <<"destChainSelector", 8 + 4 * 32>>,
      <<"receiver", 8 + 4 * 32 + 8>>, <<"gasLimit", 8 + 4 * 32 + 8 + 20>>>>

-----------------------------------------------------------------------------
(* Errors *)

ClientErrorCodes ==
    [InvalidJupiterAccount |-> 6000, PositionIdMismatch |-> 6001,
     TickPdaMismatch |-> 6002, TickOutOfRange |-> 6003, Unauthorized |-> 6004,
     AllowlistTooLong |-> 6005, NoPositionSnapshot |-> 6006,
     DebtFactorUnderflow |-> 6007, DebtFactorOverflow |-> 6008,
     BranchChainTooLong |-> 6009, MissingBranchAccount |-> 6010,
     MissingLiquidationRecord |-> 6011, InvalidCcipAccount |-> 6012,
     SnapshotAlreadySent |-> 6013, LevelDenied |-> 6014, InvalidLevel |-> 6015,
     NoCustody |-> 6016, AlreadyInCustody |-> 6017, InvalidTokenAccount |-> 6018,
     RouteDisabled |-> 6019, AmountTooLarge |-> 6020, WrongProvider |-> 6021,
     InvalidBridgeAccount |-> 6022, MissingBridgeSend |-> 6023]

getLendmirrorErrorFromCode(code) ==
    {name \in DOMAIN ClientErrorCodes : ClientErrorCodes[name] = code}

\* Anchor counts from 6000.
LendMirrorError ==
    <<"InvalidJupiterAccount", "PositionIdMismatch", "TickPdaMismatch",
      "TickOutOfRange", "Unauthorized", "AllowlistTooLong",
      "NoPositionSnapshot", "DebtFactorUnderflow", "DebtFactorOverflow",
      "BranchChainTooLong", "MissingBranchAccount", "MissingLiquidationRecord",
      "InvalidCcipAccount", "SnapshotAlreadySent", "LevelDenied",
      "InvalidLevel", "NoCustody", "AlreadyInCustody", "InvalidTokenAccount",
      "RouteDisabled", "AmountTooLarge", "WrongProvider",
      "InvalidBridgeAccount", "MissingBridgeSend">>

-----------------------------------------------------------------------------
(* What must hold of them *)

\* The client's layout, its filters, and the program's layout.  The endpoint's
\* settings are LayerZero's: their filters must suit the client's own layout.
Accounts ==
    {<<ClientStore, ClientStoreFilters, Store>>,
     <<ClientPositionWrapper, ClientPositionWrapperFilters, PositionWrapper>>,
     <<ClientOnDemandStrategy, ClientOnDemandStrategyFilters, OnDemandStrategy>>,
     <<ClientPeerConfig, ClientPeerConfigFilters, PeerConfig>>,
     <<ClientCcipRoute, ClientCcipRouteFilters, CcipRoute>>,
     <<ClientBridgeRoute, ClientBridgeRouteFilters, BridgeRoute>>,
     <<ClientPositionSnapshotAccount, ClientPositionSnapshotAccountFilters,
       PositionSnapshotAccount>>,
     <<ClientEndpointSettings, ClientEndpointSettingsFilters, ClientEndpointSettings>>}

SameBytes(t, u) == \A pick \in Picks : Cells(t, pick, <<>>) = Cells(u, pick, <<>>)

\* An account that the program writes (state/*.rs) is read by the client as it was
\* written (generated accounts), and found by a filter where the field is.
AccountsReadBack ==
    \A a \in Accounts :
        /\ SameBytes(a[1], a[3])
        /\ a[2] = SubSeq(Offsets(Behind(a[3])), 2, Len(a[2]) + 1)
        /\ \A n \in (Len(a[2]) + 2)..(Len(a[3].fields) + 1) :
                Offsets(Behind(a[3]))[n] = NoOffset

\* The hand-written reader of the CcipRoute (ccip.ts 45-68) takes each field from
\* where ccip_route.rs 9-21 has it, and no shorter account for one.
RouteReadBack ==
    /\ CcipRouteMinLength = Width(Behind(CcipRoute))
    /\ \A n \in DOMAIN decodeCcipRoute :
            decodeCcipRoute[n] =
                <<CcipRoute.fields[n][1], Offsets(Behind(CcipRoute))[n + 1]>>

\* A peer's account has room for the longest options that its SIZE names
\* (peer_config.rs 13-19).
PeerHasRoom ==
    PeerConfigSize = Width(Behind(PeerConfig))
                     + EnforcedOptionsSendMaxLen + EnforcedOptionsSendAndCallMaxLen

\* An error of the program (errors.rs) is reported under its own name.
ErrorsReadBack ==
    /\ \A n \in DOMAIN LendMirrorError :
            getLendmirrorErrorFromCode(6000 + n - 1) = {LendMirrorError[n]}
    /\ DOMAIN ClientErrorCodes = {LendMirrorError[n] : n \in DOMAIN LendMirrorError}
=============================================================================
