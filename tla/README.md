# TLA+ model of LendMirror

LendMirror copies the state of Jupiter Lend positions from Solana to EVM chains.
A Solana program (`programs/lendmirror`) takes a snapshot of a position and
sends the same 225 bytes over two independent networks, LayerZero and Chainlink
CCIP; a contract (`contracts/LendMirror.sol`) on each EVM chain keeps the newest
copy of each network and reports whether the two agree. Around that, the program
can hold a position's NFT, operate the position within a level the admin sets,
and bridge its tokens.

This directory holds TLA+ modules translated from that source, TLC
configurations that check them on small instances, and proofs for all values of
the constants.

## 1. The system

| component | state | operations | interacts with |
|---|---|---|---|
| Store, allowlists (`state/store.rs`, `init_store.rs`, `set_allowlists.rs`) | admin, up to 8 snapshotters, up to 8 senders | `init_store`, `set_snapshotters`, `set_senders` | read by every instruction's access check |
| Wrapper and OnDemand list (`state/wrapper.rs`, `wrap_position.rs`) | per position: owner, snapshot, send guard, send count, level, custody; OnDemand callers | `wrap_position`, `attach_ondemand`, `set_ondemand_callers` | refresh, send, custody, operate, bridges |
| Refresh (`refresh_wrapper.rs`, `get_jupiter_position.rs`) | writes the wrapper's snapshot | `refresh_wrapper`, legacy `get_jupiter_position` | Jupiter's accounts, the clock, live position arithmetic |
| Live position arithmetic (`live_position.rs`, `tick_math.rs`) | none | pure functions over tick and branch accounts | refresh |
| Send (`send_position_snapshot.rs`, `send_ccip.rs`, `quote_send.rs`) | writes the send guard | one instruction, two cross-program sends | peer configuration, CCIP route, both networks |
| Peer configuration, CCIP route (`set_peer_config.rs`, `set_ccip_route.rs`) | an address per LayerZero eid; one CCIP destination | admin setters | send |
| Codec (`jupiter_position.rs`, `msg_codec.rs`, `PositionSnapshotMsgCodec.sol`) | none | encode on Solana, decode on EVM | send, EVM mirror |
| EVM mirror (`LendMirror.sol`) | a slot per lane and position, `lastPosition_`, `positions[]`, peer, CCIP lane | `lzReceive`, `ccipReceive`, `matched`, owner setters | both networks |
| Custody and levels (`custody.rs`, `operate_position.rs`) | NFT location, owner, custody flag, level | deposit, release, set level, operate | wrapper, Jupiter |
| Token bridges (`bridge_tokens.rs`, `bridges.rs`, `state/bridge_route.rs`) | routes with caps, the bridge signer's token accounts | set route; bridge over CCTP, CCIP, LayerZero | wrapper roles and level, custody |
| EVM treasury (`LendMirrorTreasury.sol`) | strategy, CCIP lane, token balances | receive, claim, forward, owner setters | token bridges |
| Sync-all cron (`tasks/solana/syncAll.ts`) | none of its own | reads wrappers, refreshes, sends what changed | wrapper, refresh, send |
| Client library (`lib/client`) | none | decodes accounts, picks the accounts of an instruction, builds it | every instruction of the program, Jupiter's accounts |
| Generated client (`lib/client/generated`) | none | accounts, types, instructions and errors in bytes | the program's structs |
| Bridge tasks (`tasks/solana/bridge.ts`, `lzSend.ts`, `config/types.ts`) | the deployment profile | `set-bridge-route`, `bridge-tokens` | routes, CCIP route, bridges |
| Other tasks, deployment | none | one transaction each | everything |

Every Solana instruction is one atomic transaction: its checks either let all of
it happen or none. Concurrency comes from the order in which independent
wallets' transactions land, from the two networks, which deliver each packet
once, in any order and after any delay, and from owners who change routes and
peers while packets are in flight. What each component must get right:

* *Snapshot pipeline* (wrapper, refresh, send, networks, mirror): a snapshot goes
  out at most once and on both lanes or on none; a slot always shows the newest
  copy delivered and never goes back; a match is not undone by a late copy; what
  was sent to a properly configured chain eventually shows.
* *Custody*: the custody flag means the NFT is in the wrapper's account; it
  goes back to the depositor; levels are respected.
* *Bridges and treasury*: what leaves is what was released, within the cap and
  to the configured destination; what arrives ends up in the strategy or the
  treasury, never in neither.
* *Refresh*: whatever a vault does between the client's reads and the
  transaction, what is stored is what liquidations left of the debt; the walk
  over merged branches ends, and no position can never be refreshed again.
* *Codec*: the program, the client and the EVM contract mean the same bytes.
* *Client*: an account the program writes is read as it was written; an instruction's
  accounts and arguments arrive in their places; a call derived from what has changed
  since fails, and no other.
* *Cron*: what changed is sent in the end, whoever else refreshes or sends and
  whatever fails on the way.
* *Bridge tasks*: the program accepts what the tasks build and refuses what is
  wrong, while routes and the profile change between a read and the transaction.

The hazards, at their source lines and with the properties that cover them, are in
`PROJECT.json`.

## 2. The modules

| module | what it is |
|---|---|
| `Access` | who may do what on Solana: allowlists, wrapper owners, OnDemand lists. Extended by all Solana modules |
| `SnapshotMirror` | the snapshot pipeline from refresh to both EVM slots |
| `NewestRegister` | the abstract specification of the pipeline, as a reader on an EVM chain sees it |
| `WrapperLevel` | a wrapper's level and who sets it; extended by `Custody` and `Bridge` |
| `Custody` | where a position's NFT is, and what moves value in and out of a position |
| `Escrow` | the abstract specification of custody: lodge an NFT, get it back |
| `Bridge` | bridge routes and the three ways tokens leave a wrapper |
| `Treasury` | the contract that tokens arrive at, and its way out |
| `TokenRoad` | `Bridge`, the token networks and `Treasury` composed |
| `BridgeClient` | the operator's two bridge tasks over `Bridge` |
| `LivePosition` | the arithmetic that reads a position through liquidations |
| `LiveRefresh` | a vault that liquidates, the client that reads it account by account, and the refresh |
| `SnapshotCodec` | the byte layouts of the snapshot and of Jupiter's accounts, as five pieces of code have them |
| `SyncAll` | the cron over `SnapshotMirror` |
| `ClientRecords` | accounts, types and errors as the client lays them out and as the program does |
| `ClientInstructions` | the instructions: accounts in order, rights, arguments, on both sides |
| `ClientCalls` | the calls that the client library builds, and what the program makes of them |
| `MCSnapshotMirror`, `MCCustody`, `MCBridge`, `MCBridgeClient`, `MCTokenRoad`, `MCLiveRefresh`, `MCSyncAll` | definitions for the TLC configurations |
| `RefreshToMirror` | `LiveRefresh` and `SnapshotCodec` composed: the numbers of a refresh on their way to the other chain |
| `SharedProofs` | lemmas for the proof modules: induction, sums over finite sets, the types of `Access` |
| `SnapshotMirrorProofs`, `CustodyProofs`, `BridgeProofs`, `TokenRoadProofs`, `BridgeClientProofs`, `LiveRefreshProofs`, `SyncAllProofs` | the theorems |

`SnapshotMirror`, `Custody` and `Bridge` share the wrapper account, but each field
of it is read and written by one of them only, the owner, the lists and the level
apart, and those are in the modules that they extend.

### Access

| definition | code |
|---|---|
| `snapshotters`, `senders` | the prefixes `[..count]` of the two arrays of `Store`; `set_*` zeroes and rewrites array and count in one instruction, so a list is the set it denotes |
| `owner[p]` | `PositionWrapper.owner`; `NoWallet` while the PDA does not exist (`init` makes a second `wrap_position` fail) |
| `attached`, `callers[p]` | existence and prefix of `OnDemandStrategy` |
| `MayRefresh`, `MaySend` | the `constraint`s of `RefreshWrapper` and `SendPositionSnapshotViaChainlinkAndLz`; the owner is in the first only |
| `TakeOwnership` | the write `wrapper.owner = authority` of `deposit_position_nft`; any wallet may come to hold the NFT, and the OnDemand list is not touched |

The Store's `admin` never changes after `init_store` and is the constant `Admin`.
An OnDemand caller passes the optional account, so the model takes it as given
whenever it exists.

### SnapshotMirror

| definition | code |
|---|---|
| `clock`, `Tick` | `Clock::unix_timestamp`: whole seconds, so several instructions see one value |
| `snapshot[p]`, `lastSent[p]`, `sendCount[p]` | the wrapper's fields. A body is `[position, time, data]`: `data` is the rest of the 225 bytes, and two bodies are equal exactly when their `bodyHash` is |
| `RefreshWrapper(a, p, d)` | `refresh_wrapper`, where `d` is what Jupiter's accounts give at that moment |
| `SendPositionSnapshot(a, p, c)` | the whole `apply`: guard, two sends, `record_send`. `c` is `params.dst_eid`. A leg that fails aborts the transaction |
| `peer`, `SetPeerAddress`, `SetEnforcedOptions` | `PeerConfig` per eid: absent, our mirror's address, or another one. `init_if_needed` with enforced options alone leaves the zero address, which counts as another one |
| `ccipRoute`, `SetCcipRoute` | the single CCIP destination, independent of `dst_eid` |
| `sent`, `delivered`, `InFlight` | the networks. Each lane holds a set of packets; a receiver that reverts leaves the packet for a retry or a manual execution, a receiver that accepts it is done with it |
| `evmPeer`, `evmRoute` | whether `peers[eid]` and the CCIP router, selector and sender name our Solana program |
| `WriteDelivery` | `_writeDelivery`: drop if older, else overwrite the slot and list the position |
| `LzReceive`, `CcipReceive` | the two entry points, `lastPosition_` in the first only |

`sendCount` is bounded by the clock, because a snapshot is sent once per
second at most: its `saturating_add` never saturates. Store PDA and bumps, fees,
option bytes and gas are not in the model: they can make a transaction fail,
which is the step not being taken.

### NewestRegister

A publisher publishes snapshots, each newer than every earlier one of its
position; a *view* (a lane at a chain) shows one published snapshot per position
and replaces it only by a newer one. There are no wallets, lanes' queues, routes
or clocks in it. `SnapshotMirror!ImplementsRegister` maps `published` to the
bodies ever handed to a network and `shown` to the slots: sends publish, written
deliveries show, everything else stutters. It is checked by TLC and proved.

### Custody and Escrow

| definition | code |
|---|---|
| `nft[p]` | who holds the position NFT: a wallet, or the wrapper authority's account |
| `custody[p]` | `PositionWrapper.custody` |
| `DepositPositionNft`, `ReleasePositionNft` | the instructions of `custody.rs`: the depositor becomes owner; a release goes to the owner and clears the flag. Level and OnDemand list survive both |
| `StoreLevel`, `LevelStorable` | `set_wrapper_level`: 0 to 4, of which 3 and 4 are reserved |
| `Call` | the eight signed legs of `OperatePositionParams` |
| `PayoutSlot`, `Payout` | the twelve slots of Jupiter's account list that it can pay into; which of them the caller points elsewhere, and the transfer type |
| `RaisesRisk`, `LevelAllows` | `raises_risk` and `level_allows`: level 1 deposits and pays back, level 2 does everything, the others nothing |
| `PayoutAllowed` | the transfer type and the account checks of `check_jupiter_accounts` |
| `OperatePosition`, `OperateDex` | who may operate a wrapper in custody; the CPI with the caller's legs and accounts |
| `MovePosition` | Jupiter's side of a call (external): collateral, debt and the wrapper's purse move by what the legs say |
| `OpenPosition`, `TransferNft`, `JupiterOperate`, `Liquidate`, `FundWrapper` | the world around the program (external): positions are opened, NFTs handed around, operated directly by who holds them, liquidated |

`Escrow` knows three moves of an NFT: it is handed around outside, lodged by
somebody, and goes back to whoever lodged it. `Custody!ImplementsEscrow` maps the
lodger to the wrapper's owner while the flag is set. An NFT sent to the
authority's account by a plain transfer is stranded: no instruction moves it.

### Bridge

| definition | code |
|---|---|
| `route[<<m, c>>]`, `Storable` | `BridgeRoute` per mint and chain, and what `set_bridge_route` accepts |
| `router` | `CcipRoute.router`, which `bridge_tokens_ccip` compares with the route's program |
| `bal` | token accounts of wrapper authorities, wallets and the bridge signer |
| `sent` | what Circle, Chainlink and the LayerZero issuers were given |
| `BridgeCommon`, `Open` | the account constraints shared by the three instructions: caller, level, enabled, cap |
| `ThroughSigner` | `pull_to_bridge_signer` and the provider taking the same amount |
| `BridgeTokensCctp`, `BridgeTokensCcip` | one instruction, one step: both call the provider themselves |
| `BridgeTokensLz`, `OnlyOurs`, `SendFollows`, `CheckLzSend` | the release to the caller's wallet and the inspection of the transaction's other instructions |
| `tx`, `pc`, `before`, `Begin`, `Commit`, `RollBack` | a transaction run instruction by instruction (external: the Solana runtime). `before` is the ledger it started from; instructions of one transaction see each other's effects, other transactions do not interleave |
| `IssuerSend`, `Transfer` | instructions of other programs in such a transaction |

A transaction's instructions are arbitrary: releases by the transaction itself or
from inside another program (which the code must refuse), sends of anything from
anyone, payments, in any order. The slot of the source account in the issuer's send (stored in
`gas_limit`) is taken to be right, and native fees are left out.

### Treasury and TokenRoad

| definition | code |
|---|---|
| `strategy[t]`, `onLane`, `senderAllowed`, `transmitter` | the owner's settings; router and selector are one flag, set together by `setCcipRoute`, which writes only the entry of the sender it names |
| `held[t]`, `paid` | ERC-20 balances |
| `CcipAccepts` | the three reverts of `ccipReceive`, which the router calls only if the message carries gas |
| `ClaimCctp`, `Forward` | `claimCctp` and `forward`, open to anyone |
| `Deliver`, `Claim`, `DeliverElsewhere` | the networks (external): once per packet, with a fee of at most what the packet allows |

### BridgeClient

| definition | code |
|---|---|
| `profile`, `EditProfile` | what `getProfile` returns to the next task; `LzToken` is `LzTokenProfile` |
| `RouteForms`, `SetBridgeRouteTask` | what `set-bridge-route` writes for `--provider` oft, cctp and ccip |
| `ReadRoute`, `ReadCcipRoute` | the two reads of `bridge-tokens`, apart from each other and from the transaction |
| `LzPair`, `IssuerSendOf`, `LzMinAmount`, `SourceIndex`, `IssuerAccounts` | `bridgeTokensLz`, `buildIssuerSend`, `oftSendData`, `lzMinAmount`, the slot table and the account lists of the three kinds of issuer |
| `Submit`, `Reaches` | the transaction, with the accounts that the reads chose |
| `Finish` | a missing account, a simulation that fails, a dry run, a refusal, a lost confirmation |

A key of `--tamper` builds a transaction that is wrong on purpose ("the program must
refuse this"). The operator is the owner or a sender. Other callers are left to
`Bridge`'s own runs. Chainlink's selector, which the CcipRoute and the bridge's own
route both keep, is the business of `ClientCalls`.

### LivePosition and LiveRefresh

`LivePosition` holds every function of `tick_math.rs` and `live_position.rs` with the
code's names. Widths, ranges and the factor table are constants: 35-bit coefficients
and 15-bit exponents become 10 and 5 bits, u128 and u64 become `WideBits` and
`MaxAmount`, and a step that overflows or divides by zero in the code is `Failed` or
saturates here at those widths, as it does there.

| definition | code |
|---|---|
| `RatioAtTick`, `DebtRawAtTick` | products of the factor table over the bits of a tick |
| `MulDebtFactors`, `MulDivDebtFactors` | packed floats: products cut to the coefficient's width, the u128 in between |
| `Hop`, `BranchTurns`, `EndOfWalk`, `WalkBranches` | `walk_branches`, the bound on hops and the 1% rule included |
| `LiquidationRecord`, `GroupOf`, `SlotOf` | where a tick id's record is: on the tick, or flushed, three to an account |
| `Compute`, `Snapshot` | `compute_position_snapshot` with the accounts it is given; a missing one aborts |
| `ReadPosition` to `ReadBranch` | `collectLivePositionAccounts`: one request each; an account that is missing ends the loop |
| `Submit` | `refresh_wrapper` |
| `Operate`, `Repay`, `OthersOperate`, `Liquidate`, `Absorb`, `Reopen` | Jupiter's vault (external), as the fields the program reads and its comments describe it: a liquidation records ticks on a branch, a branch that is met merges, a re-opened tick flushes its record, an absorbed branch closes |

`home` and `left` are history: where the position's debt is recorded, and the exact
fraction that liquidations left of it. `StoresWhatIsLeft` compares the program's
float arithmetic with that fraction.

### SnapshotCodec

A byte is `<<field, k>>`, the k-th byte of a field. `EncodeBody` and `DecodeOnSolana`
go field by field, `BodyOffsets` (Solidity), `ClientOffsets` and the client's readers
of Jupiter's accounts are tables of offsets, and a reader that is off by one gets parts
of two fields. `WrapLzPayload` and `CcipData` are the two frames, `SnapshotBody` is the
contract's way to tell them apart. A payload's header is two numbers, because the two
sides read different parts of it: `low` is its last 4 bytes, which are all that
`decode_payload_len` looks at, and `high` the 28 before, which the contract compares too.

### ClientRecords, ClientInstructions, ClientCalls

| definition | code |
|---|---|
| `ClientStore` and so on, `Store` and so on | the generated accounts and types; the program's structs. `Cells` is Borsh: the bytes of a value, piece by piece, for every choice of options, variants and empty or filled vectors |
| `Client...Filters` | where the generated `GpaBuilder` looks for a field |
| `decodeCcipRoute`, `getLendmirrorErrorFromCode` | the reader of `ccip.ts`; the generated errors |
| `ClientInitStore` and so on, `InitStore` and so on | `generated/lendmirror/instructions`; the `Accounts` structs with their `mut`, `Signer`, `Option`, `init` and `init_if_needed` |
| `programData` to `cctpAccounts` | addresses, as in `pda.ts`, `jupiter.ts`, `ccip.ts`, `bridge.ts`: program and seeds, with byte order |
| `setWrapperLevel` to `setCcipRouteInstruction` | one method of the library each: the accounts it passes, by name |
| `getAccountMetasAndSigners` | names to positions; an account that is left out becomes the program's own address |
| `Demanded`, `ChecksPass`, `Accepts` | the program's seeds, address and token constraints, and the checks at the head of a handler |
| `Lane`, `ProvidersTake` | the CCIP router and Circle (external) take only the accounts of the lane asked for, and Chainlink's own settings: a snapshot asks for the CcipRoute's selector, a bridge for that of its own route |

A moment is a pair: the chain as the client saw it and as its call finds it, which may
differ by one change that the admin, a depositor or the market makes, or by an account
that has been created since. What two records name twice (`Repeated`: router, selector,
the fee quoter, the RMN remote and the LINK mint) may have changed in either, in both
or in none, at each of the two times. `CallsLand` says that the call goes through exactly when the accounts
it needs exist and the records it goes by agree (`Ready`) and what the client read for
it is what the program and the provider go by (`StillTrue`). For `bridgeTokensCcip`
that means: the selector the client took from the CcipRoute is the one that the bridge
route has by now; the program never compares the two records' selectors, the router
refuses the accounts. Nothing moves by itself here, so the three modules have no variables;
`MCBridgeClient` takes them in by `INSTANCE`, beside the tasks that call the library.

### SyncAll

| definition | code |
|---|---|
| `List_` | `listWrappers`; `before` is each wrapper as it was then |
| `Refresh`, `RefreshErrs`, `RefreshFails` | the refresh transaction; the `catch` for an error once, and for a position (`Bad`) that fails each time |
| `Look`, `Changed` | the second read and the decision |
| `Send`, `SendRefused`, `SendErrs` | the send; the program's guard; a quote that fails |
| `Restart` | the process dies and starts at the top. A transaction that landed without its confirmation is `Refresh` or `Send` followed by what an error would do |
| `OthersCall`, `JupiterMoves`, `Receive`, `SwitchLane`, `TimePasses` | what happens meanwhile |

What Jupiter holds is `<<numbers, rest>>`: `changed()` compares collateral, debt, tick
and the flag, and neither prices nor dust. The flags `skipRefresh`, `force`, `only` and
`dryRun` are left out.

## 3. What TLC checks

| run | instance | properties |
|---|---|---|
| `mirror_newest` | 2 wallets, all role changes, lists up to the limit; 2 contents; 3 seconds | `TypeOK`, `SentOnce`, `SendGuardCovers`, `SlotIsNewestDelivered`, `MirrorNeverGoesBack`, `UnmatchOnlyByNewer`, `ImplementsRegister` |
| `mirror_split` | 2 chains; every peer, route and EVM setting; 2 seconds | `SendCountExact`, `SettledMeansMatched` |
| `mirror_live` | 2 positions on one chain, 2 seconds; `FairSpec` | `LastPositionAgrees`, `PositionsListedOnce`, `EventuallyMirrored`, `EventuallyMatched` |
| `mirror_rearm` | 2 seconds | `RefreshRearms`, violated |
| `custody` | 2 wallets, 1 position, all role changes, levels 0 to 5, 169 combinations of legs; a claim, or any one of 12 payout slots, astray | `CustodyTypeOK`, `CustodyMeansHeld`, `ImplementsEscrow`, `LevelBoundsRisk`, `NothingLeaks` |
| `bridge_calls` | Circle and Chainlink; 9 forms of a route, good and bad; 2 routers; levels 0, 2, 3 | `BridgeTypeOK`, `LossIsSent`, `BridgeAccountUntouched` |
| `bridge_lz` | all transactions of up to 3 instructions out of 8, 2 wallets; and pairs of releases from 2 wrappers | `LossIsSent`, `WalletsGainNothing`, `OneLossAtATime` |
| `bridge_client` | 3 profiles, one per kind of issuer; all tampers; routes, CcipRoute and profile change at any step | `ClientAgrees`, `TamperedIsRefused`; and of the library beneath: `LibraryMatchesProgram`, 594 moments, 21 calls |
| `road` | treasury settings made before, between and after arrivals; fees; 2 packets over any of the three networks, LayerZero's to elsewhere; `FairRoadSpec` | `RoadTypeOK`, `TreasuryBooks`, `EventuallyForwarded` |
| `live_refresh` | a vault with 2 ticks, 3 branches, 6 operations; 2 hops, and a client's loop of 2 branches | `LiveTypeOK`, `AlwaysComputable`, `QuietPlanSuffices`, `ArithmeticFits`, `SnapshotSurvives`, `MirrorPricesNetDebt`, `StoresWhatIsLeft`, `EventuallyRefreshed` |
| `sync_live` | 2 positions, one that can never be refreshed; another caller; 1 fault; lanes on and off; `SyncFairSpec` | `SyncTypeOK`, `EventuallyShown` |
| `sync_skip` | 1 position, no faults | `NewerTimeIsChanged`, violated |

*Bounds of the mirror.* A reordering needs two packets on a lane; an order that
differs between the lanes needs two on each; three seconds give three packets per
lane and with that every relative order of an old, a middle and a new copy. Two
contents are enough for two bodies of one second to differ. Two chains are enough
for the two legs of one send to part, two positions for the state they share. The
clock is the only unbounded quantity and `MaxTime` its bound; `AllowlistLen` is 1 so
that a list of two keys is refused.

*Bounds of custody.* `MaxUnits` bounds collateral, debt and the wrapper's tokens at
2, enough for the two tokens of a smart leg to move in opposite directions. A leg's
fields matter by their signs only; all signs of the two token amounts are combined.
Levels go to 5, one over what can be stored.

*Bounds of the bridges.* Amounts are 100 and 200 so that the 1% and the 0.5% that
the code tolerates are one unit or two, and `Fees` and `Dust` lie on either side of
them. `DomainLimit` stands for 2^32 and is 4 or 8, with a chain number above it.
`MaxSent` bounds the packets (a second one meets what the first left behind) and
`MaxBalance` what is paid into an account from outside. Transactions have
three instructions at most, since two are needed and a third can disturb them; two
pairs have four. In `bridge_lz` the constraint `LzBound` lets a second wrapper take
part in those only, with the roles at rest, and a second packet leave only then.
`bridge_client` bridges 250, which is no multiple of 200, so that a headroom that is
rounded the other way shows, with headrooms of 50 (the most allowed), 3 and 0. The theorems have none of these bounds but `MaxSent` and
`MaxBalance`, which may be any numbers.

*Bounds of the refresh.* Coefficients of 10 bits, ticks half as much again apart and
a spacing to match, so that a liquidation moves by whole ticks within amounts of 8
bits. Three branches give a chain of two merges, as many hops as `MaxBranchHops`
allows (a walk that is allowed one less is caught), and one branch more than the
client's loop collects. So it is in the code, where the program makes 32 hops over 33
branches and the client reads 32: `ClientReaches` is false in some states of the run,
and without that condition `QuietPlanSuffices` would be violated. When an absorbed
branch has handed over to an older one, a new branch takes the next free number, at most
`MaxGap` above the current one's: 1 in the run, anything in the proofs.
Fractions are 3/8 and 1/256, which leaves less than the 1% rule tells from nothing. Ids start at 3, so that a tick that is re-opened crosses
from one flushed account of three into the next. What depends on the constants alone
(`ArithmeticFits`, the layouts) is evaluated in the initial states. `Tolerance`
bounds what cutting to 10 bits may lose; that the code's own 35 bits lose less is
arithmetic outside the model. The sixteen numbers of the table are the code's own
test's business.

*Bounds of the cron.* One chain, since `ccipRoute` and `--dst-eid` name one; two
positions, of which one fails; two seconds give an old and a new snapshot, and
once time is up nothing is newer, so that the last state has to come through by what
was left unsent. One fault may be an error, a lost confirmation or a restart.

*Fairness.* `FairSpec` assumes that each network executes a packet that its
receiver would accept (an executor or router does, and anyone may retry
`lzReceive` or execute a CCIP message by hand). `FairRoadSpec` assumes the same of
the token networks and that somebody calls `claimCctp` and `forward`, which anyone
may. `LiveRefresh` assumes that somebody keeps running the refresh command and that the
network answers it, success or not (`WF_vars(Reads)`, `WF_pc(Answered)`), and nothing of
the vault, whose operations are bounded. `EventuallyRefreshed` is conditional on a
chain that stays within the client's loop: with one that is longer every refresh fails. `SyncFairSpec` assumes that the cron is started
again and again and its steps end, that time passes and that both networks deliver; other
callers and Jupiter need never move. Beyond that nothing is assumed of wallets, admins,
owners or the clock. The liveness properties are conditional on the destination staying configured from some time on
(`StaysOpen` for the treasury), since an owner who leaves a lane off keeps the
packets waiting for ever.

*The violated runs.* In `mirror_rearm`, `refresh_wrapper.rs` says of a new snapshot that it "is newer
than anything sent before. That is what re-arms the send guard". The clock counts
seconds and `can_send` compares with `>`: refresh, send and refresh in one second
leave a snapshot with a new content and the time of the last send, and the next
send fails with `SnapshotAlreadySent` until a later refresh. This is also what
keeps `SentOnce` true, and with it the claim in `_writeDelivery` that an
overwrite on equal times is harmless: a guard with `>=` breaks both.

In `sync_skip`, `docs/review.md` says of the cron that "changed" also means a newer
snapshot time. The code compares the time in the list with the last send, so a
wrapper that was sent and is then refreshed to the same numbers is skipped in that
pass, although the message calls it unchanged since the last send; prices and dust
that moved wait with it. The next pass lists the unsent snapshot and sends it, which is
why `EventuallyShown` holds, and also why an unchanged position is sent every
second pass. If another caller sends in between and the numbers go there and back,
one more pass is skipped.

## 4. What is proved

`SnapshotMirrorProofs` proves, for any wallets, positions, chains, contents,
lists and clock bound that satisfy `AccessAssumption` and `MirrorAssumption`
(sentinels differ from real values, the admin is a wallet, bounds are positive):

* `TypeCorrect`, `GuardCovers`, `SentOnceHolds`, `NewestWins`: the invariants
  `TypeOK`, `SendGuardCovers`, `SentOnce`, `SlotIsNewestDelivered`;
* `NeverGoesBack`, `MatchIsStable`: the action properties `MirrorNeverGoesBack`
  and `UnmatchOnlyByNewer`;
* `PipelineImplementsRegister`: the refinement of `NewestRegister`.

The argument runs from the guard on Solana to the reader on EVM. `SentOnce` is
not inductive: that a second packet for one time cannot leave needs to know that
everything already sent is covered by `lastSent`, and that `wrap_position`, which
writes 0 into it, only ever runs before the first send. `SendGuardCovers` says
both. With it a send hands over a body strictly newer than everything sent for the
position (`SendIsNewest`), so `SentOnce` is preserved. `SlotIsNewestDelivered` then
needs `SentOnce` where times are equal: an overwrite on equal times writes the body
that is already there. `PipelineInv` is the conjunction of these with
`DeliveredWasSent`, and is inductive (`PipelineSafe`). The action properties and
the refinement follow: a slot changes only to a strictly newer body
(`ChangeIsNewer`).

`CustodyProofs` does the same for any positions, wallets, levels and legs:
`CustodyTypeCorrect`, `CustodyHolds` (the flag means the NFT is held), `LevelHolds`
and `FundsStay` (the two action properties) and `NftReturnsToDepositor`, the
refinement of `Escrow`. The inductive invariant is the type invariant and
`CustodyMeansHeld`; that a release takes the NFT from the authority's account to the
wallet that lodged it follows because only a deposit, which a set flag excludes,
writes the owner.

`BridgeProofs` proves, for any routes, mints, chains, fees, roundings and for
transactions of any length and content, `BridgeTypeCorrect`, `LossesAreSent`,
`OneLoss` and `SignerPassesThrough`. What a transaction has lost is only judged
when it commits, so the invariant has to follow it (`TxInv`): either no wrapper has
been touched, or exactly one release has run, no other instruction of the
transaction is or was one of the program's, the wrapper has lost exactly that
amount, the instruction behind the release is the matching send, and once the
counter is past it its packet is with the bridge. `RoutesStorable` adds that every
stored route passed the admin's checks, which is why a cast to `u32` and taking the
last 20 bytes of the receiver lose nothing (`CallLoses`). Settings cannot change
during a transaction, so the route that was checked is the route that is carried.

The constants of `Bridge` name the forms, amounts and transactions that a run goes
through. The proofs are about `AnySpec`, where every argument is any of its type, and
`BridgeSpec` is an instance of it (`BridgeIsAny`). So what they show holds for
transactions that another component builds:

* `RoadKeepsBridge`: behind the bridges there may be treasuries, strategies and
  networks that deliver in any order; a step of `TokenRoad` is a step of `Bridge` or
  leaves it alone, so it implements `BridgeSpec` and has its action properties.
* `TasksKeepBridge`: the pair that `bridge-tokens` builds, tampered or not, is a
  transaction of `Bridge` (`PairIsTransaction`), so wrappers and wallets are as safe
  from the operator's tasks as from anybody. The proof wants the send's amount to be a
  u64, which `--tamper amount` of a zero amount is not; the task throws there before
  it sends, and `Submit` has that guard since.

`SnapshotMirrorProofs` adds to `PipelineInv` what the two sides keep beside the slots:
`CountsAreExact`, `LastPositionHolds`, `ListedOnce` and `SettledLanesMatch`. `BooksInv`
joins the three books with the finiteness of the packets sent, without which a
cardinality says nothing; a send adds one packet that was not there (`SendIsNewest`
again), so the count stays exact. That settled lanes match follows from
`PipelineInv` alone: both slots hold the newest of one and the same set, and no two
snapshots of a position share a time.

`WalletsDoNotGain`, in the same module, is about the sum of what all wallets hold.
A release puts its amount into a wallet and the send behind it takes out at least
199/200 of it, so between the two the wallets hold too much: `WalletsInv` says that
they hold at most what they held before, or that exactly one release is out (`Lent`),
and then at most its amount more until the send has run and at most the rounding
after it (`Due`). That no second release can be out is `TxInv` again.

`TokenRoadProofs` proves `RoadTypeCorrect`: packets arrive only once they are
settled, so a roll-back never takes back what was delivered. The invariant
(`RoadInv`) says that a transaction only appends to what was sent before it
(`TxAppends`) and that what has arrived is among the settled packets
(`ArrivedSettled`). `TreasuryBooksHold` needs one thing more: the books have to be kept
over the settled packets (`BooksInv`), because the list of sent packets shrinks when
a transaction is rolled back. A delivery adds one index to the sum of arrivals, a
forward moves an amount from `held` to one term of the sum of `paid`.

`BridgeClientProofs` proves `ClientAgreesAlways` and `TamperedNeverRuns` for any
profiles, amounts, caps and decimals. The invariant (`ClientInv`) is small: every
stored route passed the admin's checks, and a plan under way was read from one. The
work is in the lemmas: `HeadroomFits` (a minimum with a headroom of at most 50 basis
points, rounded down, never falls under the amount less 1/200 of it that the program
demands), `SourceSlot` (the index the task writes is where the issuer's account list
has the source) and `TaskRoutes` (every route of the profile can be stored). For a
tampered transaction, `TamperedPair` shows which check of the release each tamper
fails.

`LiveRefreshProofs` proves, for any widths, factor table, ticks,
fractions, number of branches and of hops:

* `RefreshesStayTyped`: `LiveTypeOK`. The inductive invariant `TypeInv` types every
  account and says that the branches that were made are joined only to one another
  (`Joined`). Along the way the arithmetic is shown to stay within its types: the ratio
  of every tick in range, both debts, products and quotients of packed factors, and
  the collateral at the minima, where the divisor is positive because a part of a
  number is no larger than the number (`Share`). `BranchTurns` is a recursive function;
  what it returns is proved by induction over its turns (`WalkTurns`, `TurnsStand`,
  `EndOfWalkType`).
* `ClientCollectsEnough`: `QuietPlanSuffices`, for any number of branches and of turns.
  Its condition `ClientReaches` is about the position's own chain: some set that no walk
  leads out of (`Collected`) has no more branches than the loop has turns. It is needed:
  the client reads 32 branches, the program walks over up to 33. `QuietInv`
  follows the client's reads while the vault rests: every branch collected exists, the
  record's branch is among them or the next to be read, and so is the branch that a
  merged one points at (`OnTheWay`), and all of them belong to every set that no walk
  leads out of (`OfTheChain`). So a loop that has used its turns has either found all of
  such a set or more than fits one. When it ends by itself nothing that exists is
  missing, and two walks over sets of accounts that agree so far end
  alike (`WalksAlike`). A record that was flushed to a missing account makes the
  program fail with the client's accounts and with all of them (`RecordLost`).
* `MirrorsPriceAlike`: `MirrorPricesNetDebt`, from the shape of what `Compute` returns.
* `OnlyNumbersFail`: `AlwaysComputable`, as long as no more branches were merged than
  the program follows (`ChainIsShort`) and no amount or exponent on the way is out of
  range (`NumbersFit`). That the program never misses an account or loses its way needs
  `RecordsInv`, which says what the vault leaves for it to read: every branch points at
  an older one that was liquidated to a tick (`JoinedToOlder`), every tick that was
  liquidated and every id that a tick has flushed has a record, and it names such a
  branch or says that nothing is left (`TickInv`, `Written`), and the position's id is
  one that its tick handed out (`PositionInv`). Without the second part a re-opened
  tick could leave a position without a record; without the first a walk could go
  round in circles. With them ids fall along a walk, so it meets each merged branch
  once and ends within the hops it has (`WalkEnds`), on a branch whose minimum has a
  ratio (`WalkSucceeds`).
* `QuietRefreshesPass`: `OnlyNumbersFail` and `ClientCollectsEnough` together. A refresh
  whose accounts were read while the vault rested goes through, under the same two
  conditions and `ClientReaches`.
* `ProductsAreExact`: a product of normalised debt factors is an `Err`, saturated or normalised,
  and then it is the exact product cut below its highest bits and loses less than one part in
  2^(`CoefficientBits` - 1). This is the second part of `ArithmeticFits` for every pair
  of factors and every width, 35 bits included.
* `DeeperIsMore`, `DebtReadsBack`: the further down its tick a branch stopped, the more
  collateral backs the same debt; and debt turned into collateral at the top of a tick
  and back is no more than it was. The first is part of what `CollateralIsContinuous`
  samples, for all ticks, debts and tables.
* `FramesAgree`, `FramesBringTheBody`, `CutLosesNothing`: about the two frames and the
  table of offsets, for bytes of any kind. What Solana reads of a payload depends on the
  last 4 bytes of the header only. The EVM mirror finds the same body in it when the
  other 28 are 0, and refuses it otherwise: a header of 2^32 + 225 is a body to
  `unwrap_lz_payload` and an error to `snapshotBody`. `wrap_lz_payload` writes 28 zeros,
  so no snapshot is sent that way. A payload that is exactly as long as a body EVM
  takes for Chainlink's frame and Solana for a truncated one; every body
  of 225 bytes comes through both frames; two bodies that the decoders read alike are equal.

They assume of the constants `LiveAssumption` (of the widths: a product of two
coefficients fits the wide integer, 70 of 128 bits in the code), `RefreshAssumption`,
`PowersOfTwo` (2^0 is 1 and each power doubles the last: the provers do not know
exponentiation, the rest follows by induction in `Doubles` and `ExponentsAdd`),
`FailedAssumption` and `MissingAssumption` (an `Err` and an absent account are no
values of the types beside them) and `TableAssumption` (no product of the factor table
is rounded down to 0). TLC evaluates all of them in the run.

`SyncAllProofs` proves that every step of the cron and of what is around it is a step
of the pipeline or a stutter (`SyncIsPipeline`), from a state the pipeline's invariant
holds in. With it come `SyncTypeCorrect`, `CronSendsOnce` and `CronImplementsRegister`:
restarts and lost confirmations never send a snapshot twice or out of order.
`CronKeepsMirrors` and `CronNeverGoesBack` carry over the rest of the pipeline's safety:
guards, slots, matches, counts and lists stay right under the cron, and its steps too
only replace what a mirror shows by something newer.

Induction over numbers is done in first-order form: the numbers at which a claim holds
are a set that contains 0 and, with n, n + 1 (`SharedProofs.Induction`, from the
well-foundedness of < on the naturals); over finite sets likewise, which gives the
lemmas about sums (`SumStep`, `SumChange`, `SumZero`). The proofs about sums need what the
sums run over to be finite, and `BridgeAssumption` and `RoadAssumption` say so.

Only model-checked:

* the liveness properties, which are out of the prover's reach;
* `StoresWhatIsLeft` and the numeric half of `AlwaysComputable` (`NumbersFit`): they
  depend on the numbers. Whether an amount fits a u64, an exponent stays above 0 and a
  sequence of roundings within `Tolerance` follows from the sizes of table, ticks and
  fractions together, not from an invariant;
* `ArithmeticFits` as a whole: that ratios rise and keep their spacing is a fact about
  the table's numbers, and that collateral makes no jump between two ticks follows from
  that;
* `SnapshotSurvives` and `LibraryMatchesProgram`, which are formulas without variables or
  constants of the instance: TLC evaluates them, and that evaluation is the whole of the
  proof (types nest, so `ClientRecords` recurses over them, which the prover does not
  take).

## 5. Not modelled

Fees and option bytes; how the two vault accounts (prices, tokens) are decoded; the
legacy `get_jupiter_position` beyond the computation it shares (it writes a field no
instruction reads); the read-only `quote_send`; proxy upgrades; the tasks other than the
cron and the two bridge tasks, which send one transaction each (`operate-position` tries
again after an account error, and a failed transaction changes nothing); the wiring of
LayerZero's endpoint and the deployment scripts, which are scripts over accounts of
other programs. Of the client library: the accounts that LayerZero's SDK appends to a
send or a quote, Jupiter's own list behind `operate_position`, the pool accounts of a
CCIP token, and discriminators, which are hashes of names. The networks themselves are
external: `Tick`, `InFlight` and `Acknowledge`, and `Deliver`, `Claim` and
`DeliverElsewhere` for tokens, say what the code relies on. A packet that is never
verified or committed is excluded by fairness only; the safety properties hold
without it.

`SnapshotMirror` and `Bridge` let any wallet become a wrapper's owner at any time
(`TakeOwnership`), which is more than `Custody` allows: their properties hold in
particular for the owners that custody brings about. `Bridge` does not model the
deposits that `operate_position` makes from the same token account; to the
bridges they are one more way for a balance to change, and to `Custody` a bridge is
the one way out of the wrapper that `NothingLeaks` leaves aside. In the EVM
treasury, router and source selector are right or wrong together.

The allowance that `bridge_tokens_ccip` gives the router's billing signer is not
modelled; the router, which is external, is taken to draw exactly the amount of the
call. `ClientAgrees` and `TamperedIsRefused` speak of the time in which the route that
the task read stands. What becomes of a pair whose route was replaced in between is left
to `LossIsSent`: the runs of `Bridge` put any transaction behind any change of a route,
and `TasksKeepBridge` proves it of the tasks' own. The calls of the library meet a
changed route, CcipRoute, tick or owner in `CallsLand`.

One hazard of `PROJECT.json` has no property: a deposit leaves the OnDemand list of the
previous owner in place, about which the code promises nothing.

## 6. Plan

Done: every module of section 2, its runs and proofs. What is left, in this order:

1. The decoding of the vault accounts, next to the other layouts of `SnapshotCodec`.
2. The cron's flags `skipRefresh`, `force` and `only`.
