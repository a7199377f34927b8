--------------------------- MODULE SnapshotMirror ---------------------------
(***************************************************************************)
(* The snapshot pipeline, end to end.                                      *)
(*                                                                         *)
(* On Solana a wrapper's snapshot is refreshed from Jupiter and stamped    *)
(* with the cluster clock (refresh_wrapper), then sent once, in one        *)
(* transaction, over LayerZero and over Chainlink CCIP                     *)
(* (send_position_snapshot_via_chainlink_and_lz).  The two lanes deliver   *)
(* in any order and at any speed.  On each EVM chain LendMirror.sol keeps  *)
(* the newest body per lane and position, and `matched` compares the two.  *)
(*                                                                         *)
(* A body is [position, time, data]: data stands for the 215 other bytes   *)
(* (collateral, debt, tick, exchange prices, ...) and two bodies hash to   *)
(* the same bodyHash exactly when they are equal.                          *)
(***************************************************************************)
EXTENDS Access, Sequences

CONSTANTS
    Chain,      \* EVM chains with a LendMirror, one LayerZero eid each
    Data,       \* what a refresh can read from Jupiter
    Targets,    \* destinations the admin writes into the CCIP route
    Nowhere,    \* an address or a chain where no LendMirror listens
    NoRoute,    \* the CcipRoute account does not exist yet
    PeerKinds,  \* what the admin writes into a PeerConfig: see peer
    EvmSettings,\* what an EVM owner sets a lane to: TRUE is our Solana sender
    NoSnapshot, \* Option::None on Solana, received = false on EVM
    MaxTime     \* bound on the clock

Lane == {"lz", "ccip"}

Body == [position : Position, time : 1..MaxTime, data : Data]

Destination == Chain \cup {Nowhere}

Packet == [dst : Destination, body : Body]

ASSUME MirrorAssumption ==
    /\ MaxTime \in Nat \ {0}
    /\ Nowhere \notin Chain
    /\ NoRoute \notin Destination
    /\ Targets \subseteq Destination
    /\ PeerKinds \subseteq {"elsewhere", "mirror"}
    /\ EvmSettings \subseteq BOOLEAN
    /\ NoSnapshot \notin Body

VARIABLES
    clock,         \* Clock::unix_timestamp, in seconds
    snapshot,      \* PositionWrapper.snapshot
    lastSent,      \* PositionWrapper.last_sent_snapshot_time
    sendCount,     \* PositionWrapper.send_count
    peer,          \* PeerConfig per eid: absent, or the address it holds
    ccipRoute,     \* CcipRoute: dest_chain_selector and receiver
    sent,          \* every packet each lane was ever given
    delivered,     \* the packets the lane is done with (written or dropped)
    evmPeer,       \* peers[solanaEid] is the Store PDA
    evmRoute,      \* router, selector and sender are those of our CCIP lane
    slot,          \* layerZeroDelivery and chainlinkDelivery
    lastPosition,  \* lastPosition_
    positions      \* positions[], with `known` its set of members

solanaVars == <<clock, snapshot, lastSent, sendCount, peer, ccipRoute>>

evmVars == <<evmPeer, evmRoute, slot, lastPosition, positions>>

vars == <<accessVars, solanaVars, sent, delivered, evmVars>>

TypeOK ==
    /\ AccessTypeOK
    /\ clock \in 1..MaxTime
    /\ snapshot \in [Position -> Body \cup {NoSnapshot}]
    /\ lastSent \in [Position -> 0..MaxTime]
    /\ sendCount \in [Position -> Nat]
    /\ peer \in [Chain -> {"absent", "elsewhere", "mirror"}]
    /\ ccipRoute \in Destination \cup {NoRoute}
    /\ sent \in [Lane -> SUBSET Packet]
    /\ delivered \in [Lane -> SUBSET Packet]
    /\ evmPeer \in [Chain -> BOOLEAN]
    /\ evmRoute \in [Chain -> BOOLEAN]
    /\ slot \in [Lane -> [Chain -> [Position -> Body \cup {NoSnapshot}]]]
    /\ lastPosition \in [Chain -> Body \cup {NoSnapshot}]
    /\ positions \in [Chain -> Seq(Position)]

\* init_store ran on Solana and initialize on every EVM proxy; no lane is set.
Init ==
    /\ AccessInit
    /\ clock = 1
    /\ snapshot = [p \in Position |-> NoSnapshot]
    /\ lastSent = [p \in Position |-> 0]
    /\ sendCount = [p \in Position |-> 0]
    /\ peer = [c \in Chain |-> "absent"]
    /\ ccipRoute = NoRoute
    /\ sent = [l \in Lane |-> {}]
    /\ delivered = [l \in Lane |-> {}]
    /\ evmPeer = [c \in Chain |-> FALSE]
    /\ evmRoute = [c \in Chain |-> FALSE]
    /\ slot = [l \in Lane |-> [c \in Chain |-> [p \in Position |-> NoSnapshot]]]
    /\ lastPosition = [c \in Chain |-> NoSnapshot]
    /\ positions = [c \in Chain |-> <<>>]

-----------------------------------------------------------------------------
(* Solana *)

\* Transactions of one second see one unix_timestamp; the timestamp never
\* goes back.  MaxTime bounds the run.
Tick ==
    /\ clock < MaxTime
    /\ clock' = clock + 1
    /\ UNCHANGED <<accessVars, snapshot, lastSent, sendCount, peer, ccipRoute,
                   sent, delivered, evmVars>>

WrapPosition(a, p) ==
    /\ WrapAccess(a, p)
    /\ snapshot' = [snapshot EXCEPT ![p] = NoSnapshot]
    /\ lastSent' = [lastSent EXCEPT ![p] = 0]
    /\ sendCount' = [sendCount EXCEPT ![p] = 0]
    /\ UNCHANGED <<clock, peer, ccipRoute, sent, delivered, evmVars>>

\* d is what compute_position_snapshot makes of Jupiter's accounts right now.
RefreshWrapper(a, p, d) ==
    /\ Wrapped(p)
    /\ MayRefresh(a, p)
    /\ snapshot' = [snapshot EXCEPT ![p] =
                      [position |-> p, time |-> clock, data |-> d]]
    /\ UNCHANGED <<accessVars, clock, lastSent, sendCount, peer, ccipRoute,
                   sent, delivered, evmVars>>

\* Mutant: the guard accepts the snapshot that already went out.
MutCanSend(p) == snapshot[p] # NoSnapshot /\ snapshot[p].time >= lastSent[p]

CanSend(p) == snapshot[p] # NoSnapshot /\ snapshot[p].time > lastSent[p]

\* Where the packet for chain c's eid ends up: a PeerConfig created by its
\* enforced options alone holds the zero address.
LzDestination(c) == IF peer[c] = "mirror" THEN c ELSE Nowhere

Hand(lzDst, ccipDst, body) ==
    sent' = [sent EXCEPT !["lz"] = @ \cup {[dst |-> lzDst, body |-> body]},
                         !["ccip"] = @ \cup {[dst |-> ccipDst, body |-> body]}]

\* Mutants: the guard is never written; the guard is one second ahead.
MutRecordNoTime(p) ==
    /\ sendCount' = [sendCount EXCEPT ![p] = @ + 1]
    /\ UNCHANGED lastSent

MutRecordAhead(p) ==
    /\ lastSent' = [lastSent EXCEPT ![p] = snapshot[p].time + 1]
    /\ sendCount' = [sendCount EXCEPT ![p] = @ + 1]

RecordSend(p) ==
    /\ lastSent' = [lastSent EXCEPT ![p] = snapshot[p].time]
    /\ sendCount' = [sendCount EXCEPT ![p] = @ + 1]

\* c is params.dst_eid.  The CCIP leg follows the route, whatever c is.  A
\* failing leg aborts the transaction, so both packets leave or none does.
SendPositionSnapshot(a, p, c) ==
    /\ Wrapped(p)
    /\ MaySend(a, p)
    /\ peer[c] # "absent"
    /\ ccipRoute # NoRoute
    /\ CanSend(p)
    /\ Hand(LzDestination(c), ccipRoute, snapshot[p])
    /\ RecordSend(p)
    /\ UNCHANGED <<accessVars, clock, snapshot, peer, ccipRoute, delivered, evmVars>>

SetPeerAddress(c, kind) ==
    /\ peer' = [peer EXCEPT ![c] = kind]
    /\ UNCHANGED <<accessVars, clock, snapshot, lastSent, sendCount, ccipRoute,
                   sent, delivered, evmVars>>

\* init_if_needed: a peer that did not exist now does, with address zero.
SetEnforcedOptions(c) ==
    /\ peer' = [peer EXCEPT ![c] = IF @ = "absent" THEN "elsewhere" ELSE @]
    /\ UNCHANGED <<accessVars, clock, snapshot, lastSent, sendCount, ccipRoute,
                   sent, delivered, evmVars>>

SetCcipRoute(target) ==
    /\ ccipRoute' = target
    /\ UNCHANGED <<accessVars, clock, snapshot, lastSent, sendCount, peer,
                   sent, delivered, evmVars>>

-----------------------------------------------------------------------------
(* EVM *)

EvmSetPeer(c, ours) ==
    /\ evmPeer' = [evmPeer EXCEPT ![c] = ours]
    /\ UNCHANGED <<accessVars, solanaVars, sent, delivered, evmRoute, slot,
                   lastPosition, positions>>

EvmSetCcipRoute(c, ours) ==
    /\ evmRoute' = [evmRoute EXCEPT ![c] = ours]
    /\ UNCHANGED <<accessVars, solanaVars, sent, delivered, evmPeer, slot,
                   lastPosition, positions>>

\* Mutants: nothing is stale; the comparison is swapped; the first copy stays.
MutNeverStale(current, body) == FALSE

MutSwapped(current, body) == current # NoSnapshot /\ current.time < body.time

MutFirstWins(current, body) == current # NoSnapshot

\* current.received && snapshotTime < current.snapshot.snapshotTime
IsStale(current, body) == current # NoSnapshot /\ body.time < current.time

Written(lane, m) == ~IsStale(slot[lane][m.dst][m.body.position], m.body)

Known(c) == {positions[c][i] : i \in 1..Len(positions[c])}

\* Mutant: the known flag is never consulted.
MutListAlways(c, p) == [positions EXCEPT ![c] = Append(@, p)]

List(c, p) ==
    IF p \in Known(c) THEN positions ELSE [positions EXCEPT ![c] = Append(@, p)]

\* A stale delivery is acknowledged and dropped; equal times overwrite.
WriteDelivery(lane, m) ==
    LET c == m.dst
        p == m.body.position
    IN  IF Written(lane, m)
        THEN /\ slot' = [slot EXCEPT ![lane][c][p] = m.body]
             /\ positions' = List(c, p)
        ELSE UNCHANGED <<slot, positions>>

\* What the lane still holds for a LendMirror: it delivers in any order
\* (nextNonce is 0; the CCIP extra args allow out-of-order execution), once,
\* and keeps what the receiver reverted for a retry or a manual execution.
InFlight(lane, m) == m \in sent[lane] \ delivered[lane] /\ m.dst \in Chain

Acknowledge(lane, m) == delivered' = [delivered EXCEPT ![lane] = @ \cup {m}]

\* Mutant: `if (!written) return` is missing.
MutLastPosition(m) == [lastPosition EXCEPT ![m.dst] = m.body]

NewLastPosition(m) ==
    IF Written("lz", m) THEN [lastPosition EXCEPT ![m.dst] = m.body] ELSE lastPosition

\* With the peer unset or another address lzReceive reverts: NoPeer, OnlyPeer.
LzReceive(m) ==
    /\ InFlight("lz", m)
    /\ evmPeer[m.dst]
    /\ WriteDelivery("lz", m)
    /\ lastPosition' = NewLastPosition(m)
    /\ Acknowledge("lz", m)
    /\ UNCHANGED <<accessVars, solanaVars, sent, evmPeer, evmRoute>>

\* With another router, selector or sender ccipReceive reverts.
CcipReceive(m) ==
    /\ InFlight("ccip", m)
    /\ evmRoute[m.dst]
    /\ WriteDelivery("ccip", m)
    /\ Acknowledge("ccip", m)
    /\ UNCHANGED <<accessVars, solanaVars, sent, evmPeer, evmRoute, lastPosition>>

Matched(c, p) ==
    /\ slot["lz"][c][p] # NoSnapshot
    /\ slot["ccip"][c][p] # NoSnapshot
    /\ slot["lz"][c][p] = slot["ccip"][c][p]

-----------------------------------------------------------------------------
SolanaAdmin ==
    \/ \E c \in Chain, kind \in PeerKinds : SetPeerAddress(c, kind)
    \/ \E c \in Chain : SetEnforcedOptions(c)
    \/ \E target \in Targets : SetCcipRoute(target)

EvmOwner ==
    \E c \in Chain, ours \in EvmSettings :
        EvmSetPeer(c, ours) \/ EvmSetCcipRoute(c, ours)

ChangeRoles == RoleChange /\ UNCHANGED <<solanaVars, sent, delivered, evmVars>>

WalletStep ==
    \E a \in Wallet, p \in Position :
        \/ WrapPosition(a, p)
        \/ \E d \in Data : RefreshWrapper(a, p, d)
        \/ \E c \in Chain : SendPositionSnapshot(a, p, c)

Delivery == \E m \in Packet : LzReceive(m) \/ CcipReceive(m)

Next == Tick \/ ChangeRoles \/ SolanaAdmin \/ EvmOwner \/ WalletStep \/ Delivery

Spec == Init /\ [][Next]_vars

\* Both networks execute what the receiver would accept: an executor runs
\* the packet, and anyone may retry lzReceive or execute a CCIP message by
\* hand.  Nothing is assumed of wallets, admins, owners or the clock.
Fairness ==
    \A m \in Packet : WF_vars(LzReceive(m)) /\ WF_vars(CcipReceive(m))

FairSpec == Spec /\ Fairness
-----------------------------------------------------------------------------
(* The abstract register the pipeline implements *)

PublishedBodies == {m.body : m \in sent["lz"] \cup sent["ccip"]}

ShownBodies ==
    [v \in Lane \X Chain |-> [p \in Position |-> slot[v[1]][v[2]][p]]]

Register == INSTANCE NewestRegister
    WITH View <- Lane \X Chain, Snapshot <- Body, Nothing <- NoSnapshot,
         published <- PublishedBodies, shown <- ShownBodies

\* The pipeline implements NewestRegister: a send publishes, a delivery that
\* is written shows, and everything else (refreshes, role and route changes,
\* stale and repeated deliveries) is invisible to a reader.
ImplementsRegister == Register!RegisterSpec
-----------------------------------------------------------------------------
(* Properties *)

BodiesAt(lane, c, p) ==
    {m.body : m \in {x \in delivered[lane] : x.dst = c /\ x.body.position = p}}

SentTo(lane, c, p) ==
    {m.body : m \in {x \in sent[lane] : x.dst = c /\ x.body.position = p}}

\* "A snapshot is sent at most once" (wrapper.rs, header): no lane is ever
\* given two packets for one position and one snapshot time, and the two
\* lanes never disagree on what that snapshot was.  It is what makes
\* _writeDelivery's overwrite on equal times harmless.
SentOnce ==
    \A l1, l2 \in Lane : \A m1 \in sent[l1], m2 \in sent[l2] :
        /\ m1.body.position = m2.body.position
        /\ m1.body.time = m2.body.time
        => m1.body = m2.body /\ (l1 = l2 => m1 = m2)

\* last_sent_snapshot_time never falls behind what went out, not even when
\* wrap_position writes 0 into it: no position that was ever sent is unwrapped
\* again.  This is what makes can_send a once-per-snapshot guard.
SendGuardCovers ==
    /\ \A p \in Position : ~Wrapped(p) => snapshot[p] = NoSnapshot /\ lastSent[p] = 0
    /\ \A p \in Position : snapshot[p] # NoSnapshot => snapshot[p].position = p
    /\ \A l \in Lane : \A m \in sent[l] :
          /\ Wrapped(m.body.position)
          /\ m.body.time <= lastSent[m.body.position]

\* send_count counts exactly the packets that left on each lane: no send is
\* recorded without both legs and no leg goes out unrecorded.
SendCountExact ==
    \A l \in Lane, p \in Position :
        sendCount[p] = Cardinality({m \in sent[l] : m.body.position = p})

\* "Newest snapshot wins" (LendMirror.sol, _writeDelivery): whatever the order
\* of delivery, each slot holds the newest body its lane has delivered there.
SlotIsNewestDelivered ==
    \A l \in Lane, c \in Chain, p \in Position :
        IF BodiesAt(l, c, p) = {}
        THEN slot[l][c][p] = NoSnapshot
        ELSE /\ slot[l][c][p] \in BodiesAt(l, c, p)
             /\ \A b \in BodiesAt(l, c, p) : b.time <= slot[l][c][p].time

DeliveredWasSent == \A l \in Lane : delivered[l] \subseteq sent[l]

\* The inductive invariant: the guard covers what was sent, so what was sent is
\* unique per second, so an equal-time overwrite changes nothing.
PipelineInv ==
    /\ TypeOK
    /\ SendGuardCovers
    /\ SentOnce
    /\ DeliveredWasSent
    /\ SlotIsNewestDelivered

\* lastPosition_ is shared by all positions of a chain and only the LayerZero
\* lane writes it: it always equals the LayerZero slot of its own position,
\* so a dropped delivery never leaks into pricedPosition().
LastPositionAgrees ==
    \A c \in Chain :
        IF \E p \in Position : slot["lz"][c][p] # NoSnapshot
        THEN /\ lastPosition[c] # NoSnapshot
             /\ lastPosition[c] = slot["lz"][c][lastPosition[c].position]
        ELSE lastPosition[c] = NoSnapshot

\* positions[] lists every position either lane has delivered, exactly once.
PositionsListedOnce ==
    \A c \in Chain :
        /\ Len(positions[c]) = Cardinality(Known(c))
        /\ Known(c) = {p \in Position : \E l \in Lane : slot[l][c][p] # NoSnapshot}

\* Once both lanes have delivered every packet sent to a chain for a position
\* and both were given the same snapshots, the chain reports a match.
SettledMeansMatched ==
    \A c \in Chain, p \in Position :
        /\ SentTo("lz", c, p) # {}
        /\ SentTo("lz", c, p) = SentTo("ccip", c, p)
        /\ \A l \in Lane : BodiesAt(l, c, p) = SentTo(l, c, p)
        => Matched(c, p)

\* A slot never loses its copy and never goes back in time, and positions[]
\* only grows (first-seen order is kept).
MirrorNeverGoesBack ==
    [][\A c \in Chain :
          /\ \A l \in Lane, p \in Position :
                slot[l][c][p] # NoSnapshot =>
                   /\ slot'[l][c][p] # NoSnapshot
                   /\ slot'[l][c][p].time >= slot[l][c][p].time
          /\ SubSeq(positions'[c], 1, Len(positions[c])) = positions[c]]_vars

\* "An old Chainlink copy must not undo a match" (LendMirror.t.sol,
\* testStaleChainlinkDeliveryDoesNotUnmatch): a match ends only when one lane
\* brings a strictly newer snapshot of that position.
UnmatchOnlyByNewer ==
    [][\A c \in Chain, p \in Position :
          Matched(c, p) /\ ~Matched(c, p)' =>
             \E l \in Lane : slot'[l][c][p].time > slot[l][c][p].time]_vars

\* "this snapshot is newer than anything sent before.  That is what re-arms
\* the send guard" (refresh_wrapper.rs): every refresh leaves a snapshot that
\* can_send accepts.
RefreshRearms ==
    [][\A a \in Wallet, p \in Position, d \in Data :
          RefreshWrapper(a, p, d) => CanSend(p)']_vars

LanesUp(c) == evmPeer[c] /\ evmRoute[c]

\* Every packet sent to a chain that keeps its lanes configured is reflected
\* there: the slot ends up holding that snapshot or a newer one.
EventuallyMirrored ==
    \A c \in Chain : <>[]LanesUp(c) =>
        \A l \in Lane, p \in Position, t \in 1..MaxTime :
            (\E b \in SentTo(l, c, p) : b.time = t)
                ~> (slot[l][c][p] # NoSnapshot /\ slot[l][c][p].time >= t)

\* If both legs of a send went to one chain that keeps its lanes configured,
\* the chain reports a match on it unless a newer send supersedes it.
EventuallyMatched ==
    \A c \in Chain : <>[]LanesUp(c) =>
        \A p \in Position, t \in 1..MaxTime :
            (\E b \in SentTo("lz", c, p) \cap SentTo("ccip", c, p) : b.time = t)
                ~> (Matched(c, p) \/ lastSent[p] > t)
=============================================================================
