------------------------ MODULE SnapshotMirrorProofs ------------------------
(***************************************************************************)
(* TLAPS proofs about SnapshotMirror, for every set of wallets, positions, *)
(* chains and data, every key list and every bound on the clock.           *)
(***************************************************************************)
EXTENDS SnapshotMirror, SharedProofs, TLAPS

-----------------------------------------------------------------------------
(* Type correctness *)

USE AccessAssumption, MirrorAssumption

\* What _writeDelivery leaves in every slot, pointwise.
LEMMA WriteEffect ==
    ASSUME TypeOK, NEW lane \in Lane, NEW m \in Packet, m.dst \in Chain,
           WriteDelivery(lane, m)
    PROVE  /\ slot' \in [Lane -> [Chain -> [Position -> Body \cup {NoSnapshot}]]]
           /\ \A l \in Lane, c \in Chain, p \in Position :
                slot'[l][c][p] =
                  IF l = lane /\ c = m.dst /\ p = m.body.position /\ Written(lane, m)
                  THEN m.body ELSE slot[l][c][p]
           /\ positions' \in [Chain -> Seq(Position)]
<1> DEFINE dst == m.dst
           pos == m.body.position
<1>1. m.body \in Body /\ pos \in Position /\ dst \in Chain
  BY DEF Packet, Body
<1>2. slot \in [Lane -> [Chain -> [Position -> Body \cup {NoSnapshot}]]]
      /\ positions \in [Chain -> Seq(Position)]
  BY DEF TypeOK
<1>3. CASE Written(lane, m)
  <2>1. slot' = [slot EXCEPT ![lane][dst][pos] = m.body]
    BY <1>3 DEF WriteDelivery
  <2>2. positions' = List(dst, pos)
    BY <1>3 DEF WriteDelivery
  <2>3. positions' \in [Chain -> Seq(Position)]
    BY <1>1, <1>2, <2>2 DEF List
  <2> QED BY <1>1, <1>2, <1>3, <2>1, <2>3
<1>4. CASE ~Written(lane, m)
  BY <1>2, <1>4 DEF WriteDelivery
<1> QED BY <1>3, <1>4

LEMMA TypeInit == Init => TypeOK
BY AccessTyped DEF Init, TypeOK

LEMMA TypeStep == TypeOK /\ [Next]_vars => TypeOK'
<1> SUFFICES ASSUME TypeOK, [Next]_vars PROVE TypeOK'
  OBVIOUS
<1> USE DEF TypeOK
<1>1. CASE Tick
  BY <1>1, AccessTyped DEF Tick, evmVars
<1>2. CASE ChangeRoles
  BY <1>2, AccessTyped DEF ChangeRoles, solanaVars, evmVars
<1>3. CASE SolanaAdmin
  <2>1. AccessTypeOK'
    BY <1>3, AccessTyped DEF SolanaAdmin, SetPeerAddress, SetEnforcedOptions, SetCcipRoute
  <2>2. CASE \E c \in Chain, kind \in PeerKinds : SetPeerAddress(c, kind)
    BY <2>1, <2>2 DEF SetPeerAddress, evmVars
  <2>3. CASE \E c \in Chain : SetEnforcedOptions(c)
    BY <2>1, <2>3 DEF SetEnforcedOptions, evmVars
  <2>4. CASE \E target \in Targets : SetCcipRoute(target)
    BY <2>1, <2>4 DEF SetCcipRoute, evmVars
  <2> QED BY <1>3, <2>2, <2>3, <2>4 DEF SolanaAdmin
<1>4. CASE EvmOwner
  <2>1. PICK c \in Chain, ours \in EvmSettings :
          EvmSetPeer(c, ours) \/ EvmSetCcipRoute(c, ours)
    BY <1>4 DEF EvmOwner
  <2>2. AccessTypeOK'
    BY <2>1, AccessTyped DEF EvmSetPeer, EvmSetCcipRoute
  <2>3. ours \in BOOLEAN
    OBVIOUS
  <2>4. \A f \in [Chain -> BOOLEAN] : [f EXCEPT ![c] = ours] \in [Chain -> BOOLEAN]
    BY <2>3, Zenon
  <2>5. evmPeer' \in [Chain -> BOOLEAN] /\ evmRoute' \in [Chain -> BOOLEAN]
    BY <2>1, <2>4, Zenon DEF EvmSetPeer, EvmSetCcipRoute
  <2> QED BY <2>1, <2>2, <2>5 DEF EvmSetPeer, EvmSetCcipRoute, solanaVars
<1>5. ASSUME NEW a \in Wallet, NEW p \in Position, WrapPosition(a, p)
      PROVE  TypeOK'
  BY <1>5, AccessTyped DEF WrapPosition, evmVars
<1>6. ASSUME NEW a \in Wallet, NEW p \in Position, NEW d \in Data,
             RefreshWrapper(a, p, d)
      PROVE  TypeOK'
  BY <1>6, AccessTyped DEF RefreshWrapper, evmVars, Body
<1>7. ASSUME NEW a \in Wallet, NEW p \in Position, NEW c \in Chain,
             SendPositionSnapshot(a, p, c)
      PROVE  TypeOK'
  <2>1. snapshot[p] \in Body
    BY <1>7 DEF SendPositionSnapshot, CanSend
  <2>2. LzDestination(c) \in Destination /\ ccipRoute \in Destination
    BY <1>7 DEF SendPositionSnapshot, LzDestination, Destination
  <2>3. sent' \in [Lane -> SUBSET Packet]
    BY <1>7, <2>1, <2>2 DEF SendPositionSnapshot, Hand, Packet, Lane
  <2>4. AccessTypeOK'
    BY <1>7, AccessTyped DEF SendPositionSnapshot
  <2>5. lastSent' \in [Position -> 0..MaxTime] /\ sendCount' \in [Position -> Nat]
    BY <1>7, <2>1 DEF SendPositionSnapshot, RecordSend, Body
  <2> QED BY <1>7, <2>3, <2>4, <2>5 DEF SendPositionSnapshot, evmVars
<1>8. ASSUME NEW m \in Packet, LzReceive(m)
      PROVE  TypeOK'
  <2>1. m.dst \in Chain /\ m.body \in Body
    BY <1>8 DEF LzReceive, InFlight, Packet
  <2>2. /\ slot' \in [Lane -> [Chain -> [Position -> Body \cup {NoSnapshot}]]]
        /\ positions' \in [Chain -> Seq(Position)]
    BY <1>8, <2>1, WriteEffect DEF LzReceive, Lane
  <2>3. lastPosition' \in [Chain -> Body \cup {NoSnapshot}]
    BY <1>8, <2>1 DEF LzReceive, NewLastPosition
  <2>4. delivered' \in [Lane -> SUBSET Packet]
    BY <1>8 DEF LzReceive, Acknowledge, Lane
  <2>5. AccessTypeOK'
    BY <1>8, AccessTyped DEF LzReceive
  <2> QED BY <1>8, <2>2, <2>3, <2>4, <2>5 DEF LzReceive, solanaVars
<1>9. ASSUME NEW m \in Packet, CcipReceive(m)
      PROVE  TypeOK'
  <2>1. m.dst \in Chain
    BY <1>9 DEF CcipReceive, InFlight
  <2>2. /\ slot' \in [Lane -> [Chain -> [Position -> Body \cup {NoSnapshot}]]]
        /\ positions' \in [Chain -> Seq(Position)]
    BY <1>9, <2>1, WriteEffect DEF CcipReceive, Lane
  <2>3. delivered' \in [Lane -> SUBSET Packet]
    BY <1>9 DEF CcipReceive, Acknowledge, Lane
  <2>4. AccessTypeOK'
    BY <1>9, AccessTyped DEF CcipReceive
  <2> QED BY <1>9, <2>2, <2>3, <2>4 DEF CcipReceive, solanaVars
<1>10. CASE UNCHANGED vars
  <2>1. AccessTypeOK'
    BY <1>10, AccessTyped DEF vars
  <2> QED BY <1>10, <2>1 DEF vars, solanaVars, evmVars
<1> QED
  BY <1>1, <1>2, <1>3, <1>4, <1>5, <1>6, <1>7, <1>8, <1>9, <1>10
  DEF Next, WalletStep, Delivery

\* Every reachable state is typed, whatever the wallets, chains and clock.
THEOREM TypeCorrect == Spec => []TypeOK
<1> QED BY TypeInit, TypeStep, PTL DEF Spec

-----------------------------------------------------------------------------
(* The inductive invariant *)

\* A step either touches no packet, slot, snapshot or guard, or it is one of
\* the five steps of the pipeline.
Quiet ==
    /\ UNCHANGED <<snapshot, lastSent, sent, delivered, slot, positions>>
    /\ \A p \in Position : Wrapped(p) <=> Wrapped(p)'

LEMMA StepCases ==
    ASSUME TypeOK, [Next]_vars
    PROVE  \/ Quiet
           \/ \E a \in Wallet, p \in Position : WrapPosition(a, p)
           \/ \E a \in Wallet, p \in Position, d \in Data : RefreshWrapper(a, p, d)
           \/ \E a \in Wallet, p \in Position, c \in Chain :
                   SendPositionSnapshot(a, p, c)
           \/ \E m \in Packet : LzReceive(m) \/ CcipReceive(m)
<1>1. CASE Tick
  BY <1>1 DEF Tick, Quiet, evmVars, accessVars, Wrapped
<1>2. CASE ChangeRoles
  <2>1. UNCHANGED <<snapshot, lastSent, sent, delivered, slot, positions>>
    BY <1>2 DEF ChangeRoles, solanaVars, evmVars
  <2>2. ASSUME NEW p \in Position
        PROVE  Wrapped(p) <=> Wrapped(p)'
    <3>1. RoleChange
      BY <1>2 DEF ChangeRoles
    <3>2. CASE \E a \in Wallet, q \in Position : TakeOwnership(a, q)
      BY <3>2 DEF TakeOwnership, Wrapped, TypeOK, AccessTypeOK
    <3>3. CASE UNCHANGED owner
      BY <3>3 DEF Wrapped
    <3> QED BY <3>1, <3>2, <3>3
            DEF RoleChange, ListChange, SetSnapshotters, SetSenders, AttachOndemand, SetOndemandCallers
  <2> QED BY <2>1, <2>2 DEF Quiet
<1>3. CASE SolanaAdmin
  BY <1>3 DEF SolanaAdmin, SetPeerAddress, SetEnforcedOptions, SetCcipRoute,
              Quiet, evmVars, accessVars, Wrapped
<1>4. CASE EvmOwner
  BY <1>4 DEF EvmOwner, EvmSetPeer, EvmSetCcipRoute, Quiet, solanaVars, accessVars, Wrapped
<1>5. CASE UNCHANGED vars
  BY <1>5 DEF vars, Quiet, solanaVars, evmVars, accessVars, Wrapped
<1> QED BY <1>1, <1>2, <1>3, <1>4, <1>5 DEF Next, WalletStep, Delivery

\* The snapshot that a send takes is newer than everything sent before it.
LEMMA SendIsNewest ==
    ASSUME TypeOK, SendGuardCovers,
           NEW a \in Wallet, NEW p \in Position, NEW c \in Chain,
           SendPositionSnapshot(a, p, c)
    PROVE  /\ snapshot[p] \in Body /\ snapshot[p].position = p
           /\ \A l \in Lane : \A m \in sent[l] :
                m.body.position = p => m.body.time < snapshot[p].time
<1>1. snapshot[p] \in Body /\ snapshot[p].time > lastSent[p]
  BY DEF SendPositionSnapshot, CanSend, TypeOK
<1>2. snapshot[p].position = p
  BY <1>1 DEF SendGuardCovers
<1>3. ASSUME NEW l \in Lane, NEW m \in sent[l], m.body.position = p
      PROVE  m.body.time < snapshot[p].time
  <2>1. m \in Packet
    BY DEF TypeOK
  <2>2. m.body.time <= lastSent[p]
    BY <1>3 DEF SendGuardCovers
  <2> QED BY <1>1, <2>1, <2>2 DEF TypeOK, Packet, Body
<1> QED BY <1>1, <1>2, <1>3

\* The two packets a send hands over, lane by lane.
LEMMA SendEffect ==
    ASSUME TypeOK, NEW a \in Wallet, NEW p \in Position, NEW c \in Chain,
           SendPositionSnapshot(a, p, c)
    PROVE  \E d \in [Lane -> Destination] : \A l \in Lane :
              sent'[l] = sent[l] \cup {[dst |-> d[l], body |-> snapshot[p]]}
<1> DEFINE d == [l \in Lane |-> IF l = "lz" THEN LzDestination(c) ELSE ccipRoute]
<1>1. LzDestination(c) \in Destination /\ ccipRoute \in Destination
  BY DEF SendPositionSnapshot, LzDestination, Destination, TypeOK
<1>2. d \in [Lane -> Destination]
  BY <1>1
<1>3. \A l \in Lane : sent'[l] = sent[l] \cup {[dst |-> d[l], body |-> snapshot[p]]}
  BY DEF SendPositionSnapshot, Hand, Lane, TypeOK
<1> QED BY <1>2, <1>3

\* Both receive handlers, as one: what they need and what they change.
LEMMA ReceiveEffect ==
    ASSUME TypeOK, NEW m \in Packet, LzReceive(m) \/ CcipReceive(m)
    PROVE  \E lane \in Lane :
              /\ m \in sent[lane] /\ m \notin delivered[lane] /\ m.dst \in Chain
              /\ WriteDelivery(lane, m)
              /\ delivered' = [delivered EXCEPT ![lane] = @ \cup {m}]
              /\ UNCHANGED <<snapshot, lastSent, owner, sent>>
<1>1. CASE LzReceive(m)
  BY <1>1 DEF LzReceive, InFlight, Acknowledge, Lane, accessVars, solanaVars
<1>2. CASE CcipReceive(m)
  BY <1>2 DEF CcipReceive, InFlight, Acknowledge, Lane, accessVars, solanaVars
<1> QED BY <1>1, <1>2

LEMMA GuardStep ==
    ASSUME TypeOK, SendGuardCovers, [Next]_vars
    PROVE  SendGuardCovers'
<1>1. CASE Quiet
  BY <1>1 DEF Quiet, SendGuardCovers, TypeOK, Packet, Body
<1>2. ASSUME NEW a \in Wallet, NEW p \in Position, WrapPosition(a, p)
      PROVE  SendGuardCovers'
  <2>1. ~Wrapped(p) /\ \A q \in Position : Wrapped(q)' <=> (Wrapped(q) \/ q = p)
    BY <1>2 DEF WrapPosition, WrapAccess, Wrapped, TypeOK, AccessTypeOK
  <2>2. UNCHANGED sent
    BY <1>2 DEF WrapPosition
  <2>3. \A q \in Position : /\ snapshot'[q] = IF q = p THEN NoSnapshot ELSE snapshot[q]
                            /\ lastSent'[q] = IF q = p THEN 0 ELSE lastSent[q]
    BY <1>2 DEF WrapPosition, TypeOK
  <2>4. \A l \in Lane : \A m \in sent[l] : m.body.position \in Position
    BY DEF TypeOK, Packet, Body
  <2> QED BY <2>1, <2>2, <2>3, <2>4 DEF SendGuardCovers
<1>3. ASSUME NEW a \in Wallet, NEW p \in Position, NEW d \in Data,
             RefreshWrapper(a, p, d)
      PROVE  SendGuardCovers'
  <2>1. Wrapped(p) /\ UNCHANGED <<sent, lastSent, owner>>
    BY <1>3 DEF RefreshWrapper, accessVars
  <2>2. \A q \in Position : snapshot'[q] =
           IF q = p THEN [position |-> p, time |-> clock, data |-> d] ELSE snapshot[q]
    BY <1>3 DEF RefreshWrapper, TypeOK
  <2> QED BY <2>1, <2>2 DEF SendGuardCovers, Wrapped
<1>4. ASSUME NEW a \in Wallet, NEW p \in Position, NEW c \in Chain,
             SendPositionSnapshot(a, p, c)
      PROVE  SendGuardCovers'
  <2>1. Wrapped(p) /\ UNCHANGED <<snapshot, owner>>
    BY <1>4 DEF SendPositionSnapshot, accessVars
  <2>2. \A q \in Position :
           lastSent'[q] = IF q = p THEN snapshot[p].time ELSE lastSent[q]
    BY <1>4 DEF SendPositionSnapshot, RecordSend, TypeOK
  <2>3. PICK d \in [Lane -> Destination] : \A l \in Lane :
           sent'[l] = sent[l] \cup {[dst |-> d[l], body |-> snapshot[p]]}
    BY <1>4, SendEffect
  <2>4. /\ snapshot[p] \in Body /\ snapshot[p].position = p
        /\ \A l \in Lane : \A m \in sent[l] :
              m.body.position = p => m.body.time < snapshot[p].time
    BY <1>4, SendIsNewest
  <2>5. ASSUME NEW l \in Lane, NEW m \in sent'[l]
        PROVE  Wrapped(m.body.position)' /\ m.body.time <= lastSent'[m.body.position]
    <3>1. CASE m \in sent[l]
      <4>1. m.body \in Body /\ m.body.position \in Position
        BY <3>1 DEF TypeOK, Packet, Body
      <4>2. Wrapped(m.body.position)'
        BY <2>1, <3>1 DEF SendGuardCovers, Wrapped
      <4>3. m.body.time \in Nat /\ snapshot[p].time \in Nat
        BY <2>4, <4>1 DEF Body
      <4>4. CASE m.body.position = p
        BY <2>2, <2>4, <3>1, <4>2, <4>3, <4>4
      <4>5. CASE m.body.position # p
        BY <2>2, <3>1, <4>1, <4>2, <4>5 DEF SendGuardCovers
      <4> QED BY <4>4, <4>5
    <3>2. CASE m = [dst |-> d[l], body |-> snapshot[p]]
      BY <3>2, <2>1, <2>2, <2>4 DEF Wrapped, Body
    <3> QED BY <2>3, <3>1, <3>2
  <2>6. \A q \in Position : ~Wrapped(q)' => snapshot'[q] = NoSnapshot /\ lastSent'[q] = 0
    BY <2>1, <2>2 DEF SendGuardCovers, Wrapped
  <2>7. \A q \in Position : snapshot'[q] # NoSnapshot => snapshot'[q].position = q
    BY <2>1 DEF SendGuardCovers
  <2> QED BY <2>5, <2>6, <2>7 DEF SendGuardCovers
<1>5. ASSUME NEW m \in Packet, LzReceive(m) \/ CcipReceive(m)
      PROVE  SendGuardCovers'
  <2>1. UNCHANGED <<snapshot, lastSent, owner, sent>>
    BY <1>5, ReceiveEffect
  <2> QED BY <2>1 DEF SendGuardCovers, Wrapped
<1> QED BY <1>1, <1>2, <1>3, <1>4, <1>5, StepCases

LEMMA SentOnceStep ==
    ASSUME TypeOK, SendGuardCovers, SentOnce, [Next]_vars
    PROVE  SentOnce'
<1>1. CASE UNCHANGED sent
  BY <1>1 DEF SentOnce
<1>2. ASSUME NEW a \in Wallet, NEW p \in Position, NEW c \in Chain,
             SendPositionSnapshot(a, p, c)
      PROVE  SentOnce'
  <2>1. PICK d \in [Lane -> Destination] : \A l \in Lane :
           sent'[l] = sent[l] \cup {[dst |-> d[l], body |-> snapshot[p]]}
    BY <1>2, SendEffect
  <2>2. /\ snapshot[p] \in Body /\ snapshot[p].position = p
        /\ \A l \in Lane : \A m \in sent[l] :
              m.body.position = p => m.body.time < snapshot[p].time
    BY <1>2, SendIsNewest
  <2>3. \A l \in Lane : \A m \in sent[l] :
           m.body.position = p => m.body.time # snapshot[p].time
    BY <2>2 DEF TypeOK, Packet, Body
  <2>4. SUFFICES ASSUME NEW l1 \in Lane, NEW l2 \in Lane,
                        NEW m1 \in sent'[l1], NEW m2 \in sent'[l2],
                        m1.body.position = m2.body.position,
                        m1.body.time = m2.body.time
                 PROVE  m1.body = m2.body /\ (l1 = l2 => m1 = m2)
    BY DEF SentOnce
  <2>5. CASE m1 \in sent[l1] /\ m2 \in sent[l2]
    BY <2>4, <2>5 DEF SentOnce
  <2>6. CASE m1 \in sent[l1] /\ m2 = [dst |-> d[l2], body |-> snapshot[p]]
    BY <2>2, <2>3, <2>4, <2>6
  <2>7. CASE m1 = [dst |-> d[l1], body |-> snapshot[p]] /\ m2 \in sent[l2]
    BY <2>2, <2>3, <2>4, <2>7
  <2>8. CASE /\ m1 = [dst |-> d[l1], body |-> snapshot[p]]
             /\ m2 = [dst |-> d[l2], body |-> snapshot[p]]
    BY <2>8
  <2> QED BY <2>1, <2>5, <2>6, <2>7, <2>8
<1>3. UNCHANGED sent \/ \E a \in Wallet, p \in Position, c \in Chain :
                             SendPositionSnapshot(a, p, c)
  BY StepCases, ReceiveEffect DEF Quiet, WrapPosition, RefreshWrapper
<1> QED BY <1>1, <1>2, <1>3

LEMMA DeliveredStep ==
    ASSUME TypeOK, DeliveredWasSent, [Next]_vars
    PROVE  DeliveredWasSent'
<1>1. CASE UNCHANGED delivered /\ \A l \in Lane : sent[l] \subseteq sent'[l]
  BY <1>1 DEF DeliveredWasSent
<1>2. ASSUME NEW m \in Packet, LzReceive(m) \/ CcipReceive(m)
      PROVE  DeliveredWasSent'
  <2>1. PICK lane \in Lane : /\ m \in sent[lane]
                             /\ delivered' = [delivered EXCEPT ![lane] = @ \cup {m}]
                             /\ UNCHANGED sent
    BY <1>2, ReceiveEffect
  <2> QED BY <2>1 DEF DeliveredWasSent, TypeOK
<1>3. ASSUME NEW a \in Wallet, NEW p \in Position, NEW c \in Chain,
             SendPositionSnapshot(a, p, c)
      PROVE  UNCHANGED delivered /\ \A l \in Lane : sent[l] \subseteq sent'[l]
  BY <1>3, SendEffect DEF SendPositionSnapshot
<1> QED BY <1>1, <1>2, <1>3, StepCases DEF Quiet, WrapPosition, RefreshWrapper

\* _writeDelivery never replaces a copy by an older one.
LEMMA WrittenIsNoOlder ==
    ASSUME TypeOK, NEW lane \in Lane, NEW m \in Packet, m.dst \in Chain,
           Written(lane, m), slot[lane][m.dst][m.body.position] # NoSnapshot
    PROVE  slot[lane][m.dst][m.body.position].time <= m.body.time
BY DEF Written, IsStale, TypeOK, Packet, Body

LEMMA SlotStep ==
    ASSUME TypeOK, SlotIsNewestDelivered, [Next]_vars
    PROVE  SlotIsNewestDelivered'
<1>1. CASE UNCHANGED <<delivered, slot>>
  <2>1. \A l \in Lane, c \in Chain, p \in Position : BodiesAt(l, c, p)' = BodiesAt(l, c, p)
    BY <1>1 DEF BodiesAt
  <2> QED BY <1>1, <2>1 DEF SlotIsNewestDelivered
<1>2. ASSUME NEW m \in Packet, LzReceive(m) \/ CcipReceive(m)
      PROVE  SlotIsNewestDelivered'
  <2>1. PICK lane \in Lane :
              /\ m.dst \in Chain
              /\ WriteDelivery(lane, m)
              /\ delivered' = [delivered EXCEPT ![lane] = @ \cup {m}]
    BY <1>2, ReceiveEffect
  <2>2. \A l \in Lane, c \in Chain, p \in Position :
           slot'[l][c][p] =
             IF l = lane /\ c = m.dst /\ p = m.body.position /\ Written(lane, m)
             THEN m.body ELSE slot[l][c][p]
    BY <2>1, WriteEffect
  <2>3. \A l \in Lane, c \in Chain, p \in Position :
           BodiesAt(l, c, p)' =
             IF l = lane /\ c = m.dst /\ p = m.body.position
             THEN BodiesAt(l, c, p) \cup {m.body} ELSE BodiesAt(l, c, p)
    BY <2>1 DEF BodiesAt, TypeOK
  <2>4. SUFFICES ASSUME NEW l \in Lane, NEW c \in Chain, NEW p \in Position
                 PROVE  IF BodiesAt(l, c, p)' = {}
                        THEN slot'[l][c][p] = NoSnapshot
                        ELSE /\ slot'[l][c][p] \in BodiesAt(l, c, p)'
                             /\ \A b \in BodiesAt(l, c, p)' : b.time <= slot'[l][c][p].time
    BY DEF SlotIsNewestDelivered
  <2> DEFINE old == slot[l][c][p]
             B == BodiesAt(l, c, p)
  <2>5. IF B = {} THEN old = NoSnapshot
        ELSE old \in B /\ \A b \in B : b.time <= old.time
    BY DEF SlotIsNewestDelivered
  <2>6. B \subseteq Body /\ m.body \in Body
    BY DEF BodiesAt, TypeOK, Packet
  <2>7. \A b \in Body : b.time \in Nat /\ b # NoSnapshot
    BY DEF Body
  <2>8. CASE ~(l = lane /\ c = m.dst /\ p = m.body.position)
    BY <2>2, <2>3, <2>5, <2>8
  <2>9. CASE l = lane /\ c = m.dst /\ p = m.body.position
    <3>1. BodiesAt(l, c, p)' = B \cup {m.body}
      BY <2>3, <2>9
    <3>2. CASE Written(lane, m)
      <4>1. slot'[l][c][p] = m.body
        BY <2>2, <2>9, <3>2
      <4>2. old # NoSnapshot => old.time <= m.body.time
        BY <2>1, <2>9, <3>2, WrittenIsNoOlder
      <4>3. \A b \in B : b.time <= m.body.time
        BY <2>5, <2>6, <2>7, <4>2
      <4> QED BY <2>6, <2>7, <3>1, <4>1, <4>3
    <3>3. CASE ~Written(lane, m)
      <4>1. slot'[l][c][p] = old
        BY <2>2, <2>9, <3>3
      <4>2. old # NoSnapshot /\ m.body.time < old.time
        BY <2>9, <3>3 DEF Written, IsStale
      <4>3. old \in B /\ \A b \in B : b.time <= old.time
        BY <2>5, <4>2
      <4> QED BY <2>6, <2>7, <3>1, <4>1, <4>2, <4>3
    <3> QED BY <3>2, <3>3
  <2> QED BY <2>8, <2>9
<1>3. Quiet => UNCHANGED <<delivered, slot>>
  BY DEF Quiet
<1>4. ASSUME NEW a \in Wallet, NEW p \in Position,
             \/ WrapPosition(a, p)
             \/ \E d \in Data : RefreshWrapper(a, p, d)
             \/ \E c \in Chain : SendPositionSnapshot(a, p, c)
      PROVE  UNCHANGED <<delivered, slot>>
  BY <1>4 DEF WrapPosition, RefreshWrapper, SendPositionSnapshot, evmVars
<1> QED BY <1>1, <1>2, <1>3, <1>4, StepCases

LEMMA PipelineInit == Init => PipelineInv
<1> SUFFICES ASSUME Init PROVE PipelineInv
  OBVIOUS
<1>1. TypeOK
  BY TypeInit
<1>2. SendGuardCovers /\ SentOnce /\ DeliveredWasSent
  BY DEF Init, SendGuardCovers, SentOnce, DeliveredWasSent
<1>3. SlotIsNewestDelivered
  BY DEF Init, SlotIsNewestDelivered, BodiesAt
<1> QED BY <1>1, <1>2, <1>3 DEF PipelineInv

LEMMA PipelineStep == PipelineInv /\ [Next]_vars => PipelineInv'
BY TypeStep, GuardStep, SentOnceStep, DeliveredStep, SlotStep DEF PipelineInv

\* The inductive invariant holds in every reachable state.
THEOREM PipelineSafe == Spec => []PipelineInv
BY PipelineInit, PipelineStep, PTL DEF Spec

\* The guard covers what went out: wrap_position's reset to 0 never uncovers it.
THEOREM GuardCovers == Spec => []SendGuardCovers
<1>1. PipelineInv => SendGuardCovers
  BY DEF PipelineInv
<1> QED BY <1>1, PipelineSafe, PTL

\* No snapshot is ever sent twice, and no two snapshots of a position share a
\* time, whoever calls and however the lists, owners and routes change.
THEOREM SentOnceHolds == Spec => []SentOnce
<1>1. PipelineInv => SentOnce
  BY DEF PipelineInv
<1> QED BY <1>1, PipelineSafe, PTL

\* Newest wins: every slot of every chain holds the newest body its lane has
\* delivered, in whatever order the lanes delivered.
THEOREM NewestWins == Spec => []SlotIsNewestDelivered
<1>1. PipelineInv => SlotIsNewestDelivered
  BY DEF PipelineInv
<1> QED BY <1>1, PipelineSafe, PTL

-----------------------------------------------------------------------------
(* Action properties *)

\* The copy a slot holds was sent on that lane.
LEMMA SlotWasSent ==
    ASSUME PipelineInv, NEW l \in Lane, NEW c \in Chain, NEW p \in Position,
           slot[l][c][p] # NoSnapshot
    PROVE  /\ \E m \in sent[l] : m.body = slot[l][c][p]
           /\ slot[l][c][p] \in Body /\ slot[l][c][p].position = p
<1>1. slot[l][c][p] \in BodiesAt(l, c, p)
  BY DEF PipelineInv, SlotIsNewestDelivered
<1>2. PICK m \in delivered[l] : m.body.position = p /\ m.body = slot[l][c][p]
  BY <1>1 DEF BodiesAt
<1>3. m \in sent[l] /\ m \in Packet
  BY DEF PipelineInv, DeliveredWasSent, TypeOK
<1> QED BY <1>2, <1>3 DEF Packet

\* A delivery that changes a slot brings something strictly newer: an equal
\* time is the same snapshot, because it was sent once.
LEMMA ChangeIsNewer ==
    ASSUME PipelineInv, [Next]_vars,
           NEW l \in Lane, NEW c \in Chain, NEW p \in Position,
           slot'[l][c][p] # slot[l][c][p]
    PROVE  /\ slot'[l][c][p] \in Body
           /\ slot'[l][c][p].position = p
           /\ \E m \in sent[l] : m.body = slot'[l][c][p]
           /\ slot[l][c][p] # NoSnapshot => slot[l][c][p].time < slot'[l][c][p].time
<1> USE DEF PipelineInv
<1>1. PICK m \in Packet : LzReceive(m) \/ CcipReceive(m)
  <2>1. Quiet => UNCHANGED slot
    BY DEF Quiet
  <2>2. ASSUME NEW a \in Wallet, NEW q \in Position,
               \/ WrapPosition(a, q)
               \/ \E d \in Data : RefreshWrapper(a, q, d)
               \/ \E e \in Chain : SendPositionSnapshot(a, q, e)
        PROVE  UNCHANGED slot
    BY <2>2 DEF WrapPosition, RefreshWrapper, SendPositionSnapshot, evmVars
  <2> QED BY <2>1, <2>2, StepCases
<1>2. PICK lane \in Lane : m \in sent[lane] /\ m.dst \in Chain /\ WriteDelivery(lane, m)
  BY <1>1, ReceiveEffect
<1>3. slot'[l][c][p] =
        IF l = lane /\ c = m.dst /\ p = m.body.position /\ Written(lane, m)
        THEN m.body ELSE slot[l][c][p]
  BY <1>2, WriteEffect
<1>4. /\ l = lane /\ c = m.dst /\ p = m.body.position /\ Written(lane, m)
      /\ slot'[l][c][p] = m.body
  BY <1>3
<1>5. m.body \in Body
  BY DEF Packet
<1>6. ASSUME slot[l][c][p] # NoSnapshot
      PROVE  slot[l][c][p].time < m.body.time
  <2>1. slot[l][c][p].time <= m.body.time
    BY <1>2, <1>4, <1>6, WrittenIsNoOlder
  <2>2. PICK x \in sent[l] : x.body = slot[l][c][p]
    BY <1>6, SlotWasSent
  <2>3. slot[l][c][p] \in Body /\ slot[l][c][p].position = p
    BY <1>6, SlotWasSent
  <2>4. slot[l][c][p].time # m.body.time
    BY <1>2, <1>4, <2>2, <2>3 DEF SentOnce
  <2> QED BY <1>5, <2>1, <2>3, <2>4 DEF Body
<1> QED BY <1>2, <1>4, <1>5, <1>6

\* First-seen order: an append keeps what was listed.
LEMMA ListKeepsPrefix ==
    ASSUME TypeOK, [Next]_vars, NEW c \in Chain
    PROVE  SubSeq(positions'[c], 1, Len(positions[c])) = positions[c]
<1>1. positions[c] \in Seq(Position)
  BY DEF TypeOK
<1>2. SubSeq(positions[c], 1, Len(positions[c])) = positions[c]
  BY <1>1
<1>3. CASE UNCHANGED positions
  BY <1>2, <1>3
<1>4. ASSUME NEW m \in Packet, LzReceive(m) \/ CcipReceive(m)
      PROVE  positions'[c] = positions[c]
             \/ \E p \in Position : positions'[c] = Append(positions[c], p)
  <2>1. PICK lane \in Lane : m.dst \in Chain /\ WriteDelivery(lane, m)
    BY <1>4, ReceiveEffect
  <2>2. m.body.position \in Position
    BY DEF Packet, Body
  <2>3. positions' = positions \/ positions' = List(m.dst, m.body.position)
    BY <2>1 DEF WriteDelivery
  <2>4. CASE positions' = [positions EXCEPT ![m.dst] = Append(@, m.body.position)]
    BY <2>2, <2>4 DEF TypeOK
  <2> QED BY <2>3, <2>4 DEF List
<1>5. ASSUME NEW p \in Position
      PROVE  SubSeq(Append(positions[c], p), 1, Len(positions[c])) = positions[c]
  BY <1>1
<1>6. Quiet => UNCHANGED positions
  BY DEF Quiet
<1>7. ASSUME NEW a \in Wallet, NEW q \in Position,
             \/ WrapPosition(a, q)
             \/ \E d \in Data : RefreshWrapper(a, q, d)
             \/ \E e \in Chain : SendPositionSnapshot(a, q, e)
      PROVE  UNCHANGED positions
  BY <1>7 DEF WrapPosition, RefreshWrapper, SendPositionSnapshot, evmVars
<1> QED BY <1>2, <1>3, <1>4, <1>5, <1>6, <1>7, StepCases

LEMMA StepNeverGoesBack ==
    PipelineInv /\ [Next]_vars =>
        \A c \in Chain :
          /\ \A l \in Lane, p \in Position :
                slot[l][c][p] # NoSnapshot =>
                   /\ slot'[l][c][p] # NoSnapshot
                   /\ slot'[l][c][p].time >= slot[l][c][p].time
          /\ SubSeq(positions'[c], 1, Len(positions[c])) = positions[c]
<1>1. ASSUME PipelineInv, [Next]_vars,
             NEW c \in Chain, NEW l \in Lane, NEW p \in Position,
             slot[l][c][p] # NoSnapshot
      PROVE  slot'[l][c][p] # NoSnapshot /\ slot'[l][c][p].time >= slot[l][c][p].time
  <2>1. CASE slot'[l][c][p] = slot[l][c][p]
    BY <1>1, <2>1, SlotWasSent DEF Body
  <2>2. CASE slot'[l][c][p] # slot[l][c][p]
    BY <1>1, <2>2, ChangeIsNewer, SlotWasSent DEF Body
  <2> QED BY <2>1, <2>2
<1>2. PipelineInv => TypeOK
  BY DEF PipelineInv
<1> QED BY <1>1, <1>2, ListKeepsPrefix

\* No delivery, retry or reordering takes a reader back in time or drops a
\* listed position.
THEOREM NeverGoesBack == Spec => MirrorNeverGoesBack
BY StepNeverGoesBack, PipelineSafe, PTL DEF Spec, MirrorNeverGoesBack

LEMMA StepUnmatchesByNewer ==
    PipelineInv /\ [Next]_vars =>
        \A c \in Chain, p \in Position :
          Matched(c, p) /\ ~Matched(c, p)' =>
             \E l \in Lane : slot'[l][c][p].time > slot[l][c][p].time
<1>1. ASSUME PipelineInv, [Next]_vars, NEW c \in Chain, NEW p \in Position,
             Matched(c, p), ~Matched(c, p)'
      PROVE  \E l \in Lane : slot'[l][c][p].time > slot[l][c][p].time
  <2>1. PICK l \in Lane : slot'[l][c][p] # slot[l][c][p]
    BY <1>1 DEF Matched, Lane
  <2>2. slot[l][c][p] # NoSnapshot
    BY <1>1 DEF Matched, Lane
  <2>3. slot[l][c][p].time < slot'[l][c][p].time /\ slot'[l][c][p] \in Body
    BY <1>1, <2>1, <2>2, ChangeIsNewer
  <2>4. slot[l][c][p] \in Body
    BY <1>1, <2>2, SlotWasSent
  <2> QED BY <2>3, <2>4 DEF Body
<1> QED BY <1>1

\* A stale or repeated delivery never ends a match.
THEOREM MatchIsStable == Spec => UnmatchOnlyByNewer
BY StepUnmatchesByNewer, PipelineSafe, PTL DEF Spec, UnmatchOnlyByNewer

-----------------------------------------------------------------------------
(* Refinement *)

LEMMA RegisterInitial == Init => Register!RegisterInit
<1> SUFFICES ASSUME Init PROVE Register!RegisterInit
  OBVIOUS
<1>1. PublishedBodies = {}
  BY DEF Init, PublishedBodies, Lane
<1>2. ShownBodies = [v \in Lane \X Chain |-> [p \in Position |-> NoSnapshot]]
  BY DEF Init, ShownBodies
<1> QED BY <1>1, <1>2 DEF Register!RegisterInit

LEMMA PublishedIsSent ==
    ASSUME NEW b
    PROVE  b \in PublishedBodies <=> \E l \in Lane : \E m \in sent[l] : m.body = b
BY DEF PublishedBodies, Lane

\* A send publishes a body newer than everything published for its position.
LEMMA SendPublishes ==
    ASSUME PipelineInv, NEW a \in Wallet, NEW p \in Position, NEW c \in Chain,
           SendPositionSnapshot(a, p, c)
    PROVE  Register!Publish(snapshot[p])
<1> USE DEF PipelineInv
<1>1. PICK d \in [Lane -> Destination] : \A l \in Lane :
         sent'[l] = sent[l] \cup {[dst |-> d[l], body |-> snapshot[p]]}
  BY SendEffect
<1>2. /\ snapshot[p] \in Body /\ snapshot[p].position = p
      /\ \A l \in Lane : \A m \in sent[l] :
            m.body.position = p => m.body.time < snapshot[p].time
  BY SendIsNewest
<1>3. \A x \in PublishedBodies :
         x.position = snapshot[p].position => x.time < snapshot[p].time
  BY <1>2, PublishedIsSent
<1>4. PublishedBodies' = PublishedBodies \cup {snapshot[p]}
  <2>1. PICK x, y : /\ sent'["lz"] = sent["lz"] \cup {x} /\ x.body = snapshot[p]
                    /\ sent'["ccip"] = sent["ccip"] \cup {y} /\ y.body = snapshot[p]
    <3>1. \A l \in Lane : [dst |-> d[l], body |-> snapshot[p]].body = snapshot[p]
      OBVIOUS
    <3> QED BY <1>1, <3>1 DEF Lane
  <2>2. PublishedBodies' = {m.body : m \in (sent["lz"] \cup {x}) \cup (sent["ccip"] \cup {y})}
    BY <2>1 DEF PublishedBodies
  <2>3. PublishedBodies = {m.body : m \in sent["lz"] \cup sent["ccip"]}
    BY DEF PublishedBodies
  <2> QED BY <2>1, <2>2, <2>3
<1>5. ShownBodies' = ShownBodies
  BY DEF SendPositionSnapshot, evmVars, ShownBodies
<1> QED BY <1>3, <1>4, <1>5 DEF Register!Publish

\* A delivery shows a newer published body, or nothing a reader can see.
LEMMA ReceiveShows ==
    ASSUME PipelineInv, NEW m \in Packet, LzReceive(m) \/ CcipReceive(m)
    PROVE  \/ \E v \in Lane \X Chain : Register!Show(v, m.body)
           \/ UNCHANGED <<PublishedBodies, ShownBodies>>
<1> USE DEF PipelineInv
<1>0. [Next]_vars
  BY DEF Next, Delivery
<1>1. PICK lane \in Lane : /\ m \in sent[lane] /\ m.dst \in Chain
                           /\ WriteDelivery(lane, m) /\ UNCHANGED sent
  BY ReceiveEffect
<1> DEFINE c == m.dst
           p == m.body.position
           v == <<lane, c>>
<1>2. m.body \in Body /\ p \in Position /\ c \in Chain /\ v \in Lane \X Chain
  BY <1>1 DEF Packet, Body
<1>3. PublishedBodies' = PublishedBodies /\ m.body \in PublishedBodies
  BY <1>1, PublishedIsSent DEF PublishedBodies
<1>4. \A l \in Lane, d \in Chain, q \in Position :
         slot'[l][d][q] = IF l = lane /\ d = c /\ q = p /\ Written(lane, m)
                          THEN m.body ELSE slot[l][d][q]
  BY <1>1, WriteEffect
<1>5. \A l \in Lane, d \in Chain, q \in Position :
         /\ ShownBodies[<<l, d>>][q] = slot[l][d][q]
         /\ ShownBodies'[<<l, d>>][q] = slot'[l][d][q]
  BY DEF ShownBodies
<1>6. CASE slot'[lane][c][p] = slot[lane][c][p]
  <2>1. \A l \in Lane, d \in Chain, q \in Position : slot'[l][d][q] = slot[l][d][q]
    BY <1>2, <1>4, <1>6
  <2>2. ShownBodies' = ShownBodies
    BY <2>1 DEF ShownBodies
  <2> QED BY <1>3, <2>2
<1>7. CASE slot'[lane][c][p] # slot[lane][c][p]
  <2>1. slot'[lane][c][p] = m.body
    BY <1>2, <1>4, <1>7
  <2>2. slot[lane][c][p] # NoSnapshot => slot[lane][c][p].time < m.body.time
    BY <1>0, <1>2, <1>7, <2>1, ChangeIsNewer
  <2>3. \/ ShownBodies[v][m.body.position] = NoSnapshot
        \/ ShownBodies[v][m.body.position].time < m.body.time
    BY <1>2, <1>5, <2>2
  <2>4. ShownBodies' = [ShownBodies EXCEPT ![v][m.body.position] = m.body]
    <3> DEFINE after == [w \in Lane \X Chain |-> [q \in Position |->
                          IF w = v /\ q = p THEN m.body ELSE slot[w[1]][w[2]][q]]]
    <3>1. ShownBodies' = [w \in Lane \X Chain |-> [q \in Position |-> slot'[w[1]][w[2]][q]]]
      BY DEF ShownBodies
    <3>2. ASSUME NEW w \in Lane \X Chain, NEW q \in Position
          PROVE  slot'[w[1]][w[2]][q] =
                   IF w = v /\ q = p THEN m.body ELSE slot[w[1]][w[2]][q]
      <4>1. w[1] \in Lane /\ w[2] \in Chain /\ w = <<w[1], w[2]>>
        OBVIOUS
      <4>2. w = v <=> w[1] = lane /\ w[2] = c
        BY <4>1
      <4>3. Written(lane, m)
        BY <1>2, <1>4, <1>7
      <4> QED BY <1>4, <4>1, <4>2, <4>3
    <3>3. ShownBodies' = after
      <4>1. \A w \in Lane \X Chain :
               [q \in Position |-> slot'[w[1]][w[2]][q]]
                 = [q \in Position |->
                      IF w = v /\ q = p THEN m.body ELSE slot[w[1]][w[2]][q]]
        BY <3>2
      <4> HIDE DEF v, p, c
      <4> QED BY <3>1, <4>1
    <3>4. [ShownBodies EXCEPT ![v] = [ShownBodies[v] EXCEPT ![p] = m.body]] = after
      <4>1. \A w \in Lane \X Chain :
               ShownBodies[w] = [q \in Position |-> slot[w[1]][w[2]][q]]
        BY DEF ShownBodies
      <4>2. ShownBodies = [w \in Lane \X Chain |-> ShownBodies[w]]
        BY DEF ShownBodies
      <4>3. [ShownBodies[v] EXCEPT ![p] = m.body] =
               [q \in Position |-> IF q = p THEN m.body ELSE slot[v[1]][v[2]][q]]
        <5>1. ShownBodies[v] = [q \in Position |-> slot[v[1]][v[2]][q]]
          BY <1>2, <4>1
        <5> HIDE DEF v, p
        <5> QED BY <5>1
      <4>4. ASSUME NEW w \in Lane \X Chain
            PROVE  (IF w = v THEN [ShownBodies[v] EXCEPT ![p] = m.body] ELSE ShownBodies[w])
                     = after[w]
        <5>1. CASE w = v
          BY <4>3, <5>1
        <5>2. CASE w # v
          <6>1. after[w] = [q \in Position |-> slot[w[1]][w[2]][q]]
            BY <5>2
          <6> QED BY <4>1, <5>2, <6>1
        <5> QED BY <5>1, <5>2
      <4>5. [ShownBodies EXCEPT ![v] = [ShownBodies[v] EXCEPT ![p] = m.body]] =
              [w \in Lane \X Chain |->
                 IF w = v THEN [ShownBodies[v] EXCEPT ![p] = m.body] ELSE ShownBodies[w]]
        <5> HIDE DEF v, p, c
        <5> QED BY <4>2
      <4> QED BY <4>4, <4>5
    <3> QED BY <3>3, <3>4
  <2>5. Register!Show(v, m.body)
    BY <1>3, <2>3, <2>4 DEF Register!Show
  <2> QED BY <1>2, <2>5
<1> QED BY <1>6, <1>7

LEMMA RegisterStep ==
    PipelineInv /\ [Next]_vars
      => [Register!RegisterNext]_(Register!registerVars)
<1> SUFFICES ASSUME PipelineInv, [Next]_vars
             PROVE  Register!RegisterNext \/ UNCHANGED Register!registerVars
  OBVIOUS
<1>1. CASE UNCHANGED <<sent, slot>>
  BY <1>1 DEF PublishedBodies, ShownBodies, Register!registerVars
<1>2. ASSUME NEW a \in Wallet, NEW p \in Position, NEW c \in Chain,
             SendPositionSnapshot(a, p, c)
      PROVE  Register!RegisterNext
  <2>1. snapshot[p] \in Body
    BY <1>2, SendIsNewest DEF PipelineInv
  <2> QED BY <1>2, <2>1, SendPublishes DEF Register!RegisterNext
<1>3. ASSUME NEW m \in Packet, LzReceive(m) \/ CcipReceive(m)
      PROVE  Register!RegisterNext \/ UNCHANGED Register!registerVars
  <2>1. m.body \in Body
    BY DEF Packet
  <2> QED BY <1>3, <2>1, ReceiveShows DEF Register!RegisterNext, Register!registerVars
<1>4. ASSUME NEW a \in Wallet, NEW q \in Position,
             WrapPosition(a, q) \/ \E d \in Data : RefreshWrapper(a, q, d)
      PROVE  UNCHANGED <<sent, slot>>
  BY <1>4 DEF WrapPosition, RefreshWrapper, evmVars
<1>5. Quiet => UNCHANGED <<sent, slot>>
  BY DEF Quiet
<1>6. TypeOK
  BY DEF PipelineInv
<1> QED BY <1>1, <1>2, <1>3, <1>4, <1>5, <1>6, StepCases

\* The whole pipeline, with its roles, routes, clock and two unordered lanes,
\* implements the register in which readers only ever see newer snapshots.
THEOREM PipelineImplementsRegister == Spec => ImplementsRegister
BY RegisterInitial, RegisterStep, PipelineSafe, PTL
DEF Spec, ImplementsRegister, Register!RegisterSpec

-----------------------------------------------------------------------------
(* The books: send_count counts the packets that left, lastPosition_ follows  *)
(* the LayerZero slots, positions[] lists what was delivered, and two lanes   *)
(* that delivered the same packets agree.  BooksInv adds them to PipelineInv. *)

\* Every set of packets sent so far is finite: send_count can count it.
SentFinite == \A l \in Lane : IsFiniteSet(sent[l])

BooksInv ==
    /\ SentFinite
    /\ SendCountExact
    /\ LastPositionAgrees
    /\ PositionsListedOnce

-----------------------------------------------------------------------------
(* Settled lanes agree: a consequence of PipelineInv alone *)

\* Two lanes that delivered one and the same set of snapshots hold the same
\* newest one, because no two snapshots of a position share a time.
LEMMA SettledAgree == PipelineInv => SettledMeansMatched
<1> SUFFICES ASSUME PipelineInv, NEW c \in Chain, NEW p \in Position,
                    SentTo("lz", c, p) # {},
                    SentTo("lz", c, p) = SentTo("ccip", c, p),
                    \A l \in Lane : BodiesAt(l, c, p) = SentTo(l, c, p)
             PROVE  Matched(c, p)
  BY DEF SettledMeansMatched
<1> USE DEF PipelineInv
<1>1. /\ BodiesAt("lz", c, p) # {}
      /\ BodiesAt("lz", c, p) = BodiesAt("ccip", c, p)
  BY DEF Lane
<1> DEFINE x == slot["lz"][c][p]
           y == slot["ccip"][c][p]
<1>2. /\ x \in BodiesAt("lz", c, p) /\ y \in BodiesAt("lz", c, p)
      /\ x.time <= y.time /\ y.time <= x.time
  BY <1>1 DEF SlotIsNewestDelivered, Lane
<1>3. \A b \in BodiesAt("lz", c, p) :
         b \in Body /\ b.position = p /\ \E m \in sent["lz"] : m.body = b
  BY DEF BodiesAt, DeliveredWasSent, TypeOK, Lane, Packet
<1>4. x \in Body /\ y \in Body /\ x.position = y.position
  BY <1>2, <1>3
<1>5. x.time = y.time
  BY <1>2, <1>4 DEF Body
<1>6. x = y
  <2>1. PICK m1 \in sent["lz"] : m1.body = x
    BY <1>2, <1>3
  <2>2. PICK m2 \in sent["lz"] : m2.body = y
    BY <1>2, <1>3
  <2> QED BY <1>4, <1>5, <2>1, <2>2 DEF SentOnce, Lane
<1> QED BY <1>4, <1>6 DEF Matched

\* Once both lanes have delivered all that was sent to a chain for a position,
\* and both were given the same snapshots, the chain reports a match.
THEOREM SettledLanesMatch == Spec => []SettledMeansMatched
BY SettledAgree, PipelineSafe, PTL

-----------------------------------------------------------------------------
(* send_count *)

PacketsOf(l, p) == {m \in sent[l] : m.body.position = p}

LEMMA CountStep ==
    ASSUME TypeOK, SendGuardCovers, SentFinite, SendCountExact, [Next]_vars
    PROVE  SentFinite' /\ SendCountExact'
<1>1. SendCountExact <=> \A l \in Lane, p \in Position :
                            sendCount[p] = Cardinality(PacketsOf(l, p))
  BY DEF SendCountExact, PacketsOf
<1>2. SendCountExact' <=> \A l \in Lane, p \in Position :
                             sendCount'[p] = Cardinality(PacketsOf(l, p)')
  BY DEF SendCountExact, PacketsOf
<1>3. \A l \in Lane, p \in Position : IsFiniteSet(PacketsOf(l, p))
  BY FS_Subset DEF SentFinite, PacketsOf
<1>4. CASE UNCHANGED <<sent, sendCount>>
  BY <1>4 DEF SentFinite, SendCountExact
<1>5. ASSUME NEW a \in Wallet, NEW p \in Position, WrapPosition(a, p)
      PROVE  SentFinite' /\ SendCountExact'
  <2>1. UNCHANGED sent /\ ~Wrapped(p)
    BY <1>5 DEF WrapPosition, WrapAccess, Wrapped
  <2>2. \A q \in Position : sendCount'[q] = IF q = p THEN 0 ELSE sendCount[q]
    BY <1>5 DEF WrapPosition, TypeOK
  <2>3. \A l \in Lane : PacketsOf(l, p) = {}
    BY <2>1 DEF SendGuardCovers, PacketsOf
  <2>4. \A l \in Lane, q \in Position : PacketsOf(l, q)' = PacketsOf(l, q)
    BY <2>1 DEF PacketsOf
  <2>5. \A l \in Lane : Cardinality(PacketsOf(l, p)) = 0
    BY <2>3, FS_EmptySet
  <2>6. \A l \in Lane, q \in Position : sendCount'[q] = Cardinality(PacketsOf(l, q)')
    BY <1>1, <2>2, <2>4, <2>5
  <2> QED BY <1>2, <2>1, <2>6 DEF SentFinite
<1>6. ASSUME NEW a \in Wallet, NEW p \in Position, NEW c \in Chain,
             SendPositionSnapshot(a, p, c)
      PROVE  SentFinite' /\ SendCountExact'
  <2>1. PICK d \in [Lane -> Destination] : \A l \in Lane :
           sent'[l] = sent[l] \cup {[dst |-> d[l], body |-> snapshot[p]]}
    BY <1>6, SendEffect
  <2>2. /\ snapshot[p] \in Body /\ snapshot[p].position = p
        /\ \A l \in Lane : \A m \in sent[l] :
              m.body.position = p => m.body.time < snapshot[p].time
    BY <1>6, SendIsNewest
  <2>3. SentFinite'
    <3>1. ASSUME NEW l \in Lane PROVE IsFiniteSet(sent'[l])
      <4> DEFINE new == [dst |-> d[l], body |-> snapshot[p]]
      <4>1. sent'[l] = sent[l] \cup {new}
        BY <2>1
      <4> HIDE DEF new
      <4>2. IsFiniteSet(sent[l] \cup {new})
        BY FS_AddElement DEF SentFinite
      <4> QED BY <4>1, <4>2
    <3> QED BY <3>1 DEF SentFinite
  <2>4. \A q \in Position :
           sendCount'[q] = IF q = p THEN sendCount[q] + 1 ELSE sendCount[q]
    BY <1>6 DEF SendPositionSnapshot, RecordSend, TypeOK
  <2>5. ASSUME NEW l \in Lane, NEW q \in Position
        PROVE  sendCount'[q] = Cardinality(PacketsOf(l, q)')
    <3> DEFINE new == [dst |-> d[l], body |-> snapshot[p]]
    <3>1. new.body = snapshot[p]
      OBVIOUS
    <3>2. PacketsOf(l, q)' =
             IF q = p THEN PacketsOf(l, q) \cup {new} ELSE PacketsOf(l, q)
      <4>1. sent'[l] = sent[l] \cup {new}
        BY <2>1
      <4>2. new.body.position = p
        BY <2>2, <3>1
      <4> HIDE DEF new
      <4> QED BY <4>1, <4>2 DEF PacketsOf
    <3>3. new \notin PacketsOf(l, p)
      <4>1. snapshot[p].time \in Nat
        BY <2>2 DEF Body
      <4>2. ASSUME new \in PacketsOf(l, p) PROVE FALSE
        <5>1. snapshot[p].time < snapshot[p].time
          BY <2>2, <3>1, <4>2 DEF PacketsOf
        <5> QED BY <4>1, <5>1
      <4> QED BY <4>2
    <3>4. IsFiniteSet(PacketsOf(l, q)) /\ sendCount[q] = Cardinality(PacketsOf(l, q))
      BY <1>1, <1>3
    <3> HIDE DEF new
    <3>5. q = p => Cardinality(PacketsOf(l, q) \cup {new}) = sendCount[q] + 1
      BY <3>3, <3>4, FS_AddElement
    <3> QED BY <2>4, <3>2, <3>4, <3>5
  <2> QED BY <1>2, <2>3, <2>5
<1>7. ASSUME NEW a \in Wallet, NEW p \in Position, NEW e \in Data,
             RefreshWrapper(a, p, e)
      PROVE  UNCHANGED <<sent, sendCount>>
  BY <1>7 DEF RefreshWrapper
<1>8. ASSUME NEW m \in Packet, LzReceive(m) \/ CcipReceive(m)
      PROVE  UNCHANGED <<sent, sendCount>>
  BY <1>8 DEF LzReceive, CcipReceive, solanaVars
<1>9. Tick \/ ChangeRoles \/ SolanaAdmin \/ EvmOwner \/ UNCHANGED vars
        => UNCHANGED <<sent, sendCount>>
  BY DEF Tick, ChangeRoles, SolanaAdmin, SetPeerAddress, SetEnforcedOptions,
         SetCcipRoute, EvmOwner, EvmSetPeer, EvmSetCcipRoute, solanaVars, vars
<1> QED BY <1>4, <1>5, <1>6, <1>7, <1>8, <1>9 DEF Next, WalletStep, Delivery

-----------------------------------------------------------------------------
(* lastPosition_ *)

LEMMA LastStep ==
    ASSUME TypeOK, LastPositionAgrees, [Next]_vars
    PROVE  LastPositionAgrees'
<1>1. CASE UNCHANGED <<slot, lastPosition>>
  BY <1>1 DEF LastPositionAgrees
<1>2. ASSUME NEW m \in Packet, LzReceive(m)
      PROVE  LastPositionAgrees'
  <2> DEFINE dst == m.dst
             pos == m.body.position
  <2>1. m.body \in Body /\ pos \in Position /\ dst \in Chain /\ "lz" \in Lane
    BY <1>2 DEF Packet, Body, Lane, LzReceive, InFlight
  <2>2. \A c \in Chain, p \in Position :
           slot'["lz"][c][p] = IF c = dst /\ p = pos /\ Written("lz", m)
                               THEN m.body ELSE slot["lz"][c][p]
    BY <1>2, <2>1, WriteEffect DEF LzReceive
  <2>3. \A c \in Chain :
           lastPosition'[c] = IF c = dst /\ Written("lz", m)
                              THEN m.body ELSE lastPosition[c]
    BY <1>2, <2>1 DEF LzReceive, NewLastPosition, TypeOK
  <2>4. ASSUME NEW c \in Chain
        PROVE  IF \E p \in Position : slot'["lz"][c][p] # NoSnapshot
               THEN /\ lastPosition'[c] # NoSnapshot
                    /\ lastPosition'[c] = slot'["lz"][c][lastPosition'[c].position]
               ELSE lastPosition'[c] = NoSnapshot
    <3>1. CASE c = dst /\ Written("lz", m)
      <4>1. slot'["lz"][c][pos] = m.body /\ lastPosition'[c] = m.body
        BY <2>1, <2>2, <2>3, <3>1
      <4>2. m.body # NoSnapshot
        BY <2>1
      <4> QED BY <2>1, <4>1, <4>2
    <3>2. CASE ~(c = dst /\ Written("lz", m))
      <4>1. /\ \A p \in Position : slot'["lz"][c][p] = slot["lz"][c][p]
            /\ lastPosition'[c] = lastPosition[c]
        BY <2>2, <2>3, <3>2
      <4>2. lastPosition[c] # NoSnapshot => lastPosition[c].position \in Position
        BY DEF TypeOK, Body
      <4> QED BY <4>1, <4>2 DEF LastPositionAgrees
    <3> QED BY <3>1, <3>2
  <2> QED BY <2>4 DEF LastPositionAgrees
<1>3. ASSUME NEW m \in Packet, CcipReceive(m)
      PROVE  LastPositionAgrees'
  <2>1. /\ m.dst \in Chain /\ "ccip" \in Lane /\ "lz" \in Lane
        /\ UNCHANGED lastPosition /\ WriteDelivery("ccip", m)
    BY <1>3 DEF Lane, CcipReceive, InFlight
  <2>2. \A c \in Chain, p \in Position : slot'["lz"][c][p] = slot["lz"][c][p]
    BY <2>1, WriteEffect
  <2>3. \A c \in Chain : lastPosition[c] # NoSnapshot => lastPosition[c].position \in Position
    BY DEF TypeOK, Body
  <2> QED BY <2>1, <2>2, <2>3 DEF LastPositionAgrees
<1>4. WalletStep => UNCHANGED <<slot, lastPosition>>
  BY DEF WalletStep, WrapPosition, RefreshWrapper, SendPositionSnapshot, evmVars
<1>5. Tick \/ ChangeRoles \/ SolanaAdmin \/ EvmOwner \/ UNCHANGED vars
        => UNCHANGED <<slot, lastPosition>>
  BY DEF Tick, ChangeRoles, SolanaAdmin, SetPeerAddress, SetEnforcedOptions,
         SetCcipRoute, EvmOwner, EvmSetPeer, EvmSetCcipRoute, evmVars, vars
<1> QED BY <1>1, <1>2, <1>3, <1>4, <1>5 DEF Next, Delivery

-----------------------------------------------------------------------------
(* positions[] *)

\* What a list holds, and what an append adds to it.
ElementsOf(s) == {s[i] : i \in 1..Len(s)}

LEMMA ElementsFinite ==
    ASSUME NEW s \in Seq(Position)
    PROVE  IsFiniteSet(ElementsOf(s))
<1>1. Len(s) \in Nat /\ IsFiniteSet(1..Len(s))
  BY FS_Interval
<1>2. s \in Surjection(1..Len(s), ElementsOf(s))
  BY <1>1 DEF ElementsOf, Surjection
<1> QED BY <1>1, <1>2, FS_Surjection

LEMMA ElementsAppend ==
    ASSUME NEW s \in Seq(Position), NEW p \in Position
    PROVE  ElementsOf(Append(s, p)) = ElementsOf(s) \cup {p}
<1>1. Len(Append(s, p)) = Len(s) + 1 /\ Len(s) \in Nat
  OBVIOUS
<1>2. \A i \in 1..Len(s) : Append(s, p)[i] = s[i]
  OBVIOUS
<1>3. Append(s, p)[Len(s) + 1] = p
  OBVIOUS
<1>4. 1..(Len(s) + 1) = (1..Len(s)) \cup {Len(s) + 1}
  BY <1>1
<1> HIDE DEF ElementsOf
<1>5. ElementsOf(Append(s, p))
        = {Append(s, p)[i] : i \in (1..Len(s)) \cup {Len(s) + 1}}
  BY <1>1, <1>4 DEF ElementsOf
<1> QED BY <1>2, <1>3, <1>5 DEF ElementsOf

LEMMA ListStep ==
    ASSUME TypeOK, PositionsListedOnce, [Next]_vars
    PROVE  PositionsListedOnce'
<1>1. CASE UNCHANGED <<slot, positions>>
  BY <1>1 DEF PositionsListedOnce, Known
<1>2. ASSUME NEW m \in Packet, LzReceive(m) \/ CcipReceive(m)
      PROVE  PositionsListedOnce'
  <2> DEFINE dst == m.dst
             pos == m.body.position
  <2>1. PICK lane \in Lane : dst \in Chain /\ WriteDelivery(lane, m)
    BY <1>2, ReceiveEffect
  <2>2. m.body \in Body /\ pos \in Position
    BY DEF Packet, Body
  <2>3. \A l \in Lane, c \in Chain, p \in Position :
           slot'[l][c][p] = IF l = lane /\ c = dst /\ p = pos /\ Written(lane, m)
                            THEN m.body ELSE slot[l][c][p]
    BY <2>1, WriteEffect
  <2>4. CASE ~Written(lane, m)
    <3>1. UNCHANGED <<slot, positions>>
      BY <2>1, <2>4 DEF WriteDelivery
    <3> QED BY <1>1, <3>1 DEF PositionsListedOnce, Known
  <2>5. CASE Written(lane, m)
    <3>1. m.body # NoSnapshot
      BY <2>2
    <3>2. positions' = List(dst, pos)
      BY <2>1, <2>5 DEF WriteDelivery
    <3>3. \A c \in Chain : positions[c] \in Seq(Position)
      BY DEF TypeOK
    <3>4. \A c \in Chain :
             positions'[c] = IF c = dst /\ pos \notin Known(dst)
                             THEN Append(positions[c], pos) ELSE positions[c]
      BY <2>1, <3>2 DEF List, TypeOK
    <3>5. \A c \in Chain : Known(c) = ElementsOf(positions[c])
                           /\ Known(c)' = ElementsOf(positions'[c])
      BY DEF Known, ElementsOf
    <3>6. ASSUME NEW c \in Chain
          PROVE  /\ Known(c)' = IF c = dst THEN Known(c) \cup {pos} ELSE Known(c)
                 /\ Len(positions'[c]) = Cardinality(Known(c)')
      <4>1. Len(positions[c]) = Cardinality(Known(c)) /\ IsFiniteSet(Known(c))
        BY <3>3, <3>5, ElementsFinite DEF PositionsListedOnce
      <4>2. CASE c = dst /\ pos \notin Known(dst)
        <5>1. positions'[c] = Append(positions[c], pos)
          BY <3>4, <4>2
        <5>2. Known(c)' = Known(c) \cup {pos}
          BY <2>2, <3>3, <3>5, <5>1, ElementsAppend
        <5>3. Len(positions'[c]) = Len(positions[c]) + 1
          BY <2>2, <3>3, <5>1
        <5>4. Cardinality(Known(c) \cup {pos}) = Cardinality(Known(c)) + 1
          BY <4>1, <4>2, FS_AddElement
        <5> QED BY <4>1, <4>2, <5>2, <5>3, <5>4
      <4>3. CASE ~(c = dst /\ pos \notin Known(dst))
        <5>1. positions'[c] = positions[c]
          BY <3>4, <4>3
        <5>2. Known(c)' = Known(c)
          BY <3>5, <5>1
        <5> QED BY <4>1, <4>3, <5>1, <5>2
      <4> QED BY <4>2, <4>3
    <3>7. ASSUME NEW c \in Chain
          PROVE  Known(c)' = {p \in Position : \E l \in Lane : slot'[l][c][p] # NoSnapshot}
      <4>1. Known(c) = {p \in Position : \E l \in Lane : slot[l][c][p] # NoSnapshot}
        BY DEF PositionsListedOnce
      <4>2. \A p \in Position :
               (\E l \in Lane : slot'[l][c][p] # NoSnapshot)
                 <=> \/ \E l \in Lane : slot[l][c][p] # NoSnapshot
                     \/ c = dst /\ p = pos
        BY <2>3, <2>5, <3>1
      <4> QED BY <2>2, <3>6, <4>1, <4>2
    <3> QED BY <3>6, <3>7 DEF PositionsListedOnce
  <2> QED BY <2>4, <2>5
<1>3. ASSUME NEW a \in Wallet, NEW p \in Position,
             \/ WrapPosition(a, p)
             \/ \E d \in Data : RefreshWrapper(a, p, d)
             \/ \E c \in Chain : SendPositionSnapshot(a, p, c)
      PROVE  UNCHANGED <<slot, positions>>
  BY <1>3 DEF WrapPosition, RefreshWrapper, SendPositionSnapshot, evmVars
<1>4. Quiet => UNCHANGED <<slot, positions>>
  BY DEF Quiet
<1> QED BY <1>1, <1>2, <1>3, <1>4, StepCases

-----------------------------------------------------------------------------
(* The books are right in every reachable state *)

LEMMA BooksInitial == Init => BooksInv
<1> SUFFICES ASSUME Init PROVE BooksInv
  OBVIOUS
<1>1. SentFinite
  BY FS_EmptySet DEF Init, SentFinite
<1>2. SendCountExact
  <2>1. \A l \in Lane, p \in Position : sendCount[p] = 0 /\ PacketsOf(l, p) = {}
    BY DEF Init, PacketsOf
  <2>2. \A l \in Lane, p \in Position : Cardinality(PacketsOf(l, p)) = 0
    BY <2>1, FS_EmptySet
  <2> QED BY <2>1, <2>2 DEF SendCountExact, PacketsOf
<1>3. LastPositionAgrees
  BY DEF Init, LastPositionAgrees, Lane
<1>4. PositionsListedOnce
  <2>1. \A c \in Chain : positions[c] = <<>> /\ Len(positions[c]) = 0
    BY DEF Init
  <2>2. \A c \in Chain : Known(c) = {}
    BY <2>1 DEF Known
  <2>3. \A c \in Chain :
           {p \in Position : \E l \in Lane : slot[l][c][p] # NoSnapshot} = {}
    BY DEF Init
  <2> QED BY <2>1, <2>2, <2>3, FS_EmptySet DEF PositionsListedOnce
<1> QED BY <1>1, <1>2, <1>3, <1>4 DEF BooksInv

LEMMA BooksStep == PipelineInv /\ BooksInv /\ [Next]_vars => BooksInv'
BY CountStep, LastStep, ListStep DEF PipelineInv, BooksInv

LEMMA BooksSafe == Spec => []BooksInv
BY BooksInitial, BooksStep, PipelineSafe, PTL DEF Spec

\* send_count is exactly the number of packets each lane was given: no send
\* is recorded without both legs, none leaves unrecorded, and wrap_position's
\* reset to 0 never meets a position that was sent.
THEOREM CountsAreExact == Spec => []SendCountExact
<1>1. BooksInv => SendCountExact
  BY DEF BooksInv
<1> QED BY <1>1, BooksSafe, PTL

\* lastPosition_ always is the LayerZero slot of its own position: a stale
\* delivery and the CCIP lane never leak into what the oracle prices.
THEOREM LastPositionHolds == Spec => []LastPositionAgrees
<1>1. BooksInv => LastPositionAgrees
  BY DEF BooksInv
<1> QED BY <1>1, BooksSafe, PTL

\* positions[] lists every delivered position exactly once, whichever lane
\* was first and however often it is delivered.
THEOREM ListedOnce == Spec => []PositionsListedOnce
<1>1. BooksInv => PositionsListedOnce
  BY DEF BooksInv
<1> QED BY <1>1, BooksSafe, PTL
=============================================================================
