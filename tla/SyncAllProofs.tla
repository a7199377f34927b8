---------------------------- MODULE SyncAllProofs ----------------------------
(***************************************************************************)
(* TLAPS proofs about SyncAll: whatever the cron does, with every fault    *)
(* and every other caller, is a behaviour of the pipeline, so its safety   *)
(* carries over.                                                           *)
(***************************************************************************)
EXTENDS SyncAll, SnapshotMirrorProofs

USE AccessAssumption, MirrorAssumption, SyncAssumption

-----------------------------------------------------------------------------
(* The deployed state *)

LEMMA SyncStartsInPipeline == SyncInit => PipelineInv
<1> SUFFICES ASSUME SyncInit PROVE PipelineInv
  OBVIOUS
<1> USE DEF SyncInit
<1>1. TypeOK
  <2>1. AccessTypeOK
    BY DEF AccessTypeOK
  <2>2. /\ peer \in [Chain -> {"absent", "elsewhere", "mirror"}]
        /\ ccipRoute \in Destination \cup {NoRoute}
    OBVIOUS
  <2>3. evmPeer \in [Chain -> BOOLEAN] /\ evmRoute \in [Chain -> BOOLEAN]
    BY Zenon
  <2> QED BY <2>1, <2>2, <2>3 DEF TypeOK
<1>2. \A p \in Position : Wrapped(p) /\ snapshot[p] = NoSnapshot
  BY DEF Wrapped
<1>3. \A l \in Lane : sent[l] = {} /\ delivered[l] = {}
  OBVIOUS
<1>4. \A l \in Lane, c \in Chain, p \in Position :
         slot[l][c][p] = NoSnapshot /\ BodiesAt(l, c, p) = {}
  BY <1>3 DEF BodiesAt
<1> QED BY <1>1, <1>2, <1>3, <1>4
        DEF PipelineInv, SendGuardCovers, SentOnce, DeliveredWasSent, SlotIsNewestDelivered

LEMMA SyncStartsInRegister == SyncInit => Register!RegisterInit
<1> SUFFICES ASSUME SyncInit PROVE Register!RegisterInit
  OBVIOUS
<1>1. PublishedBodies = {}
  BY DEF SyncInit, PublishedBodies, Lane
<1>2. ShownBodies = [v \in Lane \X Chain |-> [p \in Position |-> NoSnapshot]]
  BY DEF SyncInit, ShownBodies
<1> QED BY <1>1, <1>2 DEF Register!RegisterInit

LEMMA SyncInitTyped == SyncInit => SyncTypeOK
<1> SUFFICES ASSUME SyncInit PROVE SyncTypeOK
  OBVIOUS
<1>1. PICK d \in Data : jupiter = [p \in Position |-> d]
  BY DEF SyncInit
<1> QED BY <1>1 DEF SyncInit, SyncTypeOK

-----------------------------------------------------------------------------
(* Every step is a step of the pipeline *)

\* A refresh or a send of a wallet, as a step of SnapshotMirror.
LEMMA CallsArePipeline ==
    ASSUME SyncTypeOK, NEW a \in Wallet, NEW p \in Position
    PROVE  /\ RefreshWrapper(a, p, jupiter[p]) => Next
           /\ \A c \in Chain : SendPositionSnapshot(a, p, c) => Next
BY DEF SyncTypeOK, Next, WalletStep

LEMMA SyncIsPipeline == TypeOK /\ SyncTypeOK /\ [SyncNext]_syncVars => [Next]_vars
<1> SUFFICES ASSUME TypeOK, SyncTypeOK, [SyncNext]_syncVars
             PROVE  Next \/ UNCHANGED vars
  OBVIOUS
<1>1. UNCHANGED mirrorVars => UNCHANGED vars
  BY DEF mirrorVars, vars
<1>2. Operator \in Wallet /\ Others \subseteq Wallet /\ at \in Position
  BY DEF SyncTypeOK
<1>3. CASE CronStep
  <2>1. CASE \E p \in Position : Refresh(p)
    BY <1>2, <2>1, CallsArePipeline DEF Refresh
  <2>2. CASE \E c \in Chain : Send(c)
    BY <1>2, <2>2, CallsArePipeline DEF Send
  <2>3. CASE List_ \/ Look \/ SendRefused \/ \E p \in Position : RefreshFails(p)
    BY <1>1, <2>3 DEF List_, Look, SendRefused, RefreshFails
  <2> QED BY <1>3, <2>1, <2>2, <2>3 DEF CronStep
<1>4. CASE CronFault
  <2>1. CASE \E p \in Position : RefreshErrs(p)
    BY <1>1, <1>2, <2>1, CallsArePipeline DEF RefreshErrs
  <2>2. CASE SendErrs \/ Restart
    BY <1>1, <2>2 DEF SendErrs, Restart
  <2> QED BY <1>4, <2>1, <2>2 DEF CronFault
<1>5. CASE Around
  <2>1. CASE \E p \in Position, d \in Data : JupiterMoves(p, d)
    BY <1>1, <2>1 DEF JupiterMoves
  <2>2. CASE \E a \in Others, p \in Position : OthersCall(a, p)
    BY <1>2, <2>2, CallsArePipeline DEF OthersCall
  <2>3. CASE TimePasses \/ SwitchLane
    BY <2>3 DEF TimePasses, SwitchLane, Next
  <2>4. CASE \E lane \in Lane : Receive(lane)
    <3>1. PICK lane \in Lane : Receive(lane)
      BY <2>4
    <3>2. PICK m \in sent[lane] : LzReceive(m) \/ CcipReceive(m)
      BY <3>1 DEF Receive
    <3>3. m \in Packet
      BY DEF TypeOK
    <3> QED BY <3>2, <3>3 DEF Next, Delivery
  <2> QED BY <1>5, <2>1, <2>2, <2>3, <2>4 DEF Around
<1>6. CASE UNCHANGED syncVars
  BY <1>1, <1>6 DEF syncVars
<1> QED BY <1>3, <1>4, <1>5, <1>6 DEF SyncNext

-----------------------------------------------------------------------------
(* The cron's own state *)

\* No step of the cron's world takes a snapshot away from a wrapper.
LEMMA SnapshotStays ==
    ASSUME TypeOK, SyncTypeOK, [SyncNext]_syncVars, NEW p \in Position,
           snapshot[p] # NoSnapshot
    PROVE  snapshot'[p] # NoSnapshot
<1>1. CASE UNCHANGED snapshot
  BY <1>1
<1>2. ASSUME NEW a \in Wallet, NEW q \in Position, RefreshWrapper(a, q, jupiter[q])
      PROVE  snapshot'[p] # NoSnapshot
  <2>1. [position |-> q, time |-> clock, data |-> jupiter[q]] \in Body
    BY DEF TypeOK, SyncTypeOK, Body
  <2>2. snapshot'[p] = IF p = q THEN [position |-> q, time |-> clock, data |-> jupiter[q]]
                       ELSE snapshot[p]
    BY <1>2 DEF RefreshWrapper, TypeOK
  <2> QED BY <2>1, <2>2
<1>3. Operator \in Wallet /\ Others \subseteq Wallet
  OBVIOUS
<1>4. CASE CronStep
  <2>1. \A q \in Position : Refresh(q) => RefreshWrapper(Operator, q, jupiter[q])
    BY DEF Refresh
  <2>2. List_ \/ Look \/ SendRefused \/ (\E q \in Position : RefreshFails(q))
           => UNCHANGED snapshot
    BY DEF List_, Look, SendRefused, RefreshFails, mirrorVars, solanaVars
  <2>3. \A c \in Chain : Send(c) => UNCHANGED snapshot
    BY DEF Send, SendPositionSnapshot
  <2> QED BY <1>1, <1>2, <1>3, <1>4, <2>1, <2>2, <2>3 DEF CronStep
<1>5. CASE CronFault
  <2>1. \A q \in Position : RefreshErrs(q)
           => RefreshWrapper(Operator, q, jupiter[q]) \/ UNCHANGED snapshot
    BY DEF RefreshErrs, mirrorVars, solanaVars
  <2>2. SendErrs \/ Restart => UNCHANGED snapshot
    BY DEF SendErrs, Restart, mirrorVars, solanaVars
  <2> QED BY <1>1, <1>2, <1>3, <1>5, <2>1, <2>2 DEF CronFault
<1>6. CASE Around
  <2>1. \A a \in Others, q \in Position : OthersCall(a, q)
           => RefreshWrapper(a, q, jupiter[q]) \/ UNCHANGED snapshot
    BY DEF OthersCall, SendPositionSnapshot
  <2>2. \A q \in Position, d \in Data : JupiterMoves(q, d) => UNCHANGED snapshot
    BY DEF JupiterMoves, mirrorVars, solanaVars
  <2>3. TimePasses \/ SwitchLane => UNCHANGED snapshot
    BY DEF TimePasses, Tick, SwitchLane, EvmOwner, EvmSetPeer, EvmSetCcipRoute, solanaVars
  <2>4. \A lane \in Lane : Receive(lane) => UNCHANGED snapshot
    BY DEF Receive, LzReceive, CcipReceive, solanaVars
  <2> QED BY <1>1, <1>2, <1>3, <1>6, <2>1, <2>2, <2>3, <2>4 DEF Around
<1>7. CASE UNCHANGED syncVars
  BY <1>1, <1>7 DEF syncVars, mirrorVars, solanaVars
<1> QED BY <1>4, <1>5, <1>6, <1>7 DEF SyncNext

LEMMA SyncTypeStep == TypeOK /\ SyncTypeOK /\ [SyncNext]_syncVars => SyncTypeOK'
<1> SUFFICES ASSUME TypeOK, SyncTypeOK, [SyncNext]_syncVars PROVE SyncTypeOK'
  OBVIOUS
<1> USE DEF SyncTypeOK
<1>1. \A p \in Position : snapshot[p] # NoSnapshot => snapshot'[p] # NoSnapshot
  BY SnapshotStays
<1>2. snapshot \in [Position -> Body \cup {NoSnapshot}]
  BY DEF TypeOK
<1>3. ASSUME UNCHANGED <<jupiter, cronVars, faults>>
      PROVE  SyncTypeOK'
  BY <1>1, <1>3 DEF cronVars
<1>4. CASE List_
  BY <1>1, <1>2, <1>4 DEF List_
<1>5. ASSUME NEW p \in Position, Refresh(p)
      PROVE  SyncTypeOK'
  <2>1. [position |-> p, time |-> clock, data |-> jupiter[p]] \in Body
    BY DEF TypeOK, Body
  <2>2. snapshot'[p] # NoSnapshot
    BY <1>2, <1>5, <2>1 DEF Refresh, RefreshWrapper
  <2> QED BY <1>5, <2>2 DEF Refresh, Turn
<1>6. ASSUME NEW p \in Position, RefreshErrs(p) \/ RefreshFails(p)
      PROVE  SyncTypeOK'
  BY <1>6 DEF RefreshErrs, RefreshFails, Turn
<1>7. CASE Look
  BY <1>1, <1>7 DEF Look
<1>8. CASE SendRefused \/ SendErrs \/ \E c \in Chain : Send(c)
  BY <1>8 DEF SendRefused, SendErrs, Send, EndsTurn
<1>9. CASE Restart
  BY <1>9 DEF Restart
<1>10. ASSUME NEW p \in Position, NEW d \in Data, JupiterMoves(p, d)
       PROVE  SyncTypeOK'
  BY <1>1, <1>10 DEF JupiterMoves, cronVars
<1>11. (\E a \in Others, p \in Position : OthersCall(a, p)) \/ TimePasses \/ SwitchLane
          \/ (\E lane \in Lane : Receive(lane)) \/ UNCHANGED syncVars
         => UNCHANGED <<jupiter, cronVars, faults>>
  BY DEF OthersCall, TimePasses, SwitchLane, Receive, syncVars
<1> QED BY <1>3, <1>4, <1>5, <1>6, <1>7, <1>8, <1>9, <1>10, <1>11
        DEF SyncNext, CronStep, CronFault, Around

SyncInv == PipelineInv /\ SyncTypeOK

LEMMA SyncSafe == SyncSpec => []SyncInv
<1>1. SyncInit => SyncInv
  BY SyncStartsInPipeline, SyncInitTyped DEF SyncInv
<1>2. SyncInv /\ [SyncNext]_syncVars => SyncInv'
  <2>1. PipelineInv => TypeOK
    BY DEF PipelineInv
  <2> QED BY <2>1, SyncIsPipeline, PipelineStep, SyncTypeStep DEF SyncInv
<1> QED BY <1>1, <1>2, PTL DEF SyncSpec

\* A turn is always about a wrapper of the list that has a snapshot to send,
\* whatever fails, restarts or happens beside the cron.
THEOREM SyncTypeCorrect == SyncSpec => []SyncTypeOK
<1>1. SyncInv => SyncTypeOK
  BY DEF SyncInv
<1> QED BY <1>1, SyncSafe, PTL

\* No snapshot is ever sent twice, by the cron, by its retries after a lost
\* confirmation, or by another caller between its two reads.
THEOREM CronSendsOnce == SyncSpec => []SentOnce
<1>1. SyncInv => SentOnce
  BY DEF SyncInv, PipelineInv
<1> QED BY <1>1, SyncSafe, PTL

\* Readers of the mirrors see the abstract register under the cron, too.
THEOREM CronImplementsRegister == SyncSpec => ImplementsRegister
<1>1. SyncInv /\ [SyncNext]_syncVars => [Register!RegisterNext]_(Register!registerVars)
  BY SyncIsPipeline, RegisterStep DEF SyncInv, PipelineInv
<1> QED BY <1>1, SyncStartsInRegister, SyncSafe, PTL
        DEF SyncSpec, ImplementsRegister, Register!RegisterSpec

-----------------------------------------------------------------------------
(* The rest of the pipeline's promises, with the cron at work *)

LEMMA SyncStartsBooks == SyncInit => BooksInv
<1> SUFFICES ASSUME SyncInit PROVE BooksInv
  OBVIOUS
<1> USE DEF SyncInit
<1>1. SentFinite
  BY FS_EmptySet DEF SentFinite
<1>2. SendCountExact
  <2>1. \A l \in Lane, p \in Position : sendCount[p] = 0 /\ PacketsOf(l, p) = {}
    BY DEF PacketsOf
  <2>2. \A l \in Lane, p \in Position : Cardinality(PacketsOf(l, p)) = 0
    BY <2>1, FS_EmptySet
  <2> QED BY <2>1, <2>2 DEF SendCountExact, PacketsOf
<1>3. LastPositionAgrees
  BY DEF LastPositionAgrees, Lane
<1>4. PositionsListedOnce
  <2>1. \A c \in Chain : positions[c] = <<>> /\ Len(positions[c]) = 0
    OBVIOUS
  <2>2. \A c \in Chain : Known(c) = {}
    BY <2>1 DEF Known
  <2>3. \A c \in Chain :
           {p \in Position : \E l \in Lane : slot[l][c][p] # NoSnapshot} = {}
    OBVIOUS
  <2> QED BY <2>1, <2>2, <2>3, FS_EmptySet DEF PositionsListedOnce
<1> QED BY <1>1, <1>2, <1>3, <1>4 DEF BooksInv

LEMMA SyncRunsPipeline == SyncSpec => [][Next]_vars
<1>1. SyncInv /\ [SyncNext]_syncVars => [Next]_vars
  BY SyncIsPipeline DEF SyncInv, PipelineInv
<1> QED BY <1>1, SyncSafe, PTL DEF SyncSpec

\* From the state the operators deploy and with the cron, its restarts and other
\* callers at work, slots hold what is newest, send counts and lists are exact
\* and settled lanes match.
THEOREM CronKeepsMirrors ==
    SyncSpec => [](/\ SendGuardCovers /\ SlotIsNewestDelivered /\ SettledMeansMatched
                   /\ SendCountExact /\ LastPositionAgrees /\ PositionsListedOnce)
<1>1. SyncInv => PipelineInv
  BY DEF SyncInv
<1>2. SyncSpec => []BooksInv
  BY <1>1, SyncStartsBooks, SyncRunsPipeline, SyncSafe, BooksStep, PTL DEF SyncSpec
<1>3. SyncInv /\ BooksInv =>
         /\ SendGuardCovers /\ SlotIsNewestDelivered /\ SettledMeansMatched
         /\ SendCountExact /\ LastPositionAgrees /\ PositionsListedOnce
  BY <1>1, SettledAgree DEF PipelineInv, BooksInv
<1> QED BY <1>2, <1>3, SyncSafe, PTL

\* What the cron sends again, or a restart repeats, takes no reader back in
\* time and ends no match that a newer snapshot does not end.
THEOREM CronNeverGoesBack == SyncSpec => MirrorNeverGoesBack /\ UnmatchOnlyByNewer
<1>1. SyncInv => PipelineInv
  BY DEF SyncInv
<1>2. SyncSpec => []PipelineInv
  BY <1>1, SyncSafe, PTL
<1>3. SyncSpec => MirrorNeverGoesBack
  BY <1>2, SyncRunsPipeline, StepNeverGoesBack, PTL DEF MirrorNeverGoesBack
<1>4. SyncSpec => UnmatchOnlyByNewer
  BY <1>2, SyncRunsPipeline, StepUnmatchesByNewer, PTL DEF UnmatchOnlyByNewer
<1> QED BY <1>3, <1>4
=============================================================================
