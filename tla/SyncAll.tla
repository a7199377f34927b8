------------------------------ MODULE SyncAll ------------------------------
(***************************************************************************)
(* The cron that refreshes and sends every wrapper                         *)
(* (tasks/solana/syncAll.ts), over the pipeline of SnapshotMirror.         *)
(*                                                                         *)
(* It lists the wrappers, then takes them one at a time: a refresh         *)
(* transaction, a second read of the wrapper, a decision, a quote and a    *)
(* send transaction.  An error ends that wrapper's turn only.  Between any *)
(* two of these steps Jupiter moves, other callers refresh and send, and   *)
(* the process may die and be started again.                               *)
(*                                                                         *)
(* What a refresh reads is <<numbers, rest>>: the cron compares collateral,*)
(* debt, tick and the liquidated flag, and not dust, net debt or prices.   *)
(***************************************************************************)
EXTENDS SnapshotMirror

CONSTANTS
    Operator,   \* the cron's key
    Others,     \* wallets that refresh and send meanwhile
    Numbers,    \* what changed() compares
    Rest,       \* and what it does not
    Bad,        \* positions whose refresh fails every time
    MaxFaults   \* bound on failed calls, lost confirmations and restarts

ASSUME SyncAssumption ==
    /\ {Operator} \cup Others \subseteq Wallet
    /\ Data \subseteq Numbers \X Rest
    /\ Bad \subseteq Position
    /\ MaxFaults \in Nat

VARIABLES
    jupiter,   \* what Jupiter's accounts hold now
    cron,      \* the step the process is at
    todo,      \* wrappers it has not come to
    at,        \* the wrapper of this turn
    before,    \* each wrapper as the list read it: snapshot
    faults

cronVars == <<cron, todo, at, before>>

mirrorVars == <<accessVars, solanaVars, sent, delivered, evmVars>>

syncVars == <<mirrorVars, jupiter, cronVars, faults>>

\* Types, and that a turn is about a wrapper that has left the list and has
\* a snapshot.
SyncTypeOK ==
    /\ jupiter \in [Position -> Data]
    /\ cron \in {"loop", "look", "send"}
    /\ todo \subseteq Position
    /\ at \in Position
    /\ cron # "loop" => at \notin todo /\ snapshot[at] # NoSnapshot
    /\ before \in [Position -> Body \cup {NoSnapshot}]
    /\ faults \in 0..MaxFaults

\* The deployment is done and the positions are wrapped; the operator is on
\* both lists.
SyncInit ==
    /\ snapshotters = {Operator} \cup Others
    /\ senders = {Operator} \cup Others
    /\ owner = [p \in Position |-> Operator]
    /\ attached = {}
    /\ callers = [p \in Position |-> {}]
    /\ clock = 1
    /\ snapshot = [p \in Position |-> NoSnapshot]
    /\ lastSent = [p \in Position |-> 0]
    /\ sendCount = [p \in Position |-> 0]
    /\ peer = [c \in Chain |-> "mirror"]
    /\ ccipRoute \in Targets
    /\ sent = [l \in Lane |-> {}]
    /\ delivered = [l \in Lane |-> {}]
    /\ evmPeer = [c \in Chain |-> TRUE]
    /\ evmRoute = [c \in Chain |-> TRUE]
    /\ slot = [l \in Lane |-> [c \in Chain |-> [p \in Position |-> NoSnapshot]]]
    /\ lastPosition = [c \in Chain |-> NoSnapshot]
    /\ positions = [c \in Chain |-> <<>>]
    /\ \E d \in Data : jupiter = [p \in Position |-> d]
    /\ cron = "loop"
    /\ todo = {}
    /\ at \in Position
    /\ before = snapshot
    /\ faults = 0
-----------------------------------------------------------------------------
(* Around the cron *)

\* The bound on the clock is a bound on what the others and Jupiter do.
Early == clock < MaxTime

JupiterMoves(p, d) ==
    /\ Early
    /\ d # jupiter[p]
    /\ jupiter' = [jupiter EXCEPT ![p] = d]
    /\ UNCHANGED <<mirrorVars, cronVars, faults>>

OthersCall(a, p) ==
    /\ Early
    /\ p \notin Bad
    /\ RefreshWrapper(a, p, jupiter[p]) \/ \E c \in Chain : SendPositionSnapshot(a, p, c)
    /\ UNCHANGED <<jupiter, cronVars, faults>>

TimePasses == Tick /\ UNCHANGED <<jupiter, cronVars, faults>>

Receive(lane) ==
    /\ \E m \in sent[lane] : IF lane = "lz" THEN LzReceive(m) ELSE CcipReceive(m)
    /\ UNCHANGED <<jupiter, cronVars, faults>>

SwitchLane ==
    /\ Early
    /\ EvmOwner
    /\ UNCHANGED <<jupiter, cronVars, faults>>
-----------------------------------------------------------------------------
(* The cron *)

\* listWrappers, at the start of a run.
List_ ==
    /\ cron = "loop" /\ todo = {}
    /\ todo' = {p \in Position : Wrapped(p)}
    /\ before' = snapshot
    /\ UNCHANGED <<mirrorVars, jupiter, cron, at, faults>>

\* Mutant: the wrapper stays on the list.
MutTurn(p) == cron = "loop" /\ p \in todo /\ todo' = todo /\ at' = p

Turn(p) == cron = "loop" /\ p \in todo /\ todo' = todo \ {p} /\ at' = p

Refresh(p) ==
    /\ Turn(p)
    /\ p \notin Bad
    /\ RefreshWrapper(Operator, p, jupiter[p])
    /\ cron' = "look"
    /\ UNCHANGED <<jupiter, before, faults>>

\* The transaction fails, or it lands and its confirmation is lost: either way
\* the catch block goes on with the next wrapper.
RefreshErrs(p) ==
    /\ Turn(p)
    /\ p \notin Bad
    /\ faults < MaxFaults
    /\ faults' = faults + 1
    /\ RefreshWrapper(Operator, p, jupiter[p]) \/ UNCHANGED mirrorVars
    /\ UNCHANGED <<jupiter, cron, before>>

RefreshFails(p) ==
    /\ Turn(p)
    /\ p \in Bad
    /\ UNCHANGED <<mirrorVars, jupiter, cron, before, faults>>

NumbersOf(body) == body.data[1]

\* Mutant: a snapshot that was refreshed and never sent is not looked at.
MutChanged(b, after, sentTime) ==
    \/ sentTime = 0
    \/ b = NoSnapshot \/ after = NoSnapshot
    \/ NumbersOf(b) # NumbersOf(after)

\* b is the wrapper's snapshot in the list, after the one read again.
Changed(b, after, sentTime) ==
    \/ sentTime = 0
    \/ b = NoSnapshot \/ after = NoSnapshot
    \/ b.time > sentTime
    \/ NumbersOf(b) # NumbersOf(after)

Skips == ~Changed(before[at], snapshot[at], lastSent[at])

\* getWrapper after the refresh.
Look ==
    /\ cron = "look"
    /\ cron' = IF snapshot[at] = NoSnapshot \/ Skips THEN "loop" ELSE "send"
    /\ UNCHANGED <<mirrorVars, jupiter, todo, at, before, faults>>

EndsTurn == cron = "send" /\ cron' = "loop" /\ UNCHANGED <<jupiter, todo, at, before>>

Send(c) ==
    /\ EndsTurn
    /\ SendPositionSnapshot(Operator, at, c)
    /\ UNCHANGED faults

\* The program's guard refuses: somebody sent this snapshot in the meantime.
SendRefused ==
    /\ EndsTurn
    /\ ~CanSend(at)
    /\ UNCHANGED <<mirrorVars, faults>>

\* The quote or the transaction fails.  A send that landed without its
\* confirmation looks like this to the cron and like Send to everyone else.
SendErrs ==
    /\ EndsTurn
    /\ faults < MaxFaults
    /\ faults' = faults + 1
    /\ UNCHANGED mirrorVars

\* The process dies and is started again from the top.
Restart ==
    /\ faults < MaxFaults
    /\ faults' = faults + 1
    /\ todo # {} \/ cron # "loop"
    /\ cron' = "loop"
    /\ todo' = {}
    /\ UNCHANGED <<mirrorVars, jupiter, at, before>>

CronStep ==
    \/ List_
    \/ \E p \in Position : Refresh(p) \/ RefreshFails(p)
    \/ Look
    \/ \E c \in Chain : Send(c)
    \/ SendRefused

CronFault == (\E p \in Position : RefreshErrs(p)) \/ SendErrs \/ Restart

Around ==
    \/ \E p \in Position, d \in Data : JupiterMoves(p, d)
    \/ \E a \in Others, p \in Position : OthersCall(a, p)
    \/ TimePasses
    \/ \E lane \in Lane : Receive(lane)
    \/ SwitchLane

SyncNext == CronStep \/ CronFault \/ Around

SyncSpec == SyncInit /\ [][SyncNext]_syncVars

\* The cron is started again and again and its steps end; the networks deliver
\* what is accepted; time passes.
SyncFairSpec ==
    /\ SyncSpec
    /\ WF_syncVars(CronStep)
    /\ WF_syncVars(TimePasses)
    /\ WF_syncVars(Receive("lz"))
    /\ WF_syncVars(Receive("ccip"))
-----------------------------------------------------------------------------
(* Properties *)

\* Somebody who keeps the cron running sees, on a chain whose lanes stay up,
\* what Jupiter came to hold, prices and dust included: a skipped turn, a
\* lost confirmation, a restart, another caller or a position that cannot be
\* refreshed ("One bad position must not stop the loop for the others",
\* syncAll.ts:99) only delays it.
EventuallyShown ==
    \A c \in Chain : ccipRoute = c /\ <>[]LanesUp(c) =>
        \A l \in Lane, p \in Position \ Bad :
            <>[](slot[l][c][p] # NoSnapshot /\ slot[l][c][p].data = jupiter[p])

\* "'Changed' also means a newer snapshot time" (docs/review.md:20): the cron
\* never skips a wrapper whose refresh brought a newer snapshot_time.
NewerTimeIsChanged ==
    [][Look /\ Skips => snapshot[at].time <= before[at].time]_syncVars
=============================================================================
