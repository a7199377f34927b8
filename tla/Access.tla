------------------------------- MODULE Access -------------------------------
(***************************************************************************)
(* Who may do what on Solana: the Store's two allowlists, the owner of     *)
(* each PositionWrapper and the wrapper's OnDemand caller list             *)
(* (state/store.rs, state/wrapper.rs, instructions/set_allowlists.rs,      *)
(* instructions/wrap_position.rs and the owner that                        *)
(* instructions/custody.rs writes).                                        *)
(*                                                                         *)
(* Every instruction is one atomic Solana transaction, so every action is  *)
(* one instruction.  An instruction whose checks fail changes nothing and  *)
(* is therefore a disabled action.                                         *)
(***************************************************************************)
EXTENDS Naturals, FiniteSets

CONSTANTS
    Wallet,        \* signing keys
    Admin,         \* Store.admin, fixed by init_store
    NoWallet,      \* the owner of a wrapper account that does not exist
    Position,      \* Jupiter positions, (vault_id, nft_id); one wrapper PDA each
    KeyLists,      \* the key sets an admin or an owner passes to a set_* call
    AllowlistLen   \* ALLOWLIST_LEN

ASSUME AccessAssumption ==
    /\ Admin \in Wallet
    /\ NoWallet \notin Wallet
    /\ KeyLists \subseteq SUBSET Wallet
    /\ AllowlistLen \in Nat \ {0}

VARIABLES
    snapshotters,  \* Store.snapshotters[..snapshotter_count]
    senders,       \* Store.senders[..sender_count]
    owner,         \* PositionWrapper.owner, NoWallet before wrap_position
    attached,      \* positions whose OnDemandStrategy account exists
    callers        \* OnDemandStrategy.callers[..caller_count]

accessVars == <<snapshotters, senders, owner, attached, callers>>

AccessTypeOK ==
    /\ snapshotters \in SUBSET Wallet
    /\ senders \in SUBSET Wallet
    /\ owner \in [Position -> Wallet \cup {NoWallet}]
    /\ attached \in SUBSET Position
    /\ callers \in [Position -> SUBSET Wallet]

\* The state init_store leaves: both lists are seeded with the admin.
AccessInit ==
    /\ snapshotters = {Admin}
    /\ senders = {Admin}
    /\ owner = [p \in Position |-> NoWallet]
    /\ attached = {}
    /\ callers = [p \in Position |-> {}]

Wrapped(p) == owner[p] # NoWallet

IsSnapshotter(a) == a \in snapshotters

IsSender(a) == a \in senders

IsOwner(a, p) == owner[p] = a

\* The optional OnDemand account, when the caller passes it.
IsOnDemandCaller(a, p) == p \in attached /\ a \in callers[p]

\* RefreshWrapper's constraint on `wrapper`.
MayRefresh(a, p) == IsOwner(a, p) \/ IsSnapshotter(a) \/ IsOnDemandCaller(a, p)

\* SendPositionSnapshotViaChainlinkAndLz's constraint on `wrapper`: the owner
\* is not on it.
MaySend(a, p) == IsSender(a) \/ IsOnDemandCaller(a, p)

FitsAllowlist(keys) == Cardinality(keys) <= AllowlistLen

-----------------------------------------------------------------------------
SetSnapshotters(keys) ==
    /\ FitsAllowlist(keys)
    /\ snapshotters' = keys
    /\ UNCHANGED <<senders, owner, attached, callers>>

SetSenders(keys) ==
    /\ FitsAllowlist(keys)
    /\ senders' = keys
    /\ UNCHANGED <<snapshotters, owner, attached, callers>>

\* `init` makes a second wrap of the same position fail.
WrapAccess(a, p) ==
    /\ IsSnapshotter(a)
    /\ ~Wrapped(p)
    /\ owner' = [owner EXCEPT ![p] = a]
    /\ UNCHANGED <<snapshotters, senders, attached, callers>>

\* The list is created once and starts with its owner on it.
AttachOndemand(a, p) ==
    /\ IsOwner(a, p)
    /\ p \notin attached
    /\ attached' = attached \cup {p}
    /\ callers' = [callers EXCEPT ![p] = {a}]
    /\ UNCHANGED <<snapshotters, senders, owner>>

SetOndemandCallers(a, p, keys) ==
    /\ IsOwner(a, p)
    /\ p \in attached
    /\ FitsAllowlist(keys)
    /\ callers' = [callers EXCEPT ![p] = keys]
    /\ UNCHANGED <<snapshotters, senders, owner, attached>>

\* Mutant: the deposit leaves the owner as it was.
MutKeepOwner(a, p) == Wrapped(p) /\ UNCHANGED accessVars

\* deposit_position_nft makes the depositor the owner.  The OnDemand list of
\* the previous owner stays as it is.
TakeOwnership(a, p) ==
    /\ Wrapped(p)
    /\ owner' = [owner EXCEPT ![p] = a]
    /\ UNCHANGED <<snapshotters, senders, attached, callers>>

\* The changes of the lists, which touch nothing else.
ListChange ==
    \/ \E keys \in KeyLists : SetSnapshotters(keys) \/ SetSenders(keys)
    \/ \E a \in Wallet, p \in Position :
          \/ AttachOndemand(a, p)
          \/ \E keys \in KeyLists : SetOndemandCallers(a, p, keys)

\* With the changes of owner, for a module that does not say who may deposit
\* an NFT.  WrapAccess creates a wrapper and is a step of the modules that
\* extend this one.
RoleChange == ListChange \/ \E a \in Wallet, p \in Position : TakeOwnership(a, p)
=============================================================================
