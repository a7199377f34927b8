\* Lanes that stop being switched deliver everything.
SPECIFICATION FairSpec
CONSTANTS
    w1 = w1  w2 = w2  p1 = p1  p2 = p2  c1 = c1  c2 = c2
    Wallet = {w1}
    Admin = w1
    NoWallet = NoWallet
    Position = {p1, p2}
    KeyLists <- JustAdmin
    AllowlistLen = 1
    Chain = {c1}
    Data = {d1}
    Targets <- ToChains
    Nowhere = Nowhere
    NoRoute = NoRoute
    PeerKinds <- MirrorOnly
    EvmSettings <- TurnOn
    NoSnapshot = NoSnapshot
    MaxTime = 2
PROPERTIES
    EventuallyMirrored
    EventuallyMatched
INVARIANTS
    LastPositionAgrees
    PositionsListedOnce
