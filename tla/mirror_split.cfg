\* Two chains, every route and peer, lanes switched on and off: sends whose
\* two legs part, packets in flight while a lane is down.
SPECIFICATION Spec
CONSTANTS
    w1 = w1  w2 = w2  p1 = p1  p2 = p2  c1 = c1  c2 = c2
    Wallet = {w1}
    Admin = w1
    NoWallet = NoWallet
    Position = {p1}
    KeyLists <- JustAdmin
    AllowlistLen = 1
    Chain = {c1, c2}
    Data = {d1}
    Targets <- ToAnywhere
    Nowhere = Nowhere
    NoRoute = NoRoute
    PeerKinds <- BothKinds
    EvmSettings <- OnAndOff
    NoSnapshot = NoSnapshot
    MaxTime = 2
INVARIANTS
    SendCountExact
    SettledMeansMatched
