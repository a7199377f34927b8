\* Two wallets, every change of role and every order of delivery over three
\* seconds: the pipeline implements the register.
SPECIFICATION Spec
CONSTANTS
    w1 = w1  w2 = w2  p1 = p1  p2 = p2  c1 = c1  c2 = c2
    Wallet = {w1, w2}
    Admin = w1
    NoWallet = NoWallet
    Position = {p1}
    KeyLists <- SmallLists
    AllowlistLen = 1
    Chain = {c1}
    Data = {d1, d2}
    Targets <- ToChains
    Nowhere = Nowhere
    NoRoute = NoRoute
    PeerKinds <- MirrorOnly
    EvmSettings <- TurnOn
    NoSnapshot = NoSnapshot
    MaxTime = 3
SYMMETRY Symmetry
INVARIANTS
    TypeOK
    SentOnce
    SendGuardCovers
    SlotIsNewestDelivered
PROPERTIES
    ImplementsRegister
    MirrorNeverGoesBack
    UnmatchOnlyByNewer
