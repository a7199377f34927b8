\* Two wallets and one position: every order of transfers, deposits and
\* releases, with owners, lists and levels changing, and calls with every
\* combination of signs.
SPECIFICATION CustodySpec
CONSTANTS
    w1 = w1  w2 = w2  p1 = p1  p2 = p2
    Wallet = {w1, w2}
    Admin = w1
    NoWallet = NoWallet
    Position = {p1}
    KeyLists <- CallerLists
    AllowlistLen = 1
    Authority = Authority
    Levels <- EveryLevel
    Legs <- EveryLeg
    Payouts <- OneAstray
    MaxUnits = 2
INVARIANTS
    CustodyTypeOK
    CustodyMeansHeld
PROPERTIES
    ImplementsEscrow
    LevelBoundsRisk
    NothingLeaks
