\* The cron alone may skip a refresh that only moved snapshot_time.
SPECIFICATION SyncSpec
CONSTANTS
    w1 = w1  w2 = w2  p1 = p1  p2 = p2  c1 = c1  n1 = n1  n2 = n2  r1 = r1  r2 = r2
    Wallet = {w1, w2}
    Admin = w1
    NoWallet = NoWallet
    Position = {p1}
    KeyLists = {}
    AllowlistLen = 2
    Chain = {c1}
    Data <- ThreeReadings
    Targets = {c1}
    Nowhere = Nowhere
    NoRoute = NoRoute
    PeerKinds = {"mirror"}
    EvmSettings = {TRUE, FALSE}
    NoSnapshot = NoSnapshot
    MaxTime = 2
    Operator = w1
    Others = {w2}
    Numbers = {n1, n2}
    Rest = {r1, r2}
    Bad = {}
    MaxFaults = 0
PROPERTY
    NewerTimeIsChanged
