\* Two packets over any two bridges, fees, lanes and a strategy that come and go
\* between a packet's arrival and the forward.
SPECIFICATION FairRoadSpec
CONSTANTS
    w1 = w1  p1 = p1  m1 = m1  c1 = c1  prog = prog
    treasury = treasury  stray = stray  s1 = s1
    Wallet = {w1}
    Admin = w1
    NoWallet = NoWallet
    Position = {p1}
    KeyLists <- NoLists
    AllowlistLen = 1
    Levels = {1}
    Mint = {m1}
    Token = {m1}
    Chain = {c1}
    Program = {prog}
    NoProgram = NoProgram
    Issuer <- OneIssuer
    Address = {treasury, stray}
    ZeroAddress = ZeroAddress
    NoRoute = NoRoute
    Forms <- RoadForms
    Amounts = {100}
    Fees = {1, 101}
    Dust = {0}
    Transactions <- RoadTransactions
    BridgeSigner = BridgeSigner
    DomainLimit = 8
    MaxBalance = 100
    MaxSent = 2
    Strategy = {s1}
    NoStrategy = NoStrategy
    TreasuryAddress = treasury
    Home <- HomeNumbers
INVARIANTS
    RoadTypeOK
    TreasuryBooks
PROPERTIES
    EventuallyForwarded
