\* Circle and Chainlink: every form of a route, two routers, fees and a bridge
\* signer whose account others pay into.
SPECIFICATION BridgeSpec
CONSTANTS
    w1 = w1  w2 = w2  p1 = p1  p2 = p2  m1 = m1  m2 = m2  c1 = c1
    issuer = issuer  circle = circle  ccipA = ccipA  ccipB = ccipB
    treasury = treasury  stray = stray
    Wallet = {w1}
    Admin = w1
    NoWallet = NoWallet
    Position = {p1}
    KeyLists <- NoLists
    AllowlistLen = 1
    Levels <- BothLevels
    Mint = {m1}
    Chain = {c1}
    Program = {issuer, circle, ccipA, ccipB}
    NoProgram = NoProgram
    Issuer <- OneIssuer
    Address = {treasury, stray}
    ZeroAddress = ZeroAddress
    NoRoute = NoRoute
    Forms <- CallForms
    Amounts = {100, 200}
    Fees = {0, 1, 2}
    Dust = {0}
    Transactions <- NoTransactions
    BridgeSigner = BridgeSigner
    DomainLimit = 4
    MaxBalance = 200
    MaxSent = 2
INVARIANTS
    BridgeTypeOK
PROPERTIES
    LossIsSent
    BridgeAccountUntouched
