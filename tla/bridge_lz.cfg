\* LayerZero: transactions of up to three instructions, the right ones and ones
\* that are wrong in one respect, for one wrapper and two wallets; and pairs of
\* releases from two wrappers.
SPECIFICATION BridgeSpec
CONSTANTS
    w1 = w1  w2 = w2  p1 = p1  p2 = p2  m1 = m1  m2 = m2  c1 = c1
    issuer = issuer  circle = circle  ccipA = ccipA  ccipB = ccipB
    treasury = treasury  stray = stray
    Wallet = {w1, w2}
    Admin = w1
    NoWallet = NoWallet
    Position = {p1, p2}
    KeyLists <- NoLists
    AllowlistLen = 1
    Levels <- SomeLevels
    Mint = {m1}
    Chain = {c1}
    Program = {issuer}
    NoProgram = NoProgram
    Issuer <- OneIssuer
    Address = {treasury, stray}
    ZeroAddress = ZeroAddress
    NoRoute = NoRoute
    Forms <- LzForms
    Amounts = {200}
    Fees = {0}
    Dust = {0, 1, 2}
    Transactions <- LzTransactions
    BridgeSigner = BridgeSigner
    DomainLimit = 4
    MaxBalance = 200
    MaxSent = 2
CONSTRAINT
    LzBound
PROPERTIES
    LossIsSent
    WalletsGainNothing
    OneLossAtATime
