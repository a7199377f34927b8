\* The operator's two bridge tasks, beside the admin's own settings.
SPECIFICATION ClientSpec
CONSTANTS
    w1 = w1  p1 = p1  m1 = m1  c1 = c1
    issuer = issuer  circle = circle  ccip = ccip
    treasury = treasury  stray = stray
    Wallet = {w1}
    Admin = w1
    NoWallet = NoWallet
    Position = {p1}
    KeyLists <- NoLists
    AllowlistLen = 1
    Levels <- SomeLevels
    Mint = {m1}
    Chain = {c1}
    Program = {issuer, circle, ccip}
    NoProgram = NoProgram
    Issuer <- OneIssuer
    Address = {treasury, stray}
    ZeroAddress = ZeroAddress
    NoRoute = NoRoute
    Forms <- AdminForms
    Amounts = {250}
    Fees = {0}
    Dust = {0}
    Transactions <- NoTransactions
    BridgeSigner = BridgeSigner
    DomainLimit = 4
    MaxBalance = 250
    MaxSent = 1
    Profiles <- TheProfiles
    Circle = circle
    Flipped <- Other
INVARIANTS
    ClientAgrees
    LibraryMatchesProgram
PROPERTIES
    TamperedIsRefused
