SPECIFICATION Spec
CONSTANTS
    CoefficientBits = 10
    ExponentBits = 5
    WideBits = 20
    MaxAmount = 255
    MaxBranchHops = 2
    MaxTick = 7
    InitTick <- InitTickValue
    OneBits = 10
    RatioShift = 2
    TickFactor <- ThreeFactors
    TickSpacing = 3
    FourDecimals = 2
    FullPartials = 3
    Failed = Failed
    Ticks <- TwoTicks
    Minima <- BelowThem
    Partials <- SomeWay
    Fractions <- NearlyAll
    Collateral = 160
    Dust = 3
    FirstId = 3
    MaxBranches = 3
    MaxGap = 1
    MaxSteps = 6
    ClientHops = 2
    Missing = Missing
INVARIANTS
    LiveTypeOK
    AlwaysComputable
    QuietPlanSuffices
    ArithmeticFits
    SnapshotSurvives
    MirrorPricesNetDebt
PROPERTIES
    StoresWhatIsLeft
    EventuallyRefreshed
CHECK_DEADLOCK FALSE
