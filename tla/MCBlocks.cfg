SPECIFICATION BlocksSpec
CONSTANTS
    S1 = S1
    S2 = S2
    S3 = S3
    A = A
    B = B
    W = W
    g1 = g1
    g2 = g2
    g3 = g3
    g4 = g4
    s1c = s1c
    s2c = s2c
    x1 = x1
    a1 = a1
    one = one
    singleton = singleton
    none = none
    Bundles <- ChainBundles
    Coins <- ChainCoins
    Genesis <- ChainGenesis
    Removals <- ChainRemovals
    Additions <- ChainAdditions
    Fee <- ChainFee
    VirtualCost <- ChainVirtualCost
    NumSpends <- ChainNumSpends
    DedupKeys <- ChainDedupKeys
    BeforeHeight <- ChainBeforeHeight
    BeforeSeconds <- ChainBeforeSeconds
    AssertHeight <- ChainAssertHeight
    AssertSeconds <- ChainAssertSeconds
    Launcher <- ChainLauncher
    IdOrder <- ChainIdOrder
    NoLauncher = none
    Solutions = {one}
    FpcScale = 1
    MaxU64 = 1000
    MaxTotalCost = 5
    MaxSpends = 8
    ProtectionBlocks = 1
    MaxDependencyDepth = 2
    MinRbfFeeBump = 2
    BlockCosts = {2, 4}
    FullMinFeeRate = 1
    MaxHeight = 1
    MaxSeconds = 0
    Percents = {50}
    Calls <- WithRestore
VIEW WithoutAnswer
INVARIANTS
    TablesFollowItems
    BlocksWithinBudget
    BlocksStandAlone
    NothingLeftOut
PROPERTIES
    EstimateIsNeeded
    LineageLostByReturn
