SPECIFICATION Spec
CONSTANTS
    T = T
    U = U
    V = V
    g1 = g1
    g2 = g2
    t1 = t1
    u1 = u1
    s1 = s1
    Bundles <- TwinBundles
    Coins <- TwinCoins
    Genesis <- TwinGenesis
    Removals <- TwinRemovals
    Additions <- TwinAdditions
    Fee <- TwinFee
    VirtualCost <- TwinVirtualCost
    NumSpends <- TwinNumSpends
    DedupKeys <- TwinDedupKeys
    BeforeHeight <- TwinBeforeHeight
    BeforeSeconds <- TwinBeforeSeconds
    AssertHeight <- TwinAssertHeight
    AssertSeconds <- TwinAssertSeconds
    Solutions = {s1}
    FpcScale = 6
    MaxU64 = 1000
    MaxTotalCost = 7
    MaxSpends = 5
    ProtectionBlocks = 1
    MaxDependencyDepth = 2
    MinRbfFeeBump = 2
    MaxHeight = 2
    MaxSeconds = 0
    Percents = {}
    Calls = {}
INVARIANTS
    NothingStale
