SPECIFICATION NodeSpec
CONSTANTS
    P = P
    C = C
    W = W
    g1 = g1
    p1 = p1
    s1 = s1
    t1 = t1
    Bundles <- HomeBundles
    Coins <- HomeCoins
    Genesis <- HomeGenesis
    Removals <- HomeRemovals
    Additions <- HomeAdditions
    Fee <- HomeFee
    VirtualCost <- HomeVirtualCost
    NumSpends <- HomeNumSpends
    DedupKeys <- HomeDedupKeys
    BeforeHeight <- HomeBeforeHeight
    BeforeSeconds <- HomeBeforeSeconds
    AssertHeight <- HomeAssertHeight
    AssertSeconds <- HomeAssertSeconds
    Cost <- HomeCost
    BucketLower <- HomeBucketLower
    Window = 2
    DecayNum = 3
    DecayDen = 4
    Solutions = {s1}
    FpcScale = 6
    MaxU64 = 1000
    MaxTotalCost = 3
    MaxSpends = 3
    ProtectionBlocks = 1
    MaxDependencyDepth = 2
    MinRbfFeeBump = 1
    MaxPendingCount = 2
    MaxPendingCost = 4
    MaxConflictCount = 2
    MaxConflictCost = 3
    MaxSeen = 2
    MaxHeight = 2
    MaxSeconds = 0
    MaxSnapshots = 1
    MaxRestarts = 1
    Callers = {t1}
    Concurrent = FALSE
    Calls = {"clear", "policy"}
INVARIANTS
    TypeOK
    InOnePlace
    NothingStaleOnceTold
    WindowHoldsLatest
    EstimateBracketed
PROPERTIES
    HandedBackCanReturn
    ActivePoolBetweenRestarts
