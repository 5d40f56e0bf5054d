SPECIFICATION Spec
CONSTANTS
    A = A
    R = R
    W = W
    X = X
    g1 = g1
    g2 = g2
    a1 = a1
    s1 = s1
    t1 = t1
    t2 = t2
    Bundles <- FewBundles
    Coins <- FewCoins
    Genesis <- FewGenesis
    Removals <- FewRemovals
    Additions <- FewAdditions
    Fee <- FewFee
    VirtualCost <- FewVirtualCost
    NumSpends <- FewNumSpends
    DedupKeys <- FewDedupKeys
    BeforeHeight <- FewBeforeHeight
    BeforeSeconds <- FewBeforeSeconds
    AssertHeight <- FewAssertHeight
    AssertSeconds <- FewAssertSeconds
    Solutions = {s1}
    FpcScale = 6
    MaxU64 = 1000
    MaxTotalCost = 2
    MaxSpends = 3
    ProtectionBlocks = 1
    MaxDependencyDepth = 2
    MinRbfFeeBump = 1
    MaxPendingCount = 2
    MaxPendingCost = 2
    MaxConflictCount = 2
    MaxConflictCost = 3
    MaxSeen = 2
    MaxHeight = 1
    MaxSeconds = 0
    Callers = {t1, t2}
    Concurrent = TRUE
    Calls = {}
PROPERTIES
    HandedBackCanReturn
