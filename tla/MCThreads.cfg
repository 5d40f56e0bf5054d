SPECIFICATION Spec
CONSTANTS
    A = A
    R = R
    W = W
    X = X
    g1 = g1
    g2 = g2
    a1 = a1
    s1 = s1
    t1 = t1
    t2 = t2
    Bundles <- MoreBundles
    Coins <- FewCoins
    Genesis <- FewGenesis
    Removals <- MoreRemovals
    Additions <- MoreAdditions
    Fee <- MoreFee
    VirtualCost <- MoreVirtualCost
    NumSpends <- MoreNumSpends
    DedupKeys <- MoreDedupKeys
    BeforeHeight <- MoreBeforeHeight
    BeforeSeconds <- MoreBeforeSeconds
    AssertHeight <- MoreAssertHeight
    AssertSeconds <- MoreAssertSeconds
    Solutions = {s1}
    FpcScale = 6
    MaxU64 = 1000
    MaxTotalCost = 2
    MaxSpends = 3
    ProtectionBlocks = 1
    MaxDependencyDepth = 2
    MinRbfFeeBump = 1
    MaxPendingCount = 2
    MaxPendingCost = 2
    MaxConflictCount = 2
    MaxConflictCost = 3
    MaxSeen = 1
    MaxHeight = 1
    MaxSeconds = 0
    Callers = {t1, t2}
    Concurrent = TRUE
    Calls = {"drain", "clear"}
SYMMETRY Symmetric
VIEW Present
INVARIANTS
    ActiveConsistent
    PendingConsistent
    ConflictConsistent
PROPERTIES
    PromoteSeparates
    PendingGivesWay
