SPECIFICATION Spec
CONSTANTS
    P = P
    C = C
    D = D
    X = X
    Q = Q
    S = S
    Z = Z
    g1 = g1
    g2 = g2
    g3 = g3
    p1 = p1
    p2 = p2
    c1 = c1
    d1 = d1
    x1 = x1
    q1 = q1
    s1 = s1
    Bundles <- FamilyBundles
    Coins <- FamilyCoins
    Genesis <- FamilyGenesis
    Removals <- FamilyRemovals
    Additions <- FamilyAdditions
    Fee <- FamilyFee
    VirtualCost <- FamilyVirtualCost
    NumSpends <- FamilyNumSpends
    DedupKeys <- FamilyDedupKeys
    BeforeHeight <- FamilyBeforeHeight
    BeforeSeconds <- FamilyBeforeSeconds
    AssertHeight <- FamilyAssertHeight
    AssertSeconds <- FamilyAssertSeconds
    Solutions = {s1}
    FpcScale = 6
    MaxU64 = 1000
    MaxTotalCost = 7
    MaxSpends = 5
    ProtectionBlocks = 1
    MaxDependencyDepth = 2
    MinRbfFeeBump = 2
    MaxHeight = 2
    MaxSeconds = 1
    Percents = {10, 50}
    Calls <- AllCalls
INVARIANTS
    TypeOK
    AccountingExact
    CapacityRespected
    IndexesResolve
    NoDoubleSpend
    NothingStale
    CycleCheckIdle
PROPERTIES
    CascadeLeavesNoChild
    DisplacesLowestFirst
    ProtectedDisplacedByProtected
    EvictionFreesShare
