SPECIFICATION Spec
CONSTANTS
    P = P
    C = C
    D = D
    X = X
    Q = Q
    S = S
    Z = Z
    g1 = g1
    g2 = g2
    g3 = g3
    p1 = p1
    p2 = p2
    c1 = c1
    d1 = d1
    x1 = x1
    q1 = q1
    s1 = s1
    Bundles <- LineBundles
    Coins <- FamilyCoins
    Genesis <- FamilyGenesis
    Removals <- LineRemovals
    Additions <- LineAdditions
    Fee <- LineFee
    VirtualCost <- LineVirtualCost
    NumSpends <- LineNumSpends
    DedupKeys <- LineDedupKeys
    BeforeHeight <- LineBeforeHeight
    BeforeSeconds <- LineBeforeSeconds
    AssertHeight <- LineAssertHeight
    AssertSeconds <- LineAssertSeconds
    Solutions = {s1}
    FpcScale = 6
    MaxU64 = 1000
    MaxTotalCost = 8
    MaxSpends = 5
    ProtectionBlocks = 1
    MaxDependencyDepth = 2
    MinRbfFeeBump = 2
    MaxHeight = 2
    MaxSeconds = 1
    Percents = {}
    Calls = {}
INVARIANTS
    ScoresCoverDescendants
