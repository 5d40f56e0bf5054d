-------------------------- MODULE AdmissionProofs ---------------------------
(* What admission makes of a pool that satisfies its invariants, whatever    *)
(* coin records, height and time the caller passed.                          *)
EXTENDS Admission, PoolIndexProofs

\* A wrapped sum is a number.
LEMMA WrappedNat == \A n \in Nat : Wrapped(n) \in Nat
BY BundleData DEF Wrapped

\* The item admission builds is an item, and its parents created its coins.
LEMMA NewItemOK ==
    ASSUME NEW p, PoolInv(p), NEW b \in Bundles, NEW known
    PROVE  /\ NewItem(p, b, known) \in ItemType
           /\ NewItem(p, b, known).depends_on = DependsOn(p, b, known)
           /\ \A x \in DependsOn(p, b, known) :
                /\ x \in Active(p)
                /\ Additions[x] \cap Removals[b] # {}
<1> DEFINE deps == DependsOn(p, b, known)
           present == deps \cap Active(p)
<1>1. IsPool(p) /\ Resolves(p)
    BY DEF PoolInv
<1>2. \A x \in deps : x \in Active(p) /\ Additions[x] \cap Removals[b] # {}
    BY <1>1 DEF DependsOn, CreatedInPool, Resolves
<1>3. IsFiniteSet(present) /\ deps \subseteq Bundles
    BY <1>1, <1>2, PoolTypes, FS_Subset
<1>4. \A x \in present : p.items[x] \in ItemType
    BY <1>1, PoolTypes
<1>5. Depth(p, deps) \in Nat
    <2> DEFINE depth == [x \in present |-> p.items[x].depth]
               depths == {depth[x] : x \in present}
    <2>1. depth \in Surjection(present, depths)
        BY DEF Surjection
    <2>2. IsFiniteSet(depths)
        BY <1>3, <2>1, FS_Surjection
    <2>3. depths \in SUBSET Nat
        BY <1>4 DEF ItemType
    <2>4. Highest(depths) \in Nat
        BY <2>2, <2>3, HighestBounds
    <2>5. depths = {p.items[x].depth : x \in deps \cap Active(p)}
        OBVIOUS
    <2> HIDE DEF depths, deps
    <2> QED BY <2>4, <2>5 DEF Depth
<1>6. ASSUME NEW f, f = [x \in present |-> f[x]], \A x \in present : f[x] \in Nat
      PROVE  Total(f, DOMAIN f) \in Nat
    <2>1. DOMAIN f = present
        BY <1>6
    <2> HIDE DEF present
    <2> QED BY <1>3, <1>6, <2>1, TotalNat
<1>7. PackageFee(p, b, deps) \in Nat
    <2> DEFINE fees == [x \in present |-> p.items[x].package_fee]
    <2>1. Total(fees, DOMAIN fees) \in Nat
        BY <1>4, <1>6 DEF ItemType
    <2> HIDE DEF fees
    <2>2. PackageFee(p, b, deps) = SatAdd(Fee[b], Wrapped(Total(fees, DOMAIN fees)))
        BY DEF PackageFee, fees
    <2> QED BY <2>1, <2>2, WrappedNat, DataTypes DEF SatAdd
<1>8. PackageVirtualCost(p, b, deps) \in Nat
    <2> DEFINE costs == [x \in present |-> p.items[x].package_virtual_cost]
    <2>1. Total(costs, DOMAIN costs) \in Nat
        BY <1>4, <1>6 DEF ItemType
    <2> HIDE DEF costs
    <2>2. PackageVirtualCost(p, b, deps)
            = SatAdd(VirtualCost[b], Wrapped(Total(costs, DOMAIN costs)))
        BY DEF PackageVirtualCost, costs
    <2> QED BY <2>1, <2>2, WrappedNat, DataTypes DEF SatAdd
<1> HIDE DEF deps
<1>9. NewItem(p, b, known) =
        [depends_on |-> deps, depth |-> Depth(p, deps),
         package_fee |-> PackageFee(p, b, deps),
         package_virtual_cost |-> PackageVirtualCost(p, b, deps),
         descendant_score |-> OwnFeeRate(b)]
    BY DEF NewItem, deps
<1> QED BY <1>2, <1>3, <1>5, <1>7, <1>8, <1>9, DataTypes DEF ItemType, deps

\* CPF-004 never finds a cycle: parents rank below their children.
LEMMA NoCycle ==
    ASSUME NEW p, PoolInv(p), NEW b \in Bundles, NEW known
    PROVE  ~ClosesCycle(p, b, DependsOn(p, b, known))
<1> DEFINE deps == DependsOn(p, b, known)
<1>1. PICK rank \in [Bundles -> 0..Cardinality(Bundles)] :
        \A x, y \in Bundles :
            Additions[x] \cap Removals[y] # {} => rank[x] < rank[y]
    BY NoHashCycle
<1>2. Cardinality(Bundles) \in Nat
    BY BundlesFinite, FS_CardinalityType
<1> DEFINE below == {x \in Bundles : rank[x] < rank[b]}
<1>3. IsPool(p)
    BY DEF PoolInv
<1>4. deps \subseteq below
    <2>1. \A x \in deps : x \in Active(p) /\ Additions[x] \cap Removals[b] # {}
        BY NewItemOK
    <2> QED BY <1>1, <1>3, <2>1, PoolTypes
<1>5. \A x \in below : Parents(p, x) \subseteq below
    <2> SUFFICES ASSUME NEW x \in below, NEW y \in Parents(p, x) PROVE y \in below
        OBVIOUS
    <2>1. y \in Bundles
        BY <1>3, PoolTypes
    <2>2. Additions[y] \cap Removals[x] # {}
        BY DEF Parents, PoolInv, LinksFollowCoins
    <2>3. rank[y] < rank[x] /\ rank[x] < rank[b]
        BY <1>1, <2>1, <2>2
    <2>4. rank[y] \in Int /\ rank[x] \in Int /\ rank[b] \in Int
        BY <1>1, <1>2, <2>1
    <2> QED BY <2>1, <2>3, <2>4
<1>6. b \notin below
    BY <1>1, <1>2
<1> HIDE DEF below, deps
<1>7. Closure(deps, LAMBDA x : Parents(p, x)) \subseteq below
    BY <1>4, <1>5 DEF below, Closure
<1> QED BY <1>6, <1>7 DEF ClosesCycle, deps

\* Nothing that admission prepares the pool for keeps a conflicting item.
LEMMA PreparedOK ==
    ASSUME NEW p, PoolInv(p), NEW b \in Bundles, NEW h, NEW q \in Prepared(p, b, h)
    PROVE  Remains(p, q) /\ Active(q) \cap Conflicts(p, b) = {}
<1> DEFINE K == Conflicts(p, b)
           r == Cascade(p, K)
<1>1. Remains(p, r) /\ Active(r) = Active(p) \ Descendants(p, K)
    BY RemoveAllKeeps DEF Cascade
<1>2. K \subseteq Bundles
    <2>1. \A c \in DOMAIN p.coinIndex : p.coinIndex[c] \in Bundles
        BY DEF PoolInv, IsPool, IsPartialFunction
    <2> QED BY <2>1 DEF Conflicts
<1>3. K \subseteq Descendants(p, K)
    BY <1>2 DEF Descendants, Closure
<1>4. PoolInv(r)
    BY <1>1 DEF Remains
<1>5. Remains(r, q)
    BY <1>4, MakeRoomRemains DEF Prepared
<1> QED BY <1>1, <1>3, <1>5, RemainsTransitive DEF Remains

\* The pools an accepted bundle is inserted in keep it out, and the spend
\* limit that was tested before eviction still holds after it.
LEMMA AdmittedKeeps ==
    ASSUME NEW p, PoolInv(p), NEW b \in Bundles, b \notin Active(p), NEW known,
           AdmissionError(p, b, known) = "none",
           NEW h, NEW q \in Prepared(p, b, h), Fits(q, b)
    PROVE  PoolInv(Admitted(p, q, b, known))
<1> DEFINE item == NewItem(p, b, known)
<1>1. Remains(p, q)
    BY PreparedOK
<1>2. PoolInv(q) /\ b \notin Active(q)
    BY <1>1 DEF Remains
<1>3. ~(SatAdd(p.totalSpends, NumSpends[b]) > MaxSpends)
    BY DEF AdmissionError
<1>4. SatAdd(q.totalSpends, NumSpends[b]) <= MaxSpends
    <2>1. p.totalSpends \in Nat /\ q.totalSpends \in Nat /\ NumSpends[b] \in Nat
        BY <1>2, BundleData, DataTypes DEF PoolInv, IsPool
    <2>2. q.totalSpends <= p.totalSpends
        BY <1>1 DEF Remains
    <2>3. MaxU64 \in Nat /\ MaxSpends \in Nat
        BY BundleData, LimitsFit
    <2> QED BY <1>3, <2>1, <2>2, <2>3 DEF SatAdd
<1>5. item \in ItemType
    BY NewItemOK
<1>6. \A x \in item.depends_on : Additions[x] \cap Removals[b] # {}
    BY NewItemOK
<1> HIDE DEF item
<1>7. PoolInv(RaiseScores(Insert(q, b, item), b))
    BY <1>2, <1>4, <1>5, <1>6, InsertKeeps
<1> QED BY <1>7 DEF Admitted, item

\* A new item scores its own rate, and its admission lowers no score.
LEMMA AdmittedCoversOwn ==
    ASSUME NEW p, PoolInv(p), ScoresCoverOwn(p), NEW b \in Bundles,
           b \notin Active(p), NEW known, NEW h, NEW q \in Prepared(p, b, h)
    PROVE  ScoresCoverOwn(Admitted(p, q, b, known))
<1> DEFINE item == NewItem(p, b, known)
<1>1. IsPool(q) /\ ScoresCoverOwn(q) /\ b \notin Active(q)
    BY PreparedOK DEF Remains, PoolInv
<1>2. item \in ItemType
    BY NewItemOK
<1>3. item.descendant_score = OwnFeeRate(b)
    BY DEF NewItem
<1> HIDE DEF item
<1>4. ScoresCoverOwn(RaiseScores(Insert(q, b, item), b))
    BY <1>1, <1>2, <1>3, InsertCoversOwn
<1> QED BY <1>4 DEF Admitted, item

\* An admission adds the bundle to what was prepared, and nothing else.
LEMMA AdmittedActive ==
    ASSUME NEW p, NEW q, NEW b, NEW known
    PROVE  Active(Admitted(p, q, b, known)) = Active(q) \cup {b}
<1> DEFINE item == NewItem(p, b, known)
           r == Insert(q, b, item)
<1>1. Active(r) = Active(q) \cup {b}
    BY DEF Insert, Active, Assign
<1>2. r = [items |-> r.items, coinIndex |-> r.coinIndex,
           mempoolCoins |-> r.mempoolCoins, dependents |-> r.dependents,
           totalCost |-> r.totalCost, totalFees |-> r.totalFees,
           totalSpends |-> r.totalSpends]
    BY DEF Insert
<1> HIDE DEF item, r
<1>3. DOMAIN RaiseScores(r, b).items = Active(r)
    BY <1>2 DEF RaiseScores
<1> QED BY <1>1, <1>3 DEF Admitted, Active, item, r

-----------------------------------------------------------------------------
(* No double spends, in a mempool without deduplication.                     *)
NoDedup == \A b \in Bundles : DedupKeys[b] = {}

\* Two bundles that are both indexed share no coin.
LEMMA IndexedCompatible ==
    ASSUME NEW p, Indexed(p)
    PROVE  Compatible(Active(p))
BY DEF Indexed, Compatible

\* The insertion of an accepted bundle keeps the index complete: whatever
\* shared a coin with it was found through the index and is gone.
LEMMA AdmittedIndexed ==
    ASSUME NoDedup, NEW p, PoolInv(p), Indexed(p), NEW b \in Bundles,
           b \notin Active(p), NEW known, NEW h, NEW q \in Prepared(p, b, h)
    PROVE  Indexed(Admitted(p, q, b, known))
<1> DEFINE item == NewItem(p, b, known)
<1>1. /\ PoolInv(q) /\ IsPool(q) /\ Indexed(q) /\ Active(q) \subseteq Active(p)
      /\ Active(q) \cap Conflicts(p, b) = {}
    BY PreparedOK DEF Remains, PoolInv
<1>2. item \in ItemType
    BY NewItemOK
<1>3. ASSUME NEW a \in Active(q) PROVE Removals[a] \cap Removals[b] = {}
    <2> SUFFICES ASSUME NEW c \in Removals[a], c \in Removals[b] PROVE FALSE
        OBVIOUS
    <2>1. a \in Active(p) /\ c \in DOMAIN p.coinIndex /\ p.coinIndex[c] = a
        BY <1>1 DEF Indexed
    <2>2. ~Waits(p, b, c)
        BY DEF NoDedup, Waits
    <2>3. a \notin Conflicts(p, b)
        BY <1>1
    <2> QED BY <2>1, <2>2, <2>3 DEF Conflicts
<1> HIDE DEF item
<1>4. b \notin Active(q)
    BY <1>1
<1>5. Indexed(RaiseScores(Insert(q, b, item), b))
    BY <1>1, <1>2, <1>3, <1>4, InsertIndexed
<1> QED BY <1>5 DEF Admitted, item
=============================================================================
