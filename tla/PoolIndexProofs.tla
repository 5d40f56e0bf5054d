-------------------------- MODULE PoolIndexProofs --------------------------
(* The primitives of the active pool keep its invariants: whatever set of    *)
(* bundles is removed, by whichever path, and whatever item is inserted.     *)
(* Before that, facts about the operators of module Bundles: sums over finite *)
(* sets, maxima and least closed sets.                                       *)
EXTENDS PoolIndex, FiniteSetTheorems, TLAPS

\* A sum of naturals over a finite set is a natural.
LEMMA TotalNat ==
    ASSUME NEW S, IsFiniteSet(S), NEW f, \A b \in S : f[b] \in Nat
    PROVE  IsFiniteSet(Units(f, S)) /\ Total(f, S) \in Nat
<1> DEFINE block == [b \in S |-> {b} \X (1..f[b])]
           blocks == {block[b] : b \in S}
<1>1. IsFiniteSet(blocks)
    <2>1. block \in Surjection(S, blocks)
        BY DEF Surjection
    <2> QED BY <2>1, FS_Surjection
<1>2. \A T \in blocks : IsFiniteSet(T)
    <2> SUFFICES ASSUME NEW b \in S PROVE IsFiniteSet({b} \X (1..f[b]))
        OBVIOUS
    <2>1. f[b] \in Int
        OBVIOUS
    <2>2. IsFiniteSet(1..f[b])
        BY <2>1, FS_Interval
    <2>3. IsFiniteSet({b})
        BY FS_Singleton
    <2> QED BY <2>2, <2>3, FS_Product
<1>3. Units(f, S) = UNION blocks
    BY DEF Units
<1> HIDE DEF blocks
<1>4. IsFiniteSet(Units(f, S))
    BY <1>1, <1>2, <1>3, FS_UNION
<1> QED BY <1>4, FS_CardinalityType DEF Total

\* The sum over two disjoint sets is the sum of their sums.
LEMMA TotalUnion ==
    ASSUME NEW S, IsFiniteSet(S), NEW T, IsFiniteSet(T), S \cap T = {},
           NEW f, \A b \in S \cup T : f[b] \in Nat
    PROVE  Total(f, S \cup T) = Total(f, S) + Total(f, T)
<1>1. IsFiniteSet(Units(f, S)) /\ IsFiniteSet(Units(f, T))
    BY TotalNat
<1>2. Units(f, S \cup T) = Units(f, S) \cup Units(f, T)
    BY DEF Units
<1>3. Units(f, S) \cap Units(f, T) = {}
    BY DEF Units
<1>4. Cardinality(Units(f, S)) \in Nat /\ Cardinality(Units(f, T)) \in Nat
    BY <1>1, FS_CardinalityType
<1>5. Cardinality(Units(f, S) \cup Units(f, T))
        = Cardinality(Units(f, S)) + Cardinality(Units(f, T)) - Cardinality({})
    BY <1>1, <1>3, FS_Union
<1>6. Cardinality({}) = 0
    BY FS_EmptySet
<1>7. Total(f, S \cup T) = Cardinality(Units(f, S) \cup Units(f, T))
    BY <1>2 DEF Total
<1>8. Total(f, S) = Cardinality(Units(f, S)) /\ Total(f, T) = Cardinality(Units(f, T))
    BY DEF Total
<1> QED BY <1>4, <1>5, <1>6, <1>7, <1>8

\* The sum over one bundle.
LEMMA TotalSingle ==
    ASSUME NEW b, NEW f, f[b] \in Nat
    PROVE  Total(f, {b}) = f[b]
<1>1. Units(f, {b}) = {b} \X (1..f[b])
    BY DEF Units
<1>2. IsFiniteSet({b}) /\ Cardinality({b}) = 1
    BY FS_Singleton
<1> DEFINE n == f[b]
           J == 1..n
<1>3. IsFiniteSet(J) /\ Cardinality(J) = n
    <2>1. n \in Int /\ 1 \in Int
        OBVIOUS
    <2>2. IsFiniteSet(J) /\ Cardinality(J) = IF 1 > n THEN 0 ELSE n - 1 + 1
        BY <2>1, FS_Interval
    <2> QED BY <2>2
<1> HIDE DEF J
<1>4. Cardinality({b} \X J) = Cardinality({b}) * Cardinality(J)
    BY <1>2, <1>3, FS_Product
<1>5. Cardinality({b} \X J) = n
    BY <1>2, <1>3, <1>4
<1> QED BY <1>1, <1>5 DEF Total, J

\* Removing a part of a set takes its sum away, and no more than the whole.
LEMMA TotalRemove ==
    ASSUME NEW S, IsFiniteSet(S), NEW G \in SUBSET S,
           NEW f, \A b \in S : f[b] \in Nat
    PROVE  /\ Total(f, G) <= Total(f, S)
           /\ Total(f, S \ G) = Total(f, S) - Total(f, G)
<1>1. IsFiniteSet(G) /\ IsFiniteSet(S \ G)
    BY FS_Subset
<1>2. Total(f, (S \ G) \cup G) = Total(f, S \ G) + Total(f, G)
    BY <1>1, TotalUnion
<1>3. (S \ G) \cup G = S
    OBVIOUS
<1>4. Total(f, G) \in Nat /\ Total(f, S \ G) \in Nat
    BY <1>1, TotalNat
<1>5. Total(f, S) = Total(f, S \ G) + Total(f, G)
    BY <1>2, <1>3
<1> HIDE DEF Total
<1> QED BY <1>4, <1>5

\* Adding a bundle adds its value.
LEMMA TotalAdd ==
    ASSUME NEW S, IsFiniteSet(S), NEW b, b \notin S,
           NEW f, \A x \in S \cup {b} : f[x] \in Nat
    PROVE  Total(f, S \cup {b}) = Total(f, S) + f[b]
<1>1. IsFiniteSet({b}) /\ S \cap {b} = {}
    BY FS_Singleton
<1>2. Total(f, S \cup {b}) = Total(f, S) + Total(f, {b})
    BY <1>1, TotalUnion
<1> QED BY <1>2, TotalSingle

-----------------------------------------------------------------------------
\* A finite non-empty set of naturals has a largest member: a smallest
\* non-empty subset without one would lose it with any of its members.
LEMMA FiniteSetHasMax ==
    ASSUME NEW S \in SUBSET Nat, IsFiniteSet(S), S # {}
    PROVE  \E m \in S : \A x \in S : x <= m
<1> DEFINE HasMax(A) == \E m \in A : \A x \in A : x <= m
           bad == {A \in SUBSET S : A # {} /\ ~HasMax(A)}
<1> SUFFICES ASSUME bad # {} PROVE FALSE
    OBVIOUS
<1>1. bad \subseteq FiniteSubsetsOf(S)
    BY FS_Subset DEF FiniteSubsetsOf
<1>2. PICK A \in bad : \A B \in bad : <<B, A>> \notin StrictSubsetOrdering(S)
    BY <1>1, FS_StrictSubsetOrderingWellFounded, WFMin
<1>3. PICK a \in A : TRUE
    BY <1>2
<1>4. A \ {a} \notin bad
    BY <1>2, <1>3 DEF StrictSubsetOrdering
<1>5. CASE A = {a}
    BY <1>2, <1>3, <1>5
<1>6. CASE A # {a}
    <2>1. PICK m \in A \ {a} : \A x \in A \ {a} : x <= m
        BY <1>2, <1>3, <1>4, <1>6
    <2>2. a \in Nat /\ m \in Nat
        BY <1>2, <1>3, <2>1
    <2> QED BY <1>2, <1>3, <2>1, <2>2
<1> QED BY <1>5, <1>6

\* A non-empty set of naturals has a least member.
LEMMA LeastNatural ==
    ASSUME NEW S \in SUBSET Nat, S # {}
    PROVE  \E m \in S : \A x \in S : m <= x
<1>1. PICK m \in S : \A x \in S : ~(<<x, m>> \in OpToRel(<, Nat))
    BY NatLessThanWellFounded, WFMin
<1>2. \A x \in S : ~(x < m)
    BY <1>1 DEF OpToRel
<1> QED BY <1>2

\* Multiplication and division are monotonic, and division rounds down.
LEMMA ProductMonotonic ==
    ASSUME NEW v \in Nat, NEW x \in Nat, NEW y \in Nat, x <= y
    PROVE  v * x <= v * y
OBVIOUS

LEMMA QuotientTimes ==
    ASSUME NEW a \in Nat, NEW d \in Nat \ {0}
    PROVE  a \div d \in Nat /\ d * (a \div d) <= a
OBVIOUS

LEMMA QuotientMonotonic ==
    ASSUME NEW a \in Nat, NEW b \in Nat, NEW d \in Nat \ {0}, a <= b
    PROVE  a \div d <= b \div d
OBVIOUS

LEMMA QuotientBound ==
    ASSUME NEW a \in Nat, NEW d \in Nat \ {0}, NEW f \in Nat, a <= f * d
    PROVE  a \div d <= f
OBVIOUS

\* Highest returns a natural that bounds the set.
LEMMA HighestBounds ==
    ASSUME NEW S \in SUBSET Nat, IsFiniteSet(S)
    PROVE  Highest(S) \in Nat /\ \A x \in S : x <= Highest(S)
<1>1. IsFiniteSet(S \cup {0}) /\ S \cup {0} \in SUBSET Nat
    BY FS_AddElement
<1>2. \E m \in S \cup {0} : \A x \in S \cup {0} : x <= m
    BY <1>1, FiniteSetHasMax
<1> DEFINE T == S \cup {0}
<1>3. \E m \in T : \A x \in T : m >= x
    BY <1>1, <1>2
<1>4. Highest(S) = CHOOSE m \in T : \A x \in T : m >= x
    BY DEF Highest, Max
<1>5. Highest(S) \in T /\ \A x \in T : Highest(S) >= x
    BY <1>3, <1>4
<1> QED BY <1>1, <1>5

\* Fee rates are naturals.
LEMMA FeePerCostNat ==
    ASSUME NEW fee \in Nat, NEW cost \in Nat
    PROVE  FeePerCost(fee, cost) \in Nat
<1>1. FpcScale \in Nat
    BY BundleData
<1>2. fee * FpcScale \in Nat
    BY <1>1
<1> QED BY <1>2 DEF FeePerCost

-----------------------------------------------------------------------------
(* The invariants of a pool value.                                           *)

\* Recorded parents created a coin that their child spends.
LinksFollowCoins(p) ==
    \A b \in Active(p) : \A q \in p.items[b].depends_on :
        Additions[q] \cap Removals[b] # {}

\* The inductive part of the pool's invariants that holds with and without
\* deduplication.
PoolInv(p) ==
    /\ IsPool(p)
    /\ Accounts(p)
    /\ WithinLimits(p)
    /\ Resolves(p)
    /\ LinksFollowCoins(p)

\* Every coin an active bundle spends or creates is indexed for that bundle.
Indexed(p) ==
    \A b \in Active(p) :
        /\ \A c \in Removals[b] : c \in DOMAIN p.coinIndex /\ p.coinIndex[c] = b
        /\ \A c \in Additions[b] : c \in DOMAIN p.mempoolCoins /\ p.mempoolCoins[c] = b

\* q is what removals have left of p.
Remains(p, q) ==
    /\ PoolInv(q)
    /\ Active(q) \subseteq Active(p)
    /\ \A b \in Active(q) : q.items[b].depends_on = p.items[b].depends_on
    /\ q.totalSpends <= p.totalSpends
    /\ Indexed(p) => Indexed(q)
    /\ ScoresCoverOwn(p) => ScoresCoverOwn(q)

\* The widths of the bundle data.
LEMMA DataTypes ==
    ASSUME NEW b \in Bundles
    PROVE  /\ MaxU64 \in Nat
           /\ Fee[b] \in Nat /\ VirtualCost[b] \in Nat /\ NumSpends[b] \in Nat
           /\ Removals[b] \subseteq Coins
           /\ Additions[b] \subseteq Coins
           /\ OwnFeeRate(b) \in Nat
<1>1. /\ MaxU64 \in Nat
      /\ Fee[b] \in Nat /\ VirtualCost[b] \in Nat /\ NumSpends[b] \in Nat
      /\ Removals[b] \subseteq Coins /\ Additions[b] \subseteq Coins
    BY BundleData
<1> QED BY <1>1, FeePerCostNat DEF OwnFeeRate

\* The active bundles of a well-typed pool are finitely many, and its items
\* are items.
LEMMA PoolTypes ==
    ASSUME NEW p, IsPool(p)
    PROVE  /\ Active(p) \in SUBSET Bundles
           /\ IsFiniteSet(Active(p))
           /\ \A b \in Active(p) : p.items[b] \in ItemType
           /\ \A b \in Bundles : Children(p, b) \subseteq Bundles
           /\ \A b \in Bundles : Parents(p, b) \subseteq Bundles
<1>1. Active(p) \in SUBSET Bundles /\ \A b \in Active(p) : p.items[b] \in ItemType
    BY DEF IsPool, IsPartialFunction, Active
<1>2. IsFiniteSet(Active(p))
    BY <1>1, BundlesFinite, FS_Subset
<1>3. \A b \in Bundles : Children(p, b) \subseteq Bundles
    BY DEF IsPool, IsPartialFunction, Children
<1>4. \A b \in Bundles : Parents(p, b) \subseteq Bundles
    BY <1>1 DEF Parents, ItemType
<1> QED BY <1>1, <1>2, <1>3, <1>4

\* A recomputed score is a natural, and no lower than the item's own rate.
LEMMA RecomputedScoreNat ==
    ASSUME NEW p, IsPool(p), NEW b \in Bundles, NEW children
    PROVE  /\ RecomputedScore(p, b, children) \in Nat
           /\ RecomputedScore(p, b, children) >= OwnFeeRate(b)
<1> DEFINE present == children \cap Active(p)
           rate == [c \in present |-> PackageFeeRate(p.items[c])]
           rates == {rate[c] : c \in present}
<1>1. IsFiniteSet(present)
    BY PoolTypes, FS_Subset
<1>2. rate \in Surjection(present, rates)
    BY DEF Surjection
<1>3. IsFiniteSet(rates)
    BY <1>1, <1>2, FS_Surjection
<1>4. rates \subseteq Nat
    <2> SUFFICES ASSUME NEW c \in present PROVE PackageFeeRate(p.items[c]) \in Nat
        OBVIOUS
    <2>1. p.items[c] \in ItemType
        BY PoolTypes
    <2> QED BY <2>1, FeePerCostNat DEF PackageFeeRate, ItemType
<1>5. {OwnFeeRate(b)} \cup rates = rates \cup {OwnFeeRate(b)}
    OBVIOUS
<1>6. IsFiniteSet(rates \cup {OwnFeeRate(b)})
    BY <1>3, FS_AddElement
<1>7. rates \cup {OwnFeeRate(b)} \in SUBSET Nat
    BY <1>4, DataTypes
<1>8. RecomputedScore(p, b, children) = Highest(rates \cup {OwnFeeRate(b)})
    BY <1>5 DEF RecomputedScore
<1>9. OwnFeeRate(b) \in Nat
    BY DataTypes
<1> HIDE DEF rates
<1> QED BY <1>6, <1>7, <1>8, <1>9, HighestBounds

-----------------------------------------------------------------------------
\* What RemoveAll leaves: the other items, with their parents and their other
\* fields, and the index entries of the others.
LEMMA RemoveAllEffect ==
    ASSUME NEW p, IsPool(p), NEW S
    PROVE  LET q == RemoveAll(p, S)
               gone == S \cap Active(p)
           IN  /\ Active(q) = Active(p) \ gone
               /\ \A b \in Active(q) :
                    /\ q.items[b] \in ItemType
                    /\ q.items[b].depends_on = p.items[b].depends_on
               /\ q.coinIndex = Without(p.coinIndex, SpentBy(gone))
               /\ q.mempoolCoins = Without(p.mempoolCoins, CreatedBy(gone))
               /\ \A b \in DOMAIN q.dependents :
                    /\ b \in DOMAIN p.dependents
                    /\ q.dependents[b] = Children(p, b) \ gone
               /\ q.totalCost = SatSub(p.totalCost, Total(VirtualCost, gone))
               /\ q.totalFees = SatSub(p.totalFees, Total(Fee, gone))
               /\ q.totalSpends = SatSub(p.totalSpends, Total(NumSpends, gone))
<1> DEFINE q == RemoveAll(p, S)
           gone == S \cap Active(p)
<1>1. Active(q) = Active(p) \ gone
    BY DEF RemoveAll, Active
<1>2. ASSUME NEW b \in Active(q)
      PROVE  /\ q.items[b] \in ItemType
             /\ q.items[b].depends_on = p.items[b].depends_on
    <2>1. b \in Active(p) /\ b \in Bundles /\ p.items[b] \in ItemType
        BY <1>1, PoolTypes
    <2> DEFINE score == RecomputedScore(p, b, Children(p, b) \ gone)
    <2>2. score \in Nat
        BY <2>1, RecomputedScoreNat
    <2>3. \/ q.items[b] = [p.items[b] EXCEPT !.descendant_score = score]
          \/ q.items[b] = p.items[b]
        BY <1>1, <2>1 DEF RemoveAll, Active
    <2> HIDE DEF score, q
    <2> QED BY <2>1, <2>2, <2>3 DEF ItemType
<1>3. \A b \in DOMAIN q.dependents :
        /\ b \in DOMAIN p.dependents
        /\ q.dependents[b] = Children(p, b) \ gone
    BY DEF RemoveAll
<1>4. /\ q.coinIndex = Without(p.coinIndex, SpentBy(gone))
      /\ q.mempoolCoins = Without(p.mempoolCoins, CreatedBy(gone))
      /\ q.totalCost = SatSub(p.totalCost, Total(VirtualCost, gone))
      /\ q.totalFees = SatSub(p.totalFees, Total(Fee, gone))
      /\ q.totalSpends = SatSub(p.totalSpends, Total(NumSpends, gone))
    BY DEF RemoveAll
<1> QED BY <1>1, <1>2, <1>3, <1>4

\* Removal leaves the coins of the others indexed.
LEMMA RemoveAllIndexed ==
    ASSUME NEW p, IsPool(p), Indexed(p), NEW S
    PROVE  Indexed(RemoveAll(p, S))
<1> DEFINE q == RemoveAll(p, S)
           gone == S \cap Active(p)
<1>1. /\ Active(q) = Active(p) \ gone
      /\ q.coinIndex = Without(p.coinIndex, SpentBy(gone))
      /\ q.mempoolCoins = Without(p.mempoolCoins, CreatedBy(gone))
    BY RemoveAllEffect
<1>2. Active(p) \subseteq Bundles
    BY PoolTypes
<1> HIDE DEF q
<1>3. ASSUME NEW b \in Active(q), NEW g \in gone
      PROVE  Removals[b] \cap Removals[g] = {} /\ Additions[b] \cap Additions[g] = {}
    <2>1. Removals[b] \cap Removals[g] = {}
        BY <1>1 DEF Indexed
    <2> QED BY <1>1, <1>2, <2>1, CreatedByOneSpend
<1>4. ASSUME NEW b \in Active(q), NEW c \in Removals[b]
      PROVE  c \in DOMAIN q.coinIndex /\ q.coinIndex[c] = b
    <2>1. c \in DOMAIN p.coinIndex /\ p.coinIndex[c] = b
        BY <1>1 DEF Indexed
    <2>2. c \notin SpentBy(gone)
        BY <1>3 DEF SpentBy
    <2> QED BY <1>1, <2>1, <2>2 DEF Without
<1>5. ASSUME NEW b \in Active(q), NEW c \in Additions[b]
      PROVE  c \in DOMAIN q.mempoolCoins /\ q.mempoolCoins[c] = b
    <2>1. c \in DOMAIN p.mempoolCoins /\ p.mempoolCoins[c] = b
        BY <1>1 DEF Indexed
    <2>2. c \notin CreatedBy(gone)
        BY <1>3 DEF CreatedBy
    <2> QED BY <1>1, <2>1, <2>2 DEF Without
<1> QED BY <1>4, <1>5 DEF Indexed, q

\* Removal recomputes no score below an item's own rate.
LEMMA RemoveAllCoversOwn ==
    ASSUME NEW p, IsPool(p), ScoresCoverOwn(p), NEW S
    PROVE  ScoresCoverOwn(RemoveAll(p, S))
<1> DEFINE q == RemoveAll(p, S)
           gone == S \cap Active(p)
<1> SUFFICES ASSUME NEW b \in Active(q)
             PROVE  Score(q, b) >= OwnFeeRate(b)
    BY DEF ScoresCoverOwn
<1>1. b \in Active(p) /\ b \in Bundles /\ p.items[b] \in ItemType
    <2>1. Active(q) = Active(p) \ gone
        BY RemoveAllEffect
    <2> QED BY <2>1, PoolTypes
<1> DEFINE score == RecomputedScore(p, b, Children(p, b) \ gone)
<1>2. score \in Nat /\ score >= OwnFeeRate(b)
    BY <1>1, RecomputedScoreNat
<1>3. \/ q.items[b] = [p.items[b] EXCEPT !.descendant_score = score]
      \/ q.items[b] = p.items[b]
    BY <1>1 DEF RemoveAll, Active
<1> HIDE DEF score, q
<1>4. q.items[b].descendant_score \in {score, p.items[b].descendant_score}
    BY <1>1, <1>3 DEF ItemType
<1> QED BY <1>1, <1>2, <1>4 DEF ScoresCoverOwn, Score

\* Removing a set of bundles keeps the pool's invariants.
LEMMA RemoveAllKeeps ==
    ASSUME NEW p, PoolInv(p), NEW S
    PROVE  /\ PoolInv(RemoveAll(p, S))
           /\ Remains(p, RemoveAll(p, S))
           /\ Active(RemoveAll(p, S)) = Active(p) \ S
<1> DEFINE q == RemoveAll(p, S)
           gone == S \cap Active(p)
<1>1. /\ IsPool(p) /\ Accounts(p) /\ WithinLimits(p) /\ Resolves(p)
      /\ LinksFollowCoins(p)
    BY DEF PoolInv
<1>2. /\ Active(q) = Active(p) \ gone
      /\ \A b \in Active(q) :
            /\ q.items[b] \in ItemType
            /\ q.items[b].depends_on = p.items[b].depends_on
      /\ q.coinIndex = Without(p.coinIndex, SpentBy(gone))
      /\ q.mempoolCoins = Without(p.mempoolCoins, CreatedBy(gone))
      /\ \A b \in DOMAIN q.dependents :
            /\ b \in DOMAIN p.dependents
            /\ q.dependents[b] = Children(p, b) \ gone
      /\ q.totalCost = SatSub(p.totalCost, Total(VirtualCost, gone))
      /\ q.totalFees = SatSub(p.totalFees, Total(Fee, gone))
      /\ q.totalSpends = SatSub(p.totalSpends, Total(NumSpends, gone))
    BY <1>1, RemoveAllEffect
<1>3. q.dependents = [b \in DOMAIN q.dependents |-> q.dependents[b]]
    BY DEF RemoveAll
<1>4. q.items = [b \in DOMAIN q.items |-> q.items[b]]
    BY DEF RemoveAll
<1> HIDE DEF q, gone
<1>5. /\ Active(p) \in SUBSET Bundles /\ IsFiniteSet(Active(p))
      /\ gone \in SUBSET Active(p)
    BY <1>1, PoolTypes DEF gone
<1>6. ASSUME NEW f, \A b \in Active(p) : f[b] \in Nat
      PROVE  /\ Total(f, gone) <= Total(f, Active(p))
             /\ Total(f, Active(q)) = Total(f, Active(p)) - Total(f, gone)
             /\ Total(f, gone) \in Nat /\ Total(f, Active(p)) \in Nat
             /\ Total(f, Active(q)) \in Nat
    <2>1. IsFiniteSet(gone) /\ IsFiniteSet(Active(q))
        BY <1>2, <1>5, FS_Subset
    <2>2. /\ Total(f, gone) <= Total(f, Active(p))
          /\ Total(f, Active(p) \ gone) = Total(f, Active(p)) - Total(f, gone)
        BY <1>5, <1>6, TotalRemove
    <2>3. /\ Total(f, gone) \in Nat /\ Total(f, Active(p)) \in Nat
          /\ Total(f, Active(q)) \in Nat
        BY <1>2, <1>5, <1>6, <2>1, TotalNat
    <2> QED BY <1>2, <2>2, <2>3
<1>7. \A b \in Active(p) :
        VirtualCost[b] \in Nat /\ Fee[b] \in Nat /\ NumSpends[b] \in Nat
    BY <1>5, DataTypes
<1>8. Accounts(q)
    <2>1. q.totalCost = Total(VirtualCost, Active(q))
        <3>1. /\ Total(VirtualCost, gone) <= Total(VirtualCost, Active(p))
              /\ Total(VirtualCost, Active(q)) = Total(VirtualCost, Active(p)) - Total(VirtualCost, gone)
              /\ Total(VirtualCost, gone) \in Nat /\ Total(VirtualCost, Active(p)) \in Nat
            BY <1>6, <1>7
        <3>2. p.totalCost = Total(VirtualCost, Active(p))
            BY <1>1 DEF Accounts
        <3> QED BY <1>2, <3>1, <3>2 DEF SatSub
    <2>2. q.totalFees = Total(Fee, Active(q))
        <3>1. /\ Total(Fee, gone) <= Total(Fee, Active(p))
              /\ Total(Fee, Active(q)) = Total(Fee, Active(p)) - Total(Fee, gone)
              /\ Total(Fee, gone) \in Nat /\ Total(Fee, Active(p)) \in Nat
            BY <1>6, <1>7
        <3>2. p.totalFees = Total(Fee, Active(p))
            BY <1>1 DEF Accounts
        <3> QED BY <1>2, <3>1, <3>2 DEF SatSub
    <2>3. q.totalSpends = Total(NumSpends, Active(q))
        <3>1. /\ Total(NumSpends, gone) <= Total(NumSpends, Active(p))
              /\ Total(NumSpends, Active(q)) = Total(NumSpends, Active(p)) - Total(NumSpends, gone)
              /\ Total(NumSpends, gone) \in Nat /\ Total(NumSpends, Active(p)) \in Nat
            BY <1>6, <1>7
        <3>2. p.totalSpends = Total(NumSpends, Active(p))
            BY <1>1 DEF Accounts
        <3> QED BY <1>2, <3>1, <3>2 DEF SatSub
    <2> QED BY <2>1, <2>2, <2>3 DEF Accounts
<1>9. WithinLimits(q) /\ q.totalSpends <= p.totalSpends
    <2>1. /\ Total(VirtualCost, Active(q)) <= Total(VirtualCost, Active(p))
          /\ Total(NumSpends, Active(q)) <= Total(NumSpends, Active(p))
          /\ Total(VirtualCost, Active(q)) \in Nat /\ Total(NumSpends, Active(q)) \in Nat
          /\ Total(VirtualCost, Active(p)) \in Nat /\ Total(NumSpends, Active(p)) \in Nat
        BY <1>6, <1>7
    <2>2. MaxTotalCost \in Nat /\ MaxSpends \in Nat
        BY LimitsFit
    <2> QED BY <1>1, <1>8, <2>1, <2>2 DEF WithinLimits, Accounts
<1>10. Resolves(q)
    <2>1. ASSUME NEW c \in DOMAIN q.coinIndex
          PROVE  q.coinIndex[c] \in Active(q) /\ c \in Removals[q.coinIndex[c]]
        <3>1. /\ c \in DOMAIN p.coinIndex /\ c \notin SpentBy(gone)
              /\ q.coinIndex[c] = p.coinIndex[c]
            BY <1>2, <2>1 DEF Without
        <3> QED BY <1>1, <1>2, <3>1 DEF Resolves, SpentBy
    <2>2. ASSUME NEW c \in DOMAIN q.mempoolCoins
          PROVE  q.mempoolCoins[c] \in Active(q) /\ c \in Additions[q.mempoolCoins[c]]
        <3>1. /\ c \in DOMAIN p.mempoolCoins /\ c \notin CreatedBy(gone)
              /\ q.mempoolCoins[c] = p.mempoolCoins[c]
            BY <1>2, <2>2 DEF Without
        <3> QED BY <1>1, <1>2, <3>1 DEF Resolves, CreatedBy
    <2>3. ASSUME NEW x \in DOMAIN q.dependents, NEW b \in q.dependents[x]
          PROVE  b \in Active(q) /\ x \in q.items[b].depends_on
        <3>1. x \in DOMAIN p.dependents /\ b \in p.dependents[x] /\ b \notin gone
            BY <1>2, <2>3 DEF Children
        <3> QED BY <1>1, <1>2, <3>1 DEF Resolves
    <2> QED BY <2>1, <2>2, <2>3 DEF Resolves
<1>11. LinksFollowCoins(q)
    BY <1>1, <1>2 DEF LinksFollowCoins
<1>12. IsPool(q)
    <2>1. IsPartialFunction(q.items, Bundles, ItemType)
        BY <1>2, <1>4, <1>5 DEF IsPartialFunction, Active
    <2>2. IsPartialFunction(q.coinIndex, Coins, Bundles)
        BY <1>1, <1>2 DEF IsPool, IsPartialFunction, Without
    <2>3. IsPartialFunction(q.mempoolCoins, Coins, Bundles)
        BY <1>1, <1>2 DEF IsPool, IsPartialFunction, Without
    <2>4. IsPartialFunction(q.dependents, Bundles, SUBSET Bundles)
        <3>1. DOMAIN q.dependents \subseteq Bundles
            BY <1>1, <1>2 DEF IsPool, IsPartialFunction
        <3>2. \A b \in DOMAIN q.dependents : q.dependents[b] \in SUBSET Bundles
            BY <1>1, <1>2, <3>1, PoolTypes
        <3> QED BY <1>3, <3>1, <3>2 DEF IsPartialFunction
    <2>5. {q.totalCost, q.totalFees, q.totalSpends} \subseteq 0..MaxU64
        <3>1. {p.totalCost, p.totalFees, p.totalSpends} \subseteq 0..MaxU64
            BY <1>1 DEF IsPool
        <3>2. /\ Total(VirtualCost, gone) \in Nat /\ Total(Fee, gone) \in Nat
              /\ Total(NumSpends, gone) \in Nat
            BY <1>6, <1>7
        <3> HIDE DEF Total
        <3> QED BY <1>2, <3>1, <3>2, BundleData DEF SatSub
    <2> QED BY <2>1, <2>2, <2>3, <2>4, <2>5 DEF IsPool
<1>13. PoolInv(q)
    BY <1>8, <1>9, <1>10, <1>11, <1>12 DEF PoolInv
<1>14. Active(q) = Active(p) \ S
    BY <1>2 DEF gone
<1>15. Indexed(p) => Indexed(q)
    BY <1>1, RemoveAllIndexed DEF q
<1>16. ScoresCoverOwn(p) => ScoresCoverOwn(q)
    BY <1>1, RemoveAllCoversOwn DEF q
<1> QED BY <1>2, <1>9, <1>13, <1>14, <1>15, <1>16 DEF Remains, q

-----------------------------------------------------------------------------
(* Removals one by one.                                                      *)

\* The children recorded for what stays.
LEMMA RemoveAllChildren ==
    ASSUME NEW p, NEW S, NEW x, x \notin S \cap Active(p)
    PROVE  Children(RemoveAll(p, S), x) = Children(p, x) \ (S \cap Active(p))
<1> DEFINE q == RemoveAll(p, S)
           gone == S \cap Active(p)
<1>1. q.dependents =
        [y \in {z \in DOMAIN p.dependents \ gone : Children(p, z) \ gone # {}} |->
            Children(p, y) \ gone]
    BY DEF RemoveAll
<1> SUFFICES Children(q, x) = Children(p, x) \ gone
    OBVIOUS
<1> HIDE DEF q
<1>2. CASE x \in DOMAIN p.dependents /\ Children(p, x) \ gone # {}
    BY <1>1, <1>2 DEF Children
<1>3. CASE ~(x \in DOMAIN p.dependents /\ Children(p, x) \ gone # {})
    <2>1. Children(p, x) \ gone = {}
        BY <1>3 DEF Children
    <2>2. x \notin DOMAIN q.dependents
        BY <1>1, <2>1
    <2> QED BY <2>1, <2>2 DEF Children
<1> QED BY <1>2, <1>3

\* remove() of one set and then of another is remove() of both: whatever the
\* order in which a series of bundles is removed, the maps, the accumulators
\* and the scores that are recomputed each time come out the same.
THEOREM RemovalsCompose ==
    ASSUME NEW p, PoolInv(p), NEW S, NEW T
    PROVE  RemoveAll(RemoveAll(p, S), T) = RemoveAll(p, S \cup T)
<1> DEFINE q == RemoveAll(p, S)
           r == RemoveAll(q, T)
           both == RemoveAll(p, S \cup T)
           first == S \cap Active(p)
           second == T \cap Active(q)
           gone == (S \cup T) \cap Active(p)
<1>1. IsPool(p) /\ Resolves(p)
    BY DEF PoolInv
<1>2. /\ IsPool(q)
      /\ Active(q) = Active(p) \ first
      /\ \A b \in Active(q) : q.items[b].depends_on = p.items[b].depends_on
    <2>1. Remains(p, q) /\ Active(q) = Active(p) \ S
        BY RemoveAllKeeps
    <2> HIDE DEF q
    <2> QED BY <2>1 DEF Remains, PoolInv
<1>3. gone = first \cup second /\ first \cap second = {}
    BY <1>2
<1>4. /\ Active(p) \subseteq Bundles /\ IsFiniteSet(Active(p))
      /\ \A b \in Active(p) : p.items[b] \in ItemType
    BY <1>1, PoolTypes
<1>5. \A b \in Active(p) \ first : Children(q, b) = Children(p, b) \ first
    BY RemoveAllChildren
<1>6. ASSUME NEW b \in Active(p) \ gone PROVE r.items[b] = both.items[b]
    <2> DEFINE recomputed(i, x) == [i EXCEPT !.descendant_score = x]
               early == RecomputedScore(p, b, Children(p, b) \ first)
               late == RecomputedScore(p, b, Children(p, b) \ gone)
               bereaved1 == \E c \in first : b \in p.items[c].depends_on
               bereaved2 == \E c \in second : b \in p.items[c].depends_on
    <2>1. b \in Active(p) \ first /\ b \in Active(q) \ second /\ p.items[b] \in ItemType
        BY <1>2, <1>3, <1>4, <1>6
    <2>2. \A c \in Active(q) :
            q.items[c] = IF c \in {x \in Active(p) \ first :
                                    \E d \in first : x \in p.items[d].depends_on}
                         THEN recomputed(p.items[c],
                                  RecomputedScore(p, c, Children(p, c) \ first))
                         ELSE p.items[c]
        BY <1>2 DEF RemoveAll, Active
    <2>3. q.items[b] = IF bereaved1 THEN recomputed(p.items[b], early) ELSE p.items[b]
        BY <2>1, <2>2
    <2>4. both.items[b] = IF bereaved1 \/ bereaved2 THEN recomputed(p.items[b], late)
                          ELSE p.items[b]
        <3>1. both.items[b] = IF \E c \in gone : b \in p.items[c].depends_on
                              THEN recomputed(p.items[b], late) ELSE p.items[b]
            BY <1>6 DEF RemoveAll, Active
        <3> HIDE DEF both, gone, first, second, recomputed, late
        <3> QED BY <1>3, <3>1
    <2>5. Children(q, b) \ second = Children(p, b) \ gone
        BY <1>3, <1>5, <2>1
    <2>6. RecomputedScore(q, b, Children(q, b) \ second) = late
        <3> DEFINE left == Children(p, b) \ gone
        <3>1. left \cap Active(q) = left \cap Active(p)
            BY <1>2, <1>3
        <3>2. \A c \in Active(q) : PackageFeeRate(q.items[c]) = PackageFeeRate(p.items[c])
            <4> SUFFICES ASSUME NEW c \in Active(q)
                         PROVE  PackageFeeRate(q.items[c]) = PackageFeeRate(p.items[c])
                OBVIOUS
            <4> DEFINE x == RecomputedScore(p, c, Children(p, c) \ first)
            <4>1. q.items[c] = recomputed(p.items[c], x) \/ q.items[c] = p.items[c]
                BY <2>2
            <4> HIDE DEF x, q
            <4>2. p.items[c] \in ItemType
                BY <1>2, <1>4
            <4> QED BY <4>1, <4>2 DEF PackageFeeRate, ItemType
        <3> HIDE DEF left, q
        <3>3. RecomputedScore(q, b, left) = RecomputedScore(p, b, left)
            BY <3>1, <3>2 DEF RecomputedScore
        <3> QED BY <2>5, <3>3 DEF left
    <2>7. r.items[b] = IF bereaved2 THEN recomputed(q.items[b], late) ELSE q.items[b]
        <3> HIDE DEF q, late
        <3>1. r.items[b] = IF \E c \in second : b \in q.items[c].depends_on
                           THEN recomputed(q.items[b],
                                    RecomputedScore(q, b, Children(q, b) \ second))
                           ELSE q.items[b]
            BY <2>1 DEF RemoveAll, Active
        <3>2. (\E c \in second : b \in q.items[c].depends_on) <=> bereaved2
            BY <1>2
        <3> HIDE DEF r, second, bereaved2, recomputed
        <3> QED BY <2>6, <3>1, <3>2
    <2>8. ~bereaved2 => early = late
        <3> SUFFICES ASSUME ~bereaved2 PROVE Children(p, b) \ first = Children(p, b) \ gone
            BY DEF RecomputedScore
        <3>1. \A c \in Children(p, b) : b \in p.items[c].depends_on
            BY <1>1 DEF Resolves, Children
        <3> HIDE DEF gone, first, second
        <3> QED BY <1>3, <3>1
    <2> HIDE DEF q, r, both, first, second, gone, early, late, bereaved1, bereaved2
    <2>9. recomputed(recomputed(p.items[b], early), late) = recomputed(p.items[b], late)
        BY <2>1 DEF ItemType
    <2> HIDE DEF recomputed
    <2> QED BY <2>3, <2>4, <2>7, <2>8, <2>9
<1>7. r.items = both.items
    <2>1. both.items = [b \in DOMAIN both.items |-> both.items[b]]
        BY DEF RemoveAll
    <2>2. DOMAIN both.items = Active(p) \ gone
        BY DEF RemoveAll, Active
    <2> HIDE DEF q, both, gone
    <2>3. r.items = [b \in DOMAIN r.items |-> r.items[b]]
        BY DEF RemoveAll
    <2>4. DOMAIN r.items = Active(q) \ second
        BY DEF RemoveAll, Active
    <2> HIDE DEF r, first, second
    <2>5. DOMAIN r.items = DOMAIN both.items
        BY <1>2, <1>3, <2>2, <2>4
    <2> QED BY <1>6, <2>1, <2>2, <2>3, <2>5
<1>8. r.coinIndex = both.coinIndex /\ r.mempoolCoins = both.mempoolCoins
    <2>1. /\ q.coinIndex = Without(p.coinIndex, SpentBy(first))
          /\ q.mempoolCoins = Without(p.mempoolCoins, CreatedBy(first))
          /\ r.coinIndex = Without(q.coinIndex, SpentBy(second))
          /\ r.mempoolCoins = Without(q.mempoolCoins, CreatedBy(second))
          /\ both.coinIndex = Without(p.coinIndex, SpentBy(gone))
          /\ both.mempoolCoins = Without(p.mempoolCoins, CreatedBy(gone))
        BY DEF RemoveAll
    <2> HIDE DEF q, r, both, first, second, gone
    <2>2. /\ SpentBy(gone) = SpentBy(first) \cup SpentBy(second)
          /\ CreatedBy(gone) = CreatedBy(first) \cup CreatedBy(second)
        BY <1>3 DEF SpentBy, CreatedBy
    <2>3. \A f, A, B : Without(Without(f, A), B) = Without(f, A \cup B)
        BY DEF Without
    <2> QED BY <2>1, <2>2, <2>3
<1>9. r.dependents = both.dependents
    <2>1. r.dependents =
            [x \in {y \in DOMAIN q.dependents \ second : Children(q, y) \ second # {}} |->
                Children(q, x) \ second]
        BY DEF RemoveAll
    <2>2. q.dependents =
            [x \in {y \in DOMAIN p.dependents \ first : Children(p, y) \ first # {}} |->
                Children(p, x) \ first]
        BY DEF RemoveAll
    <2>3. both.dependents =
            [x \in {y \in DOMAIN p.dependents \ gone : Children(p, y) \ gone # {}} |->
                Children(p, x) \ gone]
        BY DEF RemoveAll
    <2>4. \A x : x \notin first => Children(q, x) = Children(p, x) \ first
        BY RemoveAllChildren
    <2> HIDE DEF q, r, both, first, second, gone
    <2>5. \A x : x \notin first => Children(q, x) \ second = Children(p, x) \ gone
        BY <1>3, <2>4
    <2>6. {y \in DOMAIN q.dependents \ second : Children(q, y) \ second # {}}
            = {y \in DOMAIN p.dependents \ gone : Children(p, y) \ gone # {}}
        BY <1>3, <2>2, <2>5
    <2>7. \A x \in {y \in DOMAIN p.dependents \ gone : Children(p, y) \ gone # {}} :
            Children(q, x) \ second = Children(p, x) \ gone
        BY <1>3, <2>5
    <2> QED BY <2>1, <2>3, <2>6, <2>7
<1>10. /\ r.totalCost = both.totalCost
       /\ r.totalFees = both.totalFees
       /\ r.totalSpends = both.totalSpends
    <2>1. ASSUME NEW f, \A b \in Active(p) : f[b] \in Nat
          PROVE  /\ Total(f, gone) = Total(f, first) + Total(f, second)
                 /\ Total(f, first) \in Nat /\ Total(f, second) \in Nat
        <3>1. IsFiniteSet(first) /\ IsFiniteSet(second)
            BY <1>2, <1>4, FS_Subset
        <3>2. \A b \in first \cup second : f[b] \in Nat
            BY <1>2, <2>1
        <3> HIDE DEF first, second, gone
        <3> QED BY <1>3, <3>1, <3>2, TotalUnion, TotalNat
    <2>2. \A b \in Active(p) :
            VirtualCost[b] \in Nat /\ Fee[b] \in Nat /\ NumSpends[b] \in Nat
        BY <1>4, DataTypes
    <2>3. \A t, x, y \in Nat : SatSub(SatSub(t, x), y) = SatSub(t, x + y)
        BY DEF SatSub
    <2>4. p.totalCost \in Nat /\ p.totalFees \in Nat /\ p.totalSpends \in Nat
        BY <1>1, BundleData DEF IsPool
    <2>5. /\ q.totalCost = SatSub(p.totalCost, Total(VirtualCost, first))
          /\ q.totalFees = SatSub(p.totalFees, Total(Fee, first))
          /\ q.totalSpends = SatSub(p.totalSpends, Total(NumSpends, first))
          /\ r.totalCost = SatSub(q.totalCost, Total(VirtualCost, second))
          /\ r.totalFees = SatSub(q.totalFees, Total(Fee, second))
          /\ r.totalSpends = SatSub(q.totalSpends, Total(NumSpends, second))
          /\ both.totalCost = SatSub(p.totalCost, Total(VirtualCost, gone))
          /\ both.totalFees = SatSub(p.totalFees, Total(Fee, gone))
          /\ both.totalSpends = SatSub(p.totalSpends, Total(NumSpends, gone))
        BY DEF RemoveAll
    <2> HIDE DEF q, r, both, first, second, gone
    <2>6. r.totalCost = both.totalCost
        <3>1. /\ Total(VirtualCost, gone) = Total(VirtualCost, first) + Total(VirtualCost, second)
              /\ Total(VirtualCost, first) \in Nat /\ Total(VirtualCost, second) \in Nat
            BY <2>1, <2>2
        <3>2. SatSub(SatSub(p.totalCost, Total(VirtualCost, first)), Total(VirtualCost, second))
                = SatSub(p.totalCost, Total(VirtualCost, first) + Total(VirtualCost, second))
            BY <2>3, <2>4, <3>1
        <3> QED BY <2>5, <3>1, <3>2, Zenon
    <2>7. r.totalFees = both.totalFees
        <3>1. /\ Total(Fee, gone) = Total(Fee, first) + Total(Fee, second)
              /\ Total(Fee, first) \in Nat /\ Total(Fee, second) \in Nat
            BY <2>1, <2>2
        <3>2. SatSub(SatSub(p.totalFees, Total(Fee, first)), Total(Fee, second))
                = SatSub(p.totalFees, Total(Fee, first) + Total(Fee, second))
            BY <2>3, <2>4, <3>1
        <3> QED BY <2>5, <3>1, <3>2, Zenon
    <2>8. r.totalSpends = both.totalSpends
        <3>1. /\ Total(NumSpends, gone) = Total(NumSpends, first) + Total(NumSpends, second)
              /\ Total(NumSpends, first) \in Nat /\ Total(NumSpends, second) \in Nat
            BY <2>1, <2>2
        <3>2. SatSub(SatSub(p.totalSpends, Total(NumSpends, first)), Total(NumSpends, second))
                = SatSub(p.totalSpends, Total(NumSpends, first) + Total(NumSpends, second))
            BY <2>3, <2>4, <3>1
        <3> QED BY <2>5, <3>1, <3>2, Zenon
    <2> QED BY <2>6, <2>7, <2>8
<1>11. /\ r = [items |-> r.items, coinIndex |-> r.coinIndex,
               mempoolCoins |-> r.mempoolCoins, dependents |-> r.dependents,
               totalCost |-> r.totalCost, totalFees |-> r.totalFees,
               totalSpends |-> r.totalSpends]
       /\ both = [items |-> both.items, coinIndex |-> both.coinIndex,
                  mempoolCoins |-> both.mempoolCoins, dependents |-> both.dependents,
                  totalCost |-> both.totalCost, totalFees |-> both.totalFees,
                  totalSpends |-> both.totalSpends]
    BY DEF RemoveAll
<1> HIDE DEF r, both
<1>12. r = both
    BY <1>7, <1>8, <1>9, <1>10, <1>11
<1> QED BY <1>12 DEF r, both

\* cascade_evict() for one set and then for another takes what one walk from
\* both would take: the order in which a block's spenders, or the losers of a
\* replacement, are walked makes no difference, though every walk changes the
\* graph that the next one follows.
THEOREM CascadesCompose ==
    ASSUME NEW p, PoolInv(p), NEW S \in SUBSET Bundles, NEW T \in SUBSET Bundles
    PROVE  Cascade(Cascade(p, S), T) = Cascade(p, S \cup T)
<1> DEFINE q == Cascade(p, S)
           A == Descendants(p, S)
           B == Descendants(q, T)
           D == Descendants(p, S \cup T)
           gone == A \cap Active(p)
<1>1. A \subseteq Bundles /\ B \subseteq Bundles /\ D \subseteq Bundles
    BY DEF Descendants, Closure
<1>2. /\ IsPool(p)
      /\ \A x \in Bundles : Children(p, x) \subseteq Bundles
    BY PoolTypes DEF PoolInv
<1>3. \A x \in Bundles : x \notin gone => Children(q, x) = Children(p, x) \ gone
    BY RemoveAllChildren DEF Cascade
<1>4. \A x \in Bundles : Children(q, x) \subseteq Children(p, x)
    <2>1. \A x \in gone : Children(q, x) = {}
        BY DEF Cascade, RemoveAll, Children
    <2> HIDE DEF q, gone
    <2> QED BY <1>3, <2>1
<1>5. /\ \A C \in SUBSET Bundles :
            S \subseteq C /\ (\A t \in C : Children(p, t) \subseteq C) => A \subseteq C
      /\ S \subseteq A /\ \A t \in A : Children(p, t) \subseteq A
    BY <1>2 DEF Descendants, Closure
<1>6. /\ \A C \in SUBSET Bundles :
            S \cup T \subseteq C /\ (\A t \in C : Children(p, t) \subseteq C) => D \subseteq C
      /\ S \cup T \subseteq D /\ \A t \in D : Children(p, t) \subseteq D
    BY <1>2 DEF Descendants, Closure
<1> HIDE DEF q
<1>7. /\ \A C \in SUBSET Bundles :
            T \subseteq C /\ (\A t \in C : Children(q, t) \subseteq C) => B \subseteq C
      /\ T \subseteq B /\ \A t \in B : Children(q, t) \subseteq B
    BY <1>2, <1>4 DEF Descendants, Closure
<1> HIDE DEF A, B, D
<1>8. A \cup B = D
    <2>1. A \subseteq D
        BY <1>1, <1>5, <1>6
    <2>2. B \subseteq D
        <3>1. \A t \in D : Children(q, t) \subseteq D
            BY <1>1, <1>4, <1>6
        <3> QED BY <1>1, <1>6, <1>7, <3>1
    <2>3. D \subseteq A \cup B
        <3>1. \A t \in A \cup B : Children(p, t) \subseteq A \cup B
            BY <1>1, <1>3, <1>5, <1>7
        <3> QED BY <1>1, <1>5, <1>6, <1>7, <3>1
    <2> QED BY <2>1, <2>2, <2>3
<1>9. RemoveAll(RemoveAll(p, A), B) = RemoveAll(p, A \cup B)
    BY RemovalsCompose
<1> QED BY <1>8, <1>9 DEF Cascade, q, A, B, D

-----------------------------------------------------------------------------
\* q is p with the item inserted for b.
InsertedInto(p, b, item, q) ==
    /\ Active(q) = Active(p) \cup {b}
    /\ \A a \in Active(q) : q.items[a] \in ItemType
    /\ \A a \in Active(p) : q.items[a].depends_on = p.items[a].depends_on
    /\ q.items[b].depends_on = item.depends_on
    /\ q.items = [a \in DOMAIN q.items |-> q.items[a]]
    /\ q.coinIndex = Assign(p.coinIndex, Removals[b], b)
    /\ q.mempoolCoins = Assign(p.mempoolCoins, Additions[b], b)
    /\ q.dependents =
        [x \in DOMAIN p.dependents \cup item.depends_on |->
            Children(p, x) \cup {y \in {b} : x \in item.depends_on}]
    /\ q.totalCost = SatAdd(p.totalCost, VirtualCost[b])
    /\ q.totalFees = SatAdd(p.totalFees, Fee[b])
    /\ q.totalSpends = SatAdd(p.totalSpends, NumSpends[b])

\* What insertion and the raising of scores leave: the new item, the others
\* with their other fields, and the index entries of the new item.
LEMMA InsertEffect ==
    ASSUME NEW p, IsPool(p), NEW b \in Bundles, b \notin Active(p),
           NEW item \in ItemType
    PROVE  InsertedInto(p, b, item, RaiseScores(Insert(p, b, item), b))
<1> DEFINE r == Insert(p, b, item)
           q == RaiseScores(r, b)
           rate == PackageFeeRate(r.items[b])
<1>1. /\ Active(r) = Active(p) \cup {b}
      /\ r.items[b] = item
      /\ \A a \in Active(p) : r.items[a] = p.items[a]
    BY DEF Insert, Assign, Active
<1>2. \A a \in Active(r) : r.items[a] \in ItemType
    BY <1>1, PoolTypes
<1>3. rate \in Nat
    BY <1>1, FeePerCostNat DEF PackageFeeRate, ItemType
<1>4. /\ Active(q) = Active(r)
      /\ q.items = [a \in DOMAIN q.items |-> q.items[a]]
      /\ \A a \in Active(r) :
            \/ q.items[a] = [r.items[a] EXCEPT !.descendant_score = rate]
            \/ q.items[a] = r.items[a]
    BY DEF RaiseScores, Insert, Active
<1>5. /\ q.coinIndex = Assign(p.coinIndex, Removals[b], b)
      /\ q.mempoolCoins = Assign(p.mempoolCoins, Additions[b], b)
      /\ q.dependents =
            [x \in DOMAIN p.dependents \cup item.depends_on |->
                Children(p, x) \cup {y \in {b} : x \in item.depends_on}]
      /\ q.totalCost = SatAdd(p.totalCost, VirtualCost[b])
      /\ q.totalFees = SatAdd(p.totalFees, Fee[b])
      /\ q.totalSpends = SatAdd(p.totalSpends, NumSpends[b])
    BY DEF RaiseScores, Insert
<1> HIDE DEF r, q, rate
<1>6. \A a \in Active(r) :
        /\ q.items[a] \in ItemType
        /\ q.items[a].depends_on = r.items[a].depends_on
    BY <1>2, <1>3, <1>4 DEF ItemType
<1>7. InsertedInto(p, b, item, q)
    BY <1>1, <1>4, <1>5, <1>6 DEF InsertedInto
<1> QED BY <1>7 DEF q, r

\* Insertion keeps the index complete when the coins are nobody else's.
LEMMA InsertIndexed ==
    ASSUME NEW p, IsPool(p), Indexed(p), NEW b \in Bundles, b \notin Active(p),
           NEW item \in ItemType,
           \A a \in Active(p) : Removals[a] \cap Removals[b] = {}
    PROVE  Indexed(RaiseScores(Insert(p, b, item), b))
<1> DEFINE q == RaiseScores(Insert(p, b, item), b)
<1>1. InsertedInto(p, b, item, q)
    BY InsertEffect
<1> HIDE DEF q
<1>2. /\ Active(q) = Active(p) \cup {b}
      /\ q.coinIndex = Assign(p.coinIndex, Removals[b], b)
      /\ q.mempoolCoins = Assign(p.mempoolCoins, Additions[b], b)
    BY <1>1 DEF InsertedInto
<1>3. \A a \in Active(p) : Additions[a] \cap Additions[b] = {}
    BY PoolTypes, CreatedByOneSpend
<1>4. ASSUME NEW a \in Active(q), NEW c \in Removals[a]
      PROVE  c \in DOMAIN q.coinIndex /\ q.coinIndex[c] = a
    <2>1. CASE a = b
        BY <1>2, <1>4, <2>1 DEF Assign
    <2>2. CASE a # b
        BY <1>2, <1>4, <2>2 DEF Assign, Indexed
    <2> QED BY <2>1, <2>2
<1>5. ASSUME NEW a \in Active(q), NEW c \in Additions[a]
      PROVE  c \in DOMAIN q.mempoolCoins /\ q.mempoolCoins[c] = a
    <2>1. CASE a = b
        BY <1>2, <1>5, <2>1 DEF Assign
    <2>2. CASE a # b
        BY <1>2, <1>3, <1>5, <2>2 DEF Assign, Indexed
    <2> QED BY <2>1, <2>2
<1> QED BY <1>4, <1>5 DEF Indexed, q

\* A new item scores its own rate, and its insertion lowers no score.
LEMMA InsertCoversOwn ==
    ASSUME NEW p, IsPool(p), ScoresCoverOwn(p), NEW b \in Bundles,
           b \notin Active(p), NEW item \in ItemType,
           item.descendant_score = OwnFeeRate(b)
    PROVE  ScoresCoverOwn(RaiseScores(Insert(p, b, item), b))
<1> DEFINE r == Insert(p, b, item)
           q == RaiseScores(r, b)
           rate == PackageFeeRate(r.items[b])
           lower == {a \in Active(r) : Score(r, a) < rate}
           up(a) == Parents(r, a) \cap lower
           raised == Closure(up(b), LAMBDA a : up(a))
<1>1. /\ Active(r) = Active(p) \cup {b}
      /\ r.items[b] = item
      /\ \A a \in Active(p) : r.items[a] = p.items[a]
    BY DEF Insert, Assign, Active
<1>2. \A a \in Active(r) : r.items[a] \in ItemType /\ a \in Bundles
    BY <1>1, PoolTypes
<1>3. rate \in Nat
    BY <1>1, FeePerCostNat DEF PackageFeeRate, ItemType
<1>4. raised \subseteq lower
    <2>1. lower \in SUBSET Bundles
        BY <1>2
    <2>2. up(b) \subseteq lower /\ \A a \in lower : up(a) \subseteq lower
        OBVIOUS
    <2> HIDE DEF lower, r
    <2> QED BY <2>1, <2>2 DEF Closure
<1>5. /\ Active(q) = Active(r)
      /\ \A a \in Active(r) :
            q.items[a] = IF a \in raised
                         THEN [r.items[a] EXCEPT !.descendant_score = rate]
                         ELSE r.items[a]
    BY DEF RaiseScores, Insert, Active
<1>6. \A a \in Active(r) : Score(r, a) >= OwnFeeRate(a) /\ Score(r, a) \in Nat
                            /\ OwnFeeRate(a) \in Nat
    <2>1. \A a \in Active(r) : OwnFeeRate(a) \in Nat /\ Score(r, a) \in Nat
        BY <1>2, DataTypes DEF Score, ItemType
    <2> QED BY <1>1, <2>1 DEF ScoresCoverOwn, Score
<1> SUFFICES ASSUME NEW a \in Active(r) PROVE Score(q, a) >= OwnFeeRate(a)
    BY <1>5 DEF ScoresCoverOwn
<1>7. CASE a \in raised
    <2>1. Score(r, a) < rate
        BY <1>4, <1>7
    <2> HIDE DEF r, q, rate, raised
    <2>2. q.items[a].descendant_score = rate
        BY <1>2, <1>5, <1>7 DEF ItemType
    <2> QED BY <1>3, <1>6, <2>1, <2>2 DEF Score
<1>8. CASE a \notin raised
    BY <1>5, <1>6, <1>8 DEF Score
<1> QED BY <1>7, <1>8

\* Inserting an item that fits, is within the spend limit and has parents only
\* among the creators of its coins keeps the pool's invariants.
LEMMA InsertKeeps ==
    ASSUME NEW p, PoolInv(p), NEW b \in Bundles, b \notin Active(p),
           NEW item \in ItemType,
           Fits(p, b), SatAdd(p.totalSpends, NumSpends[b]) <= MaxSpends,
           \A x \in item.depends_on : Additions[x] \cap Removals[b] # {}
    PROVE  PoolInv(RaiseScores(Insert(p, b, item), b))
<1> DEFINE q == RaiseScores(Insert(p, b, item), b)
<1>1. /\ IsPool(p) /\ Accounts(p) /\ WithinLimits(p) /\ Resolves(p)
      /\ LinksFollowCoins(p)
    BY DEF PoolInv
<1>2. /\ Active(q) = Active(p) \cup {b}
      /\ \A a \in Active(q) : q.items[a] \in ItemType
      /\ \A a \in Active(p) : q.items[a].depends_on = p.items[a].depends_on
      /\ q.items[b].depends_on = item.depends_on
      /\ q.items = [a \in DOMAIN q.items |-> q.items[a]]
      /\ q.coinIndex = Assign(p.coinIndex, Removals[b], b)
      /\ q.mempoolCoins = Assign(p.mempoolCoins, Additions[b], b)
      /\ q.dependents =
            [x \in DOMAIN p.dependents \cup item.depends_on |->
                Children(p, x) \cup {y \in {b} : x \in item.depends_on}]
      /\ q.totalCost = SatAdd(p.totalCost, VirtualCost[b])
      /\ q.totalFees = SatAdd(p.totalFees, Fee[b])
      /\ q.totalSpends = SatAdd(p.totalSpends, NumSpends[b])
    BY <1>1, InsertEffect DEF InsertedInto
<1> HIDE DEF q
<1>3. /\ Active(p) \in SUBSET Bundles /\ IsFiniteSet(Active(p))
      /\ Active(q) \in SUBSET Bundles
    BY <1>1, <1>2, PoolTypes
<1>4. \A a \in Bundles :
        VirtualCost[a] \in Nat /\ Fee[a] \in Nat /\ NumSpends[a] \in Nat
    BY DataTypes
<1>5. ASSUME NEW f, \A a \in Bundles : f[a] \in Nat
      PROVE  /\ Total(f, Active(q)) = Total(f, Active(p)) + f[b]
             /\ Total(f, Active(p)) \in Nat
    <2>1. \A a \in Active(p) \cup {b} : f[a] \in Nat
        BY <1>3, <1>5
    <2>2. Total(f, Active(p) \cup {b}) = Total(f, Active(p)) + f[b]
        BY <1>3, <2>1, TotalAdd
    <2>3. Total(f, Active(p)) \in Nat
        BY <1>3, <2>1, TotalNat
    <2> QED BY <1>2, <2>2, <2>3
<1>6. Accounts(q) /\ WithinLimits(q)
    <2>1. q.totalCost = Total(VirtualCost, Active(q)) /\ q.totalCost <= MaxTotalCost
        <3>1. /\ Total(VirtualCost, Active(q)) = Total(VirtualCost, Active(p)) + VirtualCost[b]
              /\ Total(VirtualCost, Active(p)) \in Nat
            BY <1>4, <1>5
        <3>2. p.totalCost = Total(VirtualCost, Active(p))
            BY <1>1 DEF Accounts
        <3> QED BY <1>2, <1>4, <3>1, <3>2, LimitsFit, BundleData DEF SatAdd, Fits
    <2>2. q.totalSpends = Total(NumSpends, Active(q)) /\ q.totalSpends <= MaxSpends
        <3>1. /\ Total(NumSpends, Active(q)) = Total(NumSpends, Active(p)) + NumSpends[b]
              /\ Total(NumSpends, Active(p)) \in Nat
            BY <1>4, <1>5
        <3>2. p.totalSpends = Total(NumSpends, Active(p))
            BY <1>1 DEF Accounts
        <3> QED BY <1>2, <1>4, <3>1, <3>2, LimitsFit, BundleData DEF SatAdd
    <2>3. q.totalFees = Total(Fee, Active(q))
        <3>1. /\ Total(Fee, Active(q)) = Total(Fee, Active(p)) + Fee[b]
              /\ Total(Fee, Active(p)) \in Nat
            BY <1>4, <1>5
        <3>2. p.totalFees = Total(Fee, Active(p))
            BY <1>1 DEF Accounts
        <3>3. Total(Fee, Active(q)) <= Total(Fee, Bundles) /\ Total(Fee, Bundles) \in Nat
            BY <1>3, <1>4, BundlesFinite, TotalRemove, TotalNat
        <3> QED BY <1>2, <1>4, <3>1, <3>2, <3>3, FeesFit, BundleData DEF SatAdd
    <2> QED BY <2>1, <2>2, <2>3 DEF Accounts, WithinLimits
<1>7. Resolves(q)
    <2>1. ASSUME NEW c \in DOMAIN q.coinIndex
          PROVE  q.coinIndex[c] \in Active(q) /\ c \in Removals[q.coinIndex[c]]
        BY <1>1, <1>2, <2>1 DEF Resolves, Assign
    <2>2. ASSUME NEW c \in DOMAIN q.mempoolCoins
          PROVE  q.mempoolCoins[c] \in Active(q) /\ c \in Additions[q.mempoolCoins[c]]
        BY <1>1, <1>2, <2>2 DEF Resolves, Assign
    <2>3. ASSUME NEW x \in DOMAIN q.dependents, NEW a \in q.dependents[x]
          PROVE  a \in Active(q) /\ x \in q.items[a].depends_on
        <3>1. \/ a = b /\ x \in item.depends_on
              \/ x \in DOMAIN p.dependents /\ a \in p.dependents[x]
            BY <1>2, <2>3 DEF Children
        <3> QED BY <1>1, <1>2, <3>1 DEF Resolves
    <2> QED BY <2>1, <2>2, <2>3 DEF Resolves
<1>8. LinksFollowCoins(q)
    BY <1>1, <1>2 DEF LinksFollowCoins
<1>9. IsPool(q)
    <2>1. IsPartialFunction(q.items, Bundles, ItemType)
        BY <1>2, <1>3 DEF IsPartialFunction, Active
    <2>2. IsPartialFunction(q.coinIndex, Coins, Bundles)
        BY <1>1, <1>2, DataTypes DEF IsPool, IsPartialFunction, Assign
    <2>3. IsPartialFunction(q.mempoolCoins, Coins, Bundles)
        BY <1>1, <1>2, DataTypes DEF IsPool, IsPartialFunction, Assign
    <2>4. IsPartialFunction(q.dependents, Bundles, SUBSET Bundles)
        <3>1. item.depends_on \subseteq Bundles
            BY DEF ItemType
        <3>2. DOMAIN q.dependents \subseteq Bundles
            BY <1>1, <1>2, <3>1 DEF IsPool, IsPartialFunction
        <3>3. \A x \in DOMAIN q.dependents : q.dependents[x] \in SUBSET Bundles
            BY <1>1, <1>2, <3>2, PoolTypes
        <3> QED BY <1>2, <3>2, <3>3 DEF IsPartialFunction
    <2>5. {q.totalCost, q.totalFees, q.totalSpends} \subseteq 0..MaxU64
        <3>1. {p.totalCost, p.totalFees, p.totalSpends} \subseteq 0..MaxU64
            BY <1>1 DEF IsPool
        <3> QED BY <1>2, <1>4, <3>1, BundleData DEF SatAdd
    <2> QED BY <2>1, <2>2, <2>3, <2>4, <2>5 DEF IsPool
<1> QED BY <1>6, <1>7, <1>8, <1>9 DEF PoolInv, q

-----------------------------------------------------------------------------
\* The empty pool satisfies the invariants.
LEMMA EmptyPoolInv == PoolInv(EmptyPool)
<1>1. Active(EmptyPool) = {}
    BY DEF Active, EmptyPool
<1>2. \A f : Total(f, {}) = 0
    <2> TAKE f
    <2>1. Units(f, {}) = {}
        BY DEF Units
    <2> QED BY <2>1, FS_EmptySet DEF Total
<1>3. Accounts(EmptyPool) /\ WithinLimits(EmptyPool)
    <2>1. /\ Total(VirtualCost, {}) = 0 /\ Total(Fee, {}) = 0
          /\ Total(NumSpends, {}) = 0
        BY <1>2
    <2>2. /\ EmptyPool.totalCost = 0 /\ EmptyPool.totalFees = 0
          /\ EmptyPool.totalSpends = 0
        BY DEF EmptyPool
    <2>3. MaxTotalCost \in Nat /\ MaxSpends \in Nat
        BY LimitsFit
    <2> QED BY <1>1, <2>1, <2>2, <2>3 DEF Accounts, WithinLimits
<1>4. IsPool(EmptyPool)
    BY BundleData DEF IsPool, IsPartialFunction, EmptyPool
<1>5. Resolves(EmptyPool) /\ LinksFollowCoins(EmptyPool)
    BY <1>1 DEF Resolves, LinksFollowCoins, EmptyPool
<1> QED BY <1>3, <1>4, <1>5 DEF PoolInv

\* What is left of what is left of p is left of p.
LEMMA RemainsTransitive ==
    ASSUME NEW p, PoolInv(p), NEW q, Remains(p, q), NEW r, Remains(q, r)
    PROVE  Remains(p, r)
<1>1. /\ p.totalSpends \in Int /\ q.totalSpends \in Int /\ r.totalSpends \in Int
    BY DEF Remains, PoolInv, IsPool
<1> QED BY <1>1 DEF Remains

\* Capacity eviction only removes items.
LEMMA MakeRoomRemains ==
    ASSUME NEW p, PoolInv(p), NEW b, NEW height, NEW q \in MakeRoom(p, b, height)
    PROVE  Remains(p, q)
<1>1. Remains(p, p)
    BY DEF Remains, PoolInv, IsPool
<1>2. ASSUME NEW s, PoolInv(s), NEW U, NEW t \in EvictionPass(s, b, U)
      PROVE  Remains(s, t)
    <2>1. PICK E : t = RemoveAll(s, E)
        BY <1>2 DEF EvictionPass
    <2> QED BY <1>2, <2>1, RemoveAllKeeps
<1>3. CASE q = p
    BY <1>1, <1>3
<1>4. CASE q # p
    <2>1. q \in EvictFor(p, b, height)
        BY <1>4 DEF MakeRoom
    <2> DEFINE guarded(s) == {a \in Active(s) : IsProtected(a, height)}
               open(s) == Active(s) \ guarded(s)
    <2>2. PICK s \in EvictionPass(p, b, open(p)) :
            q = s \/ q \in EvictionPass(s, b, guarded(s))
        BY <1>4, <2>1 DEF EvictFor
    <2>3. Remains(p, s)
        BY <1>2, <2>2
    <2>4. PoolInv(s)
        BY <2>3 DEF Remains
    <2>5. q = s \/ Remains(s, q)
        BY <1>2, <2>2, <2>4
    <2> QED BY <2>3, <2>5, RemainsTransitive
<1> QED BY <1>3, <1>4

\* A pass removes candidates that score below the newcomer's rate, and none of
\* those it leaves scores lower than one it removes.
LEMMA EvictionPassOrder ==
    ASSUME NEW p, IsPool(p), NEW b \in Bundles, NEW U \in SUBSET Active(p),
           NEW q \in EvictionPass(p, b, U)
    PROVE  \E E \in SUBSET U :
            /\ q = RemoveAll(p, E)
            /\ \A e \in E : /\ Score(p, e) < OwnFeeRate(b)
                            /\ \A u \in U \ E : Score(p, e) <= Score(p, u)
<1> DEFINE beatable == {u \in U : Score(p, u) < OwnFeeRate(b)}
           MakesRoom(E) == Fits(RemoveAll(p, E), b)
<1>1. PICK E \in LowestFirst(p, beatable, LAMBDA F : MakesRoom(F)) : q = RemoveAll(p, E)
    BY DEF EvictionPass
<1>2. E \in SUBSET beatable /\ \A e \in E, u \in beatable \ E : Score(p, e) <= Score(p, u)
    BY <1>1 DEF LowestFirst
<1>3. OwnFeeRate(b) \in Nat /\ \A u \in U : Score(p, u) \in Nat
    BY DataTypes, PoolTypes DEF Score, ItemType
<1> HIDE DEF MakesRoom
<1>4. \A e \in E, u \in U \ E : Score(p, e) <= Score(p, u)
    BY <1>2, <1>3
<1> QED BY <1>1, <1>2, <1>4

\* Capacity eviction displaces the lowest scores first, and protected items
\* only for a newcomer that is protected as well.
LEMMA MakeRoomInOrder ==
    ASSUME NEW p, PoolInv(p), NEW b \in Bundles, NEW height,
           NEW q \in MakeRoom(p, b, height)
    PROVE  DisplacedInOrder(p, q, b, height)
<1> DEFINE guarded(s) == {a \in Active(s) : IsProtected(a, height)}
           open(s) == Active(s) \ guarded(s)
<1>1. CASE q = p
    BY <1>1 DEF DisplacedInOrder
<1>2. CASE q # p
    <2>1. q \in EvictFor(p, b, height)
        BY <1>2 DEF MakeRoom
    <2>2. PICK s \in EvictionPass(p, b, open(p)) :
            \/ q = s
            \/ /\ open(s) = {} /\ IsProtected(b, height)
               /\ q \in EvictionPass(s, b, guarded(s))
        BY <1>2, <2>1 DEF EvictFor
    <2>3. IsPool(p)
        BY DEF PoolInv
    <2>4. PICK E \in SUBSET open(p) :
            /\ s = RemoveAll(p, E)
            /\ \A e \in E : /\ Score(p, e) < OwnFeeRate(b)
                            /\ \A u \in open(p) \ E : Score(p, e) <= Score(p, u)
        <3>1. open(p) \in SUBSET Active(p)
            OBVIOUS
        <3> QED BY <2>2, <2>3, <3>1, EvictionPassOrder
    <2>5. PoolInv(s) /\ Active(s) = Active(p) \ E /\ IsPool(s)
        BY <2>4, RemoveAllKeeps DEF PoolInv
    <2>6. CASE q = s
        <3>1. Active(p) \ Active(q) = E
            BY <2>4, <2>5, <2>6
        <3> QED BY <2>4, <3>1 DEF DisplacedInOrder
    <2>7. CASE q # s
        <3>1. PICK F \in SUBSET guarded(s) :
                /\ q = RemoveAll(s, F)
                /\ \A e \in F : /\ Score(s, e) < OwnFeeRate(b)
                                /\ \A u \in guarded(s) \ F : Score(s, e) <= Score(s, u)
            <4>1. guarded(s) \in SUBSET Active(s)
                OBVIOUS
            <4> QED BY <2>2, <2>5, <2>7, <4>1, EvictionPassOrder
        <3>2. Active(q) = Active(s) \ F
            BY <2>5, <3>1, RemoveAllKeeps
        <3>3. E = open(p)
            BY <2>2, <2>4, <2>5, <2>7
        <3> DEFINE O == {a \in Active(p) : ~IsProtected(a, height)}
        <3>4. O = open(p)
            OBVIOUS
        <3>5. Active(p) \ Active(q) = E \cup F /\ (Active(p) \ Active(q)) \cap O = E
              /\ F \cap O = {}
            BY <2>4, <2>5, <3>1, <3>2, <3>4
        <3> DEFINE Standing(a) == Score(IF a \in O THEN p ELSE s, a)
        <3>6. \A d \in E \cup F :
                /\ d \notin O => IsProtected(b, height)
                /\ Standing(d) < OwnFeeRate(b)
                /\ \A kept \in Active(p) \ (E \cup F) :
                    kept \in O \/ d \notin O => Standing(d) <= Standing(kept)
            <4>1. \A kept \in Active(p) \ (E \cup F) : kept \notin O /\ kept \in guarded(s) \ F
                BY <2>5, <3>3, <3>4
            <4>2. \A d \in E : d \in O /\ Standing(d) < OwnFeeRate(b)
                BY <2>4, <3>3, <3>4
            <4>3. \A d \in F : d \notin O /\ Standing(d) < OwnFeeRate(b)
                BY <3>1, <3>5
            <4>4. \A d \in F, kept \in guarded(s) \ F :
                    kept \notin O => Standing(d) <= Standing(kept)
                BY <3>1, <3>5
            <4> QED BY <2>2, <2>7, <4>1, <4>2, <4>3, <4>4
        <3> QED BY <2>4, <3>5, <3>6 DEF DisplacedInOrder
    <2> QED BY <2>6, <2>7
<1> QED BY <1>1, <1>2

-----------------------------------------------------------------------------
(* What restore() makes of the items of a consistent pool.                   *)

\* Of the items with a coin, the last to be inserted exists.
LEMMA LatestExists ==
    ASSUME NEW S \in SUBSET Bundles, NEW rank \in Orders(S), NEW F,
           NEW c \in UNION {F[b] : b \in S}
    PROVE  Latest(S, F, rank)[c] \in S /\ c \in F[Latest(S, F, rank)[c]]
<1> DEFINE holders == {b \in S : c \in F[b]}
           ranks == {rank[b] : b \in holders}
<1>1. IsFiniteSet(holders) /\ holders # {}
    <2>1. IsFiniteSet(S)
        BY BundlesFinite, FS_Subset
    <2> QED BY <2>1, FS_Subset
<1>2. ranks \subseteq 1..Cardinality(S) /\ Cardinality(S) \in Nat
    BY FS_CardinalityType, BundlesFinite, FS_Subset DEF Orders
<1>3. IsFiniteSet(ranks) /\ ranks # {} /\ ranks \in SUBSET Nat
    <2>1. IsFiniteSet(1..Cardinality(S))
        BY <1>2, FS_Interval
    <2>2. IsFiniteSet(ranks)
        BY <1>2, <2>1, FS_Subset
    <2>3. ranks # {}
        OBVIOUS
    <2> QED BY <1>2, <2>2, <2>3
<1>4. PICK m \in ranks : \A x \in ranks : x <= m
    BY <1>3, FiniteSetHasMax
<1>5. \E b \in S : c \in F[b] /\ \A a \in S : c \in F[a] => rank[a] <= rank[b]
    BY <1>4
<1> QED BY <1>5 DEF Latest

\* Adding up in one go what does not exceed the width clamps nothing.
LEMMA SumUnclamped ==
    ASSUME NEW n \in 0..MaxU64
    PROVE  SatAdd(0, n) = n
BY BundleData DEF SatAdd

\* The parts of a pool, read from the structure it is built as.
LEMMA RefilledParts ==
    ASSUME NEW items, NEW rank
    PROVE  LET q == RefilledPool(items, rank)
               S == DOMAIN items
           IN  /\ q.items = items /\ Active(q) = S
               /\ q.coinIndex = Latest(S, Removals, rank)
               /\ q.mempoolCoins = Latest(S, Additions, rank)
               /\ q.dependents = [x \in UNION {items[b].depends_on : b \in S} |->
                                    {b \in S : x \in items[b].depends_on}]
               /\ q.totalCost = SatAdd(0, Total(VirtualCost, S))
               /\ q.totalFees = SatAdd(0, Total(Fee, S))
               /\ q.totalSpends = SatAdd(0, Total(NumSpends, S))
BY DEF RefilledPool, Active

\* The items of a consistent pool make a consistent pool again, with the same
\* accumulators and at least the recorded children it had.
LEMMA RefilledPoolOK ==
    ASSUME NEW p, PoolInv(p), NEW rank \in Orders(Active(p))
    PROVE  LET q == RefilledPool(p.items, rank)
           IN  /\ PoolInv(q)
               /\ q.items = p.items
               /\ q.totalCost = p.totalCost
               /\ q.totalFees = p.totalFees
               /\ q.totalSpends = p.totalSpends
               /\ \A x \in Active(p) : Children(p, x) \subseteq Children(q, x)
<1> DEFINE q == RefilledPool(p.items, rank)
           S == Active(p)
<1>1. /\ S \in SUBSET Bundles
      /\ p.items \in [S -> ItemType]
      /\ {p.totalCost, p.totalFees, p.totalSpends} \subseteq 0..MaxU64
    BY DEF PoolInv, IsPool, IsPartialFunction, Active
<1>2. /\ q.items = p.items /\ Active(q) = S
      /\ q.coinIndex = Latest(S, Removals, rank)
      /\ q.mempoolCoins = Latest(S, Additions, rank)
      /\ q.dependents = [x \in UNION {p.items[b].depends_on : b \in S} |->
                            {b \in S : x \in p.items[b].depends_on}]
      /\ q.totalCost = SatAdd(0, Total(VirtualCost, S))
      /\ q.totalFees = SatAdd(0, Total(Fee, S))
      /\ q.totalSpends = SatAdd(0, Total(NumSpends, S))
    BY RefilledParts DEF Active
<1> HIDE DEF q
<1>3. /\ q.totalCost = p.totalCost
      /\ q.totalFees = p.totalFees
      /\ q.totalSpends = p.totalSpends
    <2>1. /\ p.totalCost = Total(VirtualCost, S) /\ p.totalFees = Total(Fee, S)
          /\ p.totalSpends = Total(NumSpends, S)
        BY DEF PoolInv, Accounts
    <2> HIDE DEF S
    <2> QED BY <1>1, <1>2, <2>1, SumUnclamped
<1>4. Accounts(q) /\ WithinLimits(q) /\ LinksFollowCoins(q)
    BY <1>2, <1>3 DEF PoolInv, Accounts, WithinLimits, LinksFollowCoins
<1>5. /\ \A c \in DOMAIN q.coinIndex :
            q.coinIndex[c] \in S /\ c \in Removals[q.coinIndex[c]]
      /\ \A c \in DOMAIN q.mempoolCoins :
            q.mempoolCoins[c] \in S /\ c \in Additions[q.mempoolCoins[c]]
    <2>1. /\ DOMAIN q.coinIndex = UNION {Removals[b] : b \in S}
          /\ DOMAIN q.mempoolCoins = UNION {Additions[b] : b \in S}
        BY <1>2 DEF Latest
    <2> QED BY <1>1, <1>2, <2>1, LatestExists
<1>6. \A x \in DOMAIN q.dependents :
        q.dependents[x] = {b \in S : x \in p.items[b].depends_on}
    BY <1>2
<1>7. Resolves(q)
    BY <1>2, <1>5, <1>6 DEF Resolves
<1>8. IsPool(q)
    <2>1. IsPartialFunction(q.coinIndex, Coins, Bundles)
        <3>1. DOMAIN q.coinIndex \subseteq Coins
            BY <1>1, <1>5, DataTypes
        <3>2. q.coinIndex = [c \in DOMAIN q.coinIndex |-> q.coinIndex[c]]
            BY <1>2 DEF Latest
        <3> QED BY <1>1, <1>5, <3>1, <3>2 DEF IsPartialFunction
    <2>2. IsPartialFunction(q.mempoolCoins, Coins, Bundles)
        <3>1. DOMAIN q.mempoolCoins \subseteq Coins
            BY <1>1, <1>5, DataTypes
        <3>2. q.mempoolCoins = [c \in DOMAIN q.mempoolCoins |-> q.mempoolCoins[c]]
            BY <1>2 DEF Latest
        <3> QED BY <1>1, <1>5, <3>1, <3>2 DEF IsPartialFunction
    <2>3. IsPartialFunction(q.dependents, Bundles, SUBSET Bundles)
        <3>1. DOMAIN q.dependents \subseteq Bundles
            BY <1>1, <1>2 DEF ItemType
        <3>2. \A x \in DOMAIN q.dependents : q.dependents[x] \in SUBSET Bundles
            BY <1>1, <1>6
        <3>3. q.dependents = [x \in DOMAIN q.dependents |-> q.dependents[x]]
            BY <1>2
        <3> QED BY <3>1, <3>2, <3>3 DEF IsPartialFunction
    <2>4. {q.totalCost, q.totalFees, q.totalSpends} \subseteq 0..MaxU64
        BY <1>1, <1>3
    <2>5. IsPartialFunction(q.items, Bundles, ItemType)
        BY <1>2 DEF PoolInv, IsPool
    <2> QED BY <2>1, <2>2, <2>3, <2>4, <2>5 DEF IsPool
<1>9. \A x \in S : Children(p, x) \subseteq Children(q, x)
    <2> SUFFICES ASSUME NEW x \in S, NEW b \in Children(p, x)
                 PROVE  b \in Children(q, x)
        OBVIOUS
    <2>1. b \in S /\ x \in p.items[b].depends_on
        BY DEF Children, PoolInv, Resolves
    <2>2. x \in DOMAIN q.dependents
        BY <1>2, <2>1
    <2> QED BY <1>6, <2>1, <2>2 DEF Children
<1> QED BY <1>2, <1>3, <1>4, <1>7, <1>8, <1>9 DEF PoolInv, q

\* When no two items share a coin, the coin maps come out as they were.
LEMMA RefilledIndexes ==
    ASSUME NEW p, PoolInv(p), Indexed(p), NEW rank \in Orders(Active(p))
    PROVE  LET q == RefilledPool(p.items, rank)
           IN  /\ q.coinIndex = p.coinIndex
               /\ q.mempoolCoins = p.mempoolCoins
               /\ Indexed(q)
<1> DEFINE q == RefilledPool(p.items, rank)
           S == Active(p)
<1>1. S \in SUBSET Bundles
    BY DEF PoolInv, IsPool, IsPartialFunction, Active
<1>2. /\ Active(q) = S
      /\ q.coinIndex = Latest(S, Removals, rank)
      /\ q.mempoolCoins = Latest(S, Additions, rank)
    BY RefilledParts DEF Active
<1> HIDE DEF q
<1>3. /\ p.coinIndex = [c \in DOMAIN p.coinIndex |-> p.coinIndex[c]]
      /\ p.mempoolCoins = [c \in DOMAIN p.mempoolCoins |-> p.mempoolCoins[c]]
      /\ DOMAIN p.coinIndex = UNION {Removals[b] : b \in S}
      /\ DOMAIN p.mempoolCoins = UNION {Additions[b] : b \in S}
    BY DEF PoolInv, IsPool, IsPartialFunction, Resolves, Indexed
<1>4. /\ q.coinIndex = [c \in UNION {Removals[b] : b \in S} |-> q.coinIndex[c]]
      /\ q.mempoolCoins = [c \in UNION {Additions[b] : b \in S} |-> q.mempoolCoins[c]]
    BY <1>2 DEF Latest
<1>5. /\ \A c \in UNION {Removals[b] : b \in S} : q.coinIndex[c] = p.coinIndex[c]
      /\ \A c \in UNION {Additions[b] : b \in S} : q.mempoolCoins[c] = p.mempoolCoins[c]
    BY <1>1, <1>2, LatestExists DEF Indexed
<1>6. q.coinIndex = p.coinIndex /\ q.mempoolCoins = p.mempoolCoins
    BY <1>3, <1>4, <1>5
<1>7. Indexed(q)
    BY <1>2, <1>6 DEF Indexed
<1> QED BY <1>6, <1>7 DEF q
=============================================================================
