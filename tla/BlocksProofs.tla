---------------------------- MODULE BlocksProofs ----------------------------
(* Theorems about Blocks: what a block producer and a wallet read off the    *)
(* active pool, in every state that any history of calls leads to.           *)
EXTENDS Blocks, ActivePoolProofs, SequenceTheorems

-----------------------------------------------------------------------------
(* The pool of this module is that of ActivePool.                            *)

\* Its steps are those of the pool.
LEMMA BlocksNextIsNext == BlocksNext => Next
BY DEF BlocksNext, TablesRefilled, Next

\* The inductive invariant of the pool holds here as well.
LEMMA BlocksPoolInvariant == BlocksSpec => []IInv
<1>1. BlocksInit => IInv
    BY InitIInv DEF BlocksInit
<1>2. IInv /\ [BlocksNext]_<<vars, tables>> => IInv'
    <2> SUFFICES ASSUME IInv, [BlocksNext]_<<vars, tables>> PROVE IInv'
        OBVIOUS
    <2>1. [Next]_vars
        BY BlocksNextIsNext DEF vars
    <2> QED BY <2>1, NextIInv
<1> QED BY <1>1, <1>2, PTL DEF BlocksSpec

-----------------------------------------------------------------------------
(* The minimum fee.                                                          *)

\* Whoever beats the rate of an active item pays what a full pool asks for.
LEMMA FullEstimate ==
    ASSUME NEW b \in Bundles, PoolInv(pool), pool.totalCost >= MaxTotalCost,
           VirtualCost[b] # 0,
           \E d \in Active(pool) : OwnFeeRate(d) < OwnFeeRate(b)
    PROVE  Fee[b] >= EstimateMinFee(b)
<1> DEFINE V == VirtualCost[b]
           F == Fee[b]
           rates == {OwnFeeRate(a) : a \in Active(pool)}
           lowest == Min(rates)
<1>1. /\ V \in Nat \ {0} /\ F \in Nat /\ FpcScale \in Nat \ {0} /\ MaxU64 \in Nat
      /\ MaxTotalCost \in Nat
    BY DataTypes, BundleData, LimitsFit
<1>2. Active(pool) \subseteq Bundles
    BY PoolTypes DEF PoolInv
<1>3. rates \in SUBSET Nat /\ rates # {}
    BY <1>2, DataTypes
<1>4. lowest \in rates /\ \A x \in rates : lowest <= x
    <2> HIDE DEF rates
    <2> QED BY <1>3, LeastNatural DEF Min
<1>5. lowest \in Nat /\ lowest + 1 <= OwnFeeRate(b) /\ OwnFeeRate(b) \in Nat
    <2>1. PICK d \in Active(pool) : OwnFeeRate(d) < OwnFeeRate(b)
        OBVIOUS
    <2>2. lowest <= OwnFeeRate(d) /\ OwnFeeRate(d) \in Nat /\ lowest \in Nat
        BY <1>3, <1>4
    <2> HIDE DEF lowest
    <2> QED BY <2>1, <2>2, DataTypes
<1> HIDE DEF lowest, rates
<1> DEFINE r == lowest + 1
           paid == (F * FpcScale) \div V
<1>6. OwnFeeRate(b) = paid
    BY DEF OwnFeeRate, FeePerCost
<1>7. F * FpcScale \in Nat /\ V * paid <= F * FpcScale
    <2>1. F * FpcScale \in Nat
        BY <1>1
    <2> QED BY <1>1, <2>1, QuotientTimes
<1>8. r \in Nat /\ paid \in Nat /\ r <= paid
    BY <1>5, <1>6
<1>9. V * r \in Nat /\ V * r <= V * paid /\ V * paid \in Nat
    BY <1>1, <1>8, ProductMonotonic
<1>10. V * r <= F * FpcScale
    BY <1>7, <1>9
<1>11. (V * r) \div FpcScale <= F /\ (V * r) \div FpcScale \in Nat
    BY <1>1, <1>9, <1>10, QuotientBound, QuotientTimes
<1> DEFINE asked == (V * r) \div FpcScale
           bounds == {asked, MaxU64}
<1>12. Min(bounds) <= F
    <2>1. asked \in Nat /\ asked <= F
        BY <1>11
    <2> HIDE DEF asked
    <2>2. bounds \in SUBSET Nat /\ bounds # {} /\ asked \in bounds
        BY <1>1, <2>1
    <2> HIDE DEF bounds
    <2>3. Min(bounds) \in bounds /\ \A x \in bounds : Min(bounds) <= x
        BY <2>2, LeastNatural DEF Min
    <2>4. Min(bounds) \in Nat /\ Min(bounds) <= asked
        BY <2>2, <2>3
    <2> QED BY <1>1, <2>1, <2>4
<1>13. EstimateMinFee(b) \in {0, Min(bounds)}
    BY DEF EstimateMinFee, rates, lowest
<1> HIDE DEF bounds
<1> QED BY <1>1, <1>12, <1>13

\* When the pool is full, nothing gets in for less than estimate_min_fee() asks
\* for it unless it replaces something.
THEOREM EstimateTheorem == BlocksSpec => EstimateIsNeeded
<1> DEFINE Needed ==
        result' = "Success" =>
            \A b \in Active(pool') \ Active(pool) :
                Conflicts(pool, b) = {} /\ pool.totalCost >= MaxTotalCost =>
                    Fee[b] >= EstimateMinFee(b)
<1>1. IInv /\ [BlocksNext]_<<vars, tables>> => [Needed]_<<vars, tables>>
    <2> SUFFICES ASSUME IInv, BlocksNext, result' = "Success",
                        NEW b \in Active(pool') \ Active(pool),
                        Conflicts(pool, b) = {}, pool.totalCost >= MaxTotalCost
                 PROVE  Fee[b] >= EstimateMinFee(b)
        OBVIOUS
    <2>0. Next
        BY BlocksNextIsNext
    <2>1. PICK a \in Bundles : Submission(a)
        BY <2>0, SuccessIsSubmission
    <2>2. b = a /\ b \in Bundles
        BY <2>1, SubmissionInOrder
    <2>3. CASE VirtualCost[b] = 0
        BY <2>2, <2>3, DataTypes DEF EstimateMinFee
    <2>4. CASE VirtualCost[b] # 0
        <3>1. \E d \in Active(pool) : OwnFeeRate(d) < OwnFeeRate(b)
            BY <2>1, <2>2, <2>4, FullPoolIsBeaten
        <3> QED BY <2>2, <2>4, <3>1, FullEstimate DEF IInv
    <2> QED BY <2>3, <2>4
<1> HIDE DEF Needed
<1>2. BlocksSpec => [][Needed]_<<vars, tables>>
    BY <1>1, BlocksPoolInvariant, PTL DEF BlocksSpec
<1> QED BY <1>2 DEF EstimateIsNeeded, Needed

-----------------------------------------------------------------------------
(* Sorting.                                                                  *)

\* Ranked lists a finite set without repetition in the order of a strict total
\* order on it.
LEMMA RankedSet ==
    ASSUME NEW S, IsFiniteSet(S), NEW R,
           \A x \in S : <<x, x>> \notin R,
           \A x, y, z \in S : <<x, y>> \in R /\ <<y, z>> \in R => <<x, z>> \in R,
           \A x, y \in S : x # y => <<x, y>> \in R \/ <<y, x>> \in R
    PROVE  LET r == Ranked(S, R)
               N == Cardinality(S)
           IN  /\ N \in Nat
               /\ r \in [1..N -> S]
               /\ \A x \in S : \E n \in 1..N : r[n] = x
               /\ \A m, n \in 1..N : m < n => <<r[m], r[n]>> \in R
<1> DEFINE r == Ranked(S, R)
           N == Cardinality(S)
           below == [x \in S |-> {y \in S : <<y, x>> \in R}]
           rank == [x \in S |-> Cardinality(below[x])]
<1>1. N \in Nat
    BY FS_CardinalityType
<1>2. /\ \A x \in S : IsFiniteSet(below[x]) /\ rank[x] = Cardinality(below[x])
      /\ \A x \in S : rank[x] \in Nat /\ rank[x] < N
    <2> SUFFICES ASSUME NEW x \in S
                 PROVE  /\ IsFiniteSet(below[x]) /\ rank[x] = Cardinality(below[x])
                        /\ rank[x] \in Nat /\ rank[x] < N
        <3> HIDE DEF rank, below, N
        <3> QED OBVIOUS
    <2>1. below[x] \in SUBSET (S \ {x})
        OBVIOUS
    <2>2. IsFiniteSet(S \ {x}) /\ Cardinality(S \ {x}) = N - 1
        BY FS_RemoveElement
    <2>3. IsFiniteSet(below[x]) /\ Cardinality(below[x]) <= N - 1
        <3> HIDE DEF below, N
        <3> QED BY <2>1, <2>2, FS_Subset
    <2>4. Cardinality(below[x]) \in Nat
        BY <2>3, FS_CardinalityType
    <2>5. rank[x] = Cardinality(below[x])
        OBVIOUS
    <2> HIDE DEF N, rank, below
    <2> QED BY <1>1, <2>3, <2>4, <2>5
<1>3. \A x, y \in S : <<x, y>> \in R => rank[x] < rank[y]
    <2> SUFFICES ASSUME NEW x \in S, NEW y \in S, <<x, y>> \in R
                 PROVE  rank[x] < rank[y]
        <3> HIDE DEF rank
        <3> QED OBVIOUS
    <2>1. below[x] \in SUBSET below[y] /\ x \in below[y] /\ x \notin below[x]
        OBVIOUS
    <2> HIDE DEF rank, below, N
    <2>2. rank[x] <= rank[y] /\ rank[x] # rank[y]
        BY <1>2, <2>1, FS_Subset
    <2> QED BY <1>2, <2>2
<1>4. rank \in Surjection(S, 0..(N - 1))
    <2>1. rank \in [S -> 0..(N - 1)]
        <3>1. \A x \in S : rank[x] \in 0..(N - 1)
            <4> HIDE DEF rank, N
            <4> QED BY <1>1, <1>2
        <3> QED BY <3>1
    <2> HIDE DEF rank, N
    <2>2. \A x, y \in S : rank[x] = rank[y] => x = y
        <3> SUFFICES ASSUME NEW x \in S, NEW y \in S, x # y
                     PROVE  rank[x] # rank[y]
            OBVIOUS
        <3>1. rank[x] < rank[y] \/ rank[y] < rank[x]
            BY <1>3
        <3> QED BY <1>2, <3>1
    <2>3. rank \in Injection(S, 0..(N - 1))
        BY <2>1, <2>2 DEF Injection, IsInjective
    <2>4. IsFiniteSet(0..(N - 1)) /\ Cardinality(0..(N - 1)) = N
        BY <1>1, FS_Interval
    <2> QED BY <2>3, <2>4, FS_Injection DEF N
<1>5. ASSUME NEW n \in 1..N
      PROVE  r[n] \in S /\ rank[r[n]] = n - 1
    <2>1. n - 1 \in 0..(N - 1)
        BY <1>1
    <2>2. \E x \in S : rank[x] = n - 1
        BY <1>4, <2>1 DEF Surjection
    <2>3. r[n] = CHOOSE x \in S : rank[x] = n - 1
        BY DEF Ranked
    <2> HIDE DEF r, rank
    <2> QED BY <2>2, <2>3
<1>6. r \in [1..N -> S]
    BY <1>5 DEF Ranked
<1>7. ASSUME NEW x \in S
      PROVE  \E n \in 1..N : r[n] = x
    <2> HIDE DEF rank, r, N
    <2>1. rank[x] + 1 \in 1..N /\ (rank[x] + 1) - 1 = rank[x]
        BY <1>1, <1>2
    <2>2. r[rank[x] + 1] \in S /\ rank[r[rank[x] + 1]] = rank[x]
        BY <1>5, <2>1
    <2>3. ~(rank[x] < rank[x])
        BY <1>2
    <2>4. r[rank[x] + 1] = x
        BY <1>3, <2>2, <2>3
    <2> QED BY <2>1, <2>4
<1>8. ASSUME NEW m \in 1..N, NEW n \in 1..N, m < n
      PROVE  <<r[m], r[n]>> \in R
    <2> HIDE DEF rank, r, N
    <2>1. /\ rank[r[m]] = m - 1 /\ rank[r[n]] = n - 1
          /\ r[m] \in S /\ r[n] \in S
        BY <1>5
    <2>2. ~(rank[r[n]] < rank[r[m]]) /\ r[m] # r[n]
        BY <1>1, <1>8, <2>1
    <2> QED BY <1>3, <2>1, <2>2
<1> HIDE DEF r, N
<1> QED BY <1>1, <1>6, <1>7, <1>8 DEF r, N

-----------------------------------------------------------------------------
(* Lines in which the members of a set stand.                                *)

\* line has every member of S once, and nothing else.
IsLineOf(line, S) ==
    /\ line \in Seq(S)
    /\ \A x \in S : \E n \in 1..Len(line) : line[n] = x
    /\ \A m, n \in 1..Len(line) : line[m] = line[n] => m = n

LEMMA LineLength ==
    ASSUME NEW S, NEW line, IsLineOf(line, S)
    PROVE  /\ IsFiniteSet(S)
           /\ Elements(line) = S
           /\ Len(line) = Cardinality(S)
           /\ line = <<>> <=> S = {}
<1> DEFINE N == Len(line)
<1>1. N \in Nat /\ DOMAIN line = 1..N /\ line \in [1..N -> S]
    BY LenProperties DEF IsLineOf
<1>2. line \in Bijection(1..N, S)
    BY <1>1 DEF IsLineOf, Bijection, Injection, Surjection, IsInjective
<1>3. IsFiniteSet(1..N) /\ Cardinality(1..N) = N
    BY <1>1, FS_Interval
<1>4. IsFiniteSet(S) /\ N = Cardinality(S)
    BY <1>2, <1>3, FS_Bijection DEF ExistsBijection
<1>5. Elements(line) = S
    BY <1>1 DEF Elements, IsLineOf
<1>6. line = <<>> <=> N = 0
    BY <1>1, EmptySeq, LenProperties DEF IsLineOf
<1>7. N = 0 <=> S = {}
    BY <1>4, FS_EmptySet
<1> QED BY <1>4, <1>5, <1>6, <1>7

LEMMA EmptyLine == IsLineOf(<<>>, {})
BY EmptySeq DEF IsLineOf

LEMMA AppendedLine ==
    ASSUME NEW S, NEW line, IsLineOf(line, S), NEW b, b \notin S
    PROVE  IsLineOf(Append(line, b), S \cup {b})
<1> DEFINE T == S \cup {b}
           N == Len(line)
           longer == Append(line, b)
<1>1. N \in Nat /\ line \in [1..N -> S]
    BY LenProperties DEF IsLineOf
<1>2. line \in Seq(T)
    BY <1>1, SeqDef
<1>3. /\ longer \in Seq(T) /\ Len(longer) = N + 1
      /\ \A i \in 1..N : longer[i] = line[i]
      /\ longer[N + 1] = b
    BY <1>2, AppendProperties
<1> HIDE DEF longer
<1>4. ASSUME NEW x \in T
      PROVE  \E n \in 1..(N + 1) : longer[n] = x
    <2>1. CASE x = b
        BY <1>1, <1>3, <2>1
    <2>2. CASE x \in S
        BY <1>1, <1>3, <2>2 DEF IsLineOf
    <2> QED BY <2>1, <2>2
<1>5. ASSUME NEW m \in 1..(N + 1), NEW n \in 1..(N + 1), longer[m] = longer[n]
      PROVE  m = n
    <2>1. CASE m \in 1..N /\ n \in 1..N
        BY <1>3, <1>5, <2>1 DEF IsLineOf
    <2>2. CASE m = N + 1 \/ n = N + 1
        BY <1>1, <1>3, <1>5, <2>2
    <2> QED BY <1>1, <2>1, <2>2
<1> QED BY <1>3, <1>4, <1>5 DEF IsLineOf, longer

LEMMA TailOfLine ==
    ASSUME NEW S, NEW line, IsLineOf(line, S), line # <<>>
    PROVE  Head(line) \in S /\ IsLineOf(Tail(line), S \ {Head(line)})
<1> DEFINE N == Len(line)
           h == Head(line)
           shorter == Tail(line)
<1>1. N \in Nat /\ line \in [1..N -> S]
    BY LenProperties DEF IsLineOf
<1>2. /\ h \in S /\ shorter \in Seq(S) /\ Len(shorter) = N - 1
      /\ \A i \in 1..(N - 1) : shorter[i] = line[i + 1]
    BY HeadTailProperties DEF IsLineOf
<1>3. h = line[1] /\ N >= 1
    BY <1>1, EmptySeq DEF IsLineOf
<1> HIDE DEF h, shorter
<1>4. ASSUME NEW x \in S \ {h}
      PROVE  \E n \in 1..(N - 1) : shorter[n] = x
    <2>1. PICK n \in 1..N : line[n] = x
        BY DEF IsLineOf
    <2>2. n # 1
        BY <1>3, <2>1
    <2>3. n - 1 \in 1..(N - 1) /\ (n - 1) + 1 = n
        BY <1>1, <2>2
    <2> QED BY <1>2, <2>1, <2>3
<1>5. ASSUME NEW m \in 1..(N - 1), NEW n \in 1..(N - 1), shorter[m] = shorter[n]
      PROVE  m = n
    <2>1. m + 1 \in 1..N /\ n + 1 \in 1..N /\ line[m + 1] = line[n + 1]
        BY <1>1, <1>2, <1>5
    <2>2. m + 1 = n + 1
        BY <2>1 DEF IsLineOf
    <2> QED BY <1>1, <2>2
<1>6. ASSUME NEW n \in 1..(N - 1)
      PROVE  shorter[n] \in S \ {h}
    <2>1. /\ n + 1 \in 1..N /\ 1 \in 1..N /\ n + 1 # 1
          /\ shorter[n] = line[n + 1]
        BY <1>1, <1>2, <1>3
    <2>2. line[n + 1] # line[1]
        BY <2>1 DEF IsLineOf
    <2> QED BY <1>1, <1>3, <2>1, <2>2
<1>7. shorter \in Seq(S \ {h})
    <2>1. N - 1 \in Nat /\ shorter \in [1..(N - 1) -> S]
        BY <1>1, <1>2, <1>3, LenProperties
    <2>2. shorter \in [1..(N - 1) -> S \ {h}]
        BY <1>6, <2>1
    <2> QED BY <2>1, <2>2, SeqDef
<1> QED BY <1>2, <1>4, <1>5, <1>7 DEF IsLineOf, h, shorter

\* Where the members that Vec::retain keeps stood in the line.
PlacesBut(line, b) == {i \in 1..Len(line) : line[i] # b}

\* f lists the numbers in P from the least to the largest.
ListsUpwards(f, K, P) ==
    /\ f \in [1..K -> P]
    /\ \A x \in P : \E n \in 1..K : f[n] = x
    /\ \A m, n \in 1..K : m < n => f[m] < f[n]

\* left is what stood at the places in P, in the order of the line.
Keeps(left, line, P) ==
    \E K \in Nat : \E kept : /\ ListsUpwards(kept, K, P)
                            /\ left = [n \in 1..K |-> line[kept[n]]]

LEMMA RetainedPlaces ==
    ASSUME NEW S, NEW line, IsLineOf(line, S), NEW b
    PROVE  Keeps(Retained(line, b), line, PlacesBut(line, b))
<1> DEFINE N == Len(line)
           places == {i \in DOMAIN line : line[i] # b}
           order == {p \in places \X places : p[1] < p[2]}
           kept == Ranked(places, order)
           K == Cardinality(places)
<1>1. N \in Nat /\ DOMAIN line = 1..N
    BY LenProperties DEF IsLineOf
<1>2. places \subseteq 1..N /\ IsFiniteSet(places)
    <2>1. places \subseteq 1..N
        BY <1>1
    <2>2. IsFiniteSet(1..N)
        BY <1>1, FS_Interval
    <2> HIDE DEF places
    <2> QED BY <2>1, <2>2, FS_Subset
<1>3. /\ K \in Nat
      /\ kept \in [1..K -> places]
      /\ \A x \in places : \E n \in 1..K : kept[n] = x
      /\ \A m, n \in 1..K : m < n => <<kept[m], kept[n]>> \in order
    <2>1. \A x, y \in places : <<x, y>> \in order <=> x < y
        OBVIOUS
    <2> HIDE DEF order
    <2>2. /\ \A x \in places : <<x, x>> \notin order
          /\ \A x, y, z \in places :
                <<x, y>> \in order /\ <<y, z>> \in order => <<x, z>> \in order
          /\ \A x, y \in places : x # y => <<x, y>> \in order \/ <<y, x>> \in order
        <3> HIDE DEF places
        <3> QED BY <1>1, <1>2, <2>1
    <2> HIDE DEF places
    <2> QED BY <1>2, <2>2, RankedSet
<1>4. Retained(line, b) = [n \in 1..K |-> line[kept[n]]]
    BY <1>3 DEF Retained
<1>5. places = PlacesBut(line, b)
    BY <1>1 DEF PlacesBut
<1>6. \A m, n \in 1..K : m < n => kept[m] < kept[n]
    BY <1>3
<1> HIDE DEF places, order, kept, K
<1> QED BY <1>3, <1>4, <1>5, <1>6 DEF ListsUpwards, Keeps

LEMMA RetainedLine ==
    ASSUME NEW S, NEW line, IsLineOf(line, S), NEW b
    PROVE  IsLineOf(Retained(line, b), S \ {b})
<1> DEFINE N == Len(line)
           places == PlacesBut(line, b)
           left == Retained(line, b)
<1>1. N \in Nat /\ line \in [1..N -> S]
    BY LenProperties DEF IsLineOf
<1>2. PICK K \in Nat : \E kept : ListsUpwards(kept, K, places)
                                 /\ left = [n \in 1..K |-> line[kept[n]]]
    BY RetainedPlaces DEF Keeps
<1>3. PICK kept : ListsUpwards(kept, K, places) /\ left = [n \in 1..K |-> line[kept[n]]]
    BY <1>2
<1>4. /\ kept \in [1..K -> places]
      /\ \A x \in places : \E n \in 1..K : kept[n] = x
    BY <1>3 DEF ListsUpwards
<1>5. places \subseteq 1..N /\ \A i \in 1..N : i \in places <=> line[i] # b
    BY DEF PlacesBut
<1>6. \A m, n \in 1..K : m < n => kept[m] < kept[n]
    BY <1>3 DEF ListsUpwards
<1> HIDE DEF places, left
<1>7. left \in [1..K -> S \ {b}]
    BY <1>1, <1>3, <1>4, <1>5
<1>8. left \in Seq(S \ {b}) /\ Len(left) = K
    BY <1>7, SeqDef, LenProperties
<1>9. ASSUME NEW x \in S \ {b}
      PROVE  \E n \in 1..K : left[n] = x
    <2>1. PICK i \in 1..N : line[i] = x
        BY DEF IsLineOf
    <2>2. PICK n \in 1..K : kept[n] = i
        BY <1>4, <1>5, <2>1
    <2> QED BY <1>3, <2>1, <2>2
<1>10. ASSUME NEW m \in 1..K, NEW n \in 1..K, left[m] = left[n]
       PROVE  m = n
    <2>1. kept[m] \in 1..N /\ kept[n] \in 1..N /\ line[kept[m]] = line[kept[n]]
        BY <1>3, <1>4, <1>5, <1>10
    <2>2. kept[m] = kept[n]
        BY <2>1 DEF IsLineOf
    <2>3. ~(m < n) /\ ~(n < m)
        BY <1>6, <2>1, <2>2
    <2> QED BY <2>3
<1> QED BY <1>8, <1>9, <1>10 DEF IsLineOf, left

\* There is one way to list a set of numbers upwards.
LEMMA OneUpwardList ==
    ASSUME NEW P \in SUBSET Nat, NEW K \in Nat, NEW M \in Nat,
           NEW f, ListsUpwards(f, K, P), NEW g, ListsUpwards(g, M, P)
    PROVE  K = M /\ f = g
<1>1. /\ f \in [1..K -> P] /\ \A m, n \in 1..K : m < n => f[m] < f[n]
      /\ g \in [1..M -> P] /\ \A m, n \in 1..M : m < n => g[m] < g[n]
      /\ \A x \in P : \E n \in 1..K : f[n] = x
      /\ \A x \in P : \E n \in 1..M : g[n] = x
    BY DEF ListsUpwards
<1>2. K = M
    <2>1. /\ \A m, n \in 1..K : f[m] = f[n] => m = n
          /\ \A m, n \in 1..M : g[m] = g[n] => m = n
        <3>1. \A m, n \in 1..K : f[m] \in Nat /\ f[n] \in Nat
            BY <1>1
        <3>2. \A m, n \in 1..M : g[m] \in Nat /\ g[n] \in Nat
            BY <1>1
        <3>3. ASSUME NEW m \in 1..K, NEW n \in 1..K, m # n PROVE f[m] # f[n]
            <4>1. m < n \/ n < m
                BY <3>3
            <4> QED BY <1>1, <3>1, <4>1
        <3>4. ASSUME NEW m \in 1..M, NEW n \in 1..M, m # n PROVE g[m] # g[n]
            <4>1. m < n \/ n < m
                BY <3>4
            <4> QED BY <1>1, <3>2, <4>1
        <3> QED BY <3>3, <3>4
    <2>2. f \in Bijection(1..K, P) /\ g \in Bijection(1..M, P)
        BY <1>1, <2>1 DEF Bijection, Injection, Surjection, IsInjective
    <2>3. /\ IsFiniteSet(1..K) /\ Cardinality(1..K) = K
          /\ IsFiniteSet(1..M) /\ Cardinality(1..M) = M
        BY FS_Interval
    <2> QED BY <2>2, <2>3, FS_Bijection DEF ExistsBijection
<1> DEFINE differ == {n \in 1..K : f[n] # g[n]}
<1>3. differ = {}
    <2> SUFFICES ASSUME differ # {} PROVE FALSE
        OBVIOUS
    <2>1. PICK n \in differ : \A x \in differ : n <= x
        <3>1. differ \in SUBSET Nat
            OBVIOUS
        <3> HIDE DEF differ
        <3> QED BY <3>1, LeastNatural
    <2>2. \A m \in 1..K : m < n => f[m] = g[m]
        BY <2>1
    <2>3. PICK m \in 1..K : g[m] = f[n]
        BY <1>1, <1>2
    <2>4. PICK l \in 1..K : f[l] = g[n]
        BY <1>1, <1>2
    <2>5. n \in 1..K /\ f[n] # g[n] /\ f[n] \in Nat /\ g[n] \in Nat
        BY <1>1, <1>2
    <2> HIDE DEF differ
    <2>6. CASE f[n] < g[n]
        <3>1. m < n
            BY <1>1, <1>2, <2>3, <2>5, <2>6
        <3>2. f[m] = f[n] /\ f[m] < f[n]
            BY <1>1, <2>2, <2>3, <2>5, <3>1
        <3> QED BY <2>5, <3>2
    <2>7. CASE g[n] < f[n]
        <3>1. l < n
            BY <1>1, <2>4, <2>5, <2>7
        <3>2. g[l] = g[n] /\ g[l] < g[n]
            BY <1>1, <1>2, <2>2, <2>4, <2>5, <3>1
        <3> QED BY <2>5, <3>2
    <2> QED BY <2>5, <2>6, <2>7
<1> QED BY <1>1, <1>2, <1>3

\* Whatever lists the places upwards lists what Vec::retain keeps.
LEMMA RetainedIs ==
    ASSUME NEW S, NEW line, IsLineOf(line, S), NEW b,
           NEW K \in Nat, NEW kept, ListsUpwards(kept, K, PlacesBut(line, b))
    PROVE  Retained(line, b) = [n \in 1..K |-> line[kept[n]]]
<1>1. PICK M \in Nat : \E f : /\ ListsUpwards(f, M, PlacesBut(line, b))
                              /\ Retained(line, b) = [n \in 1..M |-> line[f[n]]]
    BY RetainedPlaces DEF Keeps
<1>2. PICK f : /\ ListsUpwards(f, M, PlacesBut(line, b))
               /\ Retained(line, b) = [n \in 1..M |-> line[f[n]]]
    BY <1>1
<1>3. PlacesBut(line, b) \in SUBSET Nat
    BY DEF PlacesBut
<1> QED BY <1>2, <1>3, OneUpwardList

LEMMA RetainedAbsent ==
    ASSUME NEW S, NEW line, IsLineOf(line, S), NEW b, b \notin S
    PROVE  Retained(line, b) = line
<1> DEFINE N == Len(line)
           same == [n \in 1..N |-> n]
<1>1. N \in Nat /\ line \in [1..N -> S]
    BY LenProperties DEF IsLineOf
<1>2. PlacesBut(line, b) = 1..N
    BY <1>1 DEF PlacesBut
<1>3. ListsUpwards(same, N, PlacesBut(line, b))
    BY <1>2 DEF ListsUpwards
<1> HIDE DEF same
<1>4. Retained(line, b) = [n \in 1..N |-> line[same[n]]]
    BY <1>1, <1>3, RetainedIs
<1> QED BY <1>1, <1>4 DEF same

LEMMA RetainedTail ==
    ASSUME NEW S, NEW line, IsLineOf(line, S), line # <<>>
    PROVE  Retained(line, Head(line)) = Tail(line)
<1> DEFINE N == Len(line)
           next == [n \in 1..(N - 1) |-> n + 1]
           h == Head(line)
<1>1. N \in Nat /\ line \in [1..N -> S] /\ line \in Seq(S)
    BY LenProperties DEF IsLineOf
<1>2. h = line[1] /\ N >= 1
    BY <1>1, EmptySeq DEF IsLineOf
<1>3. /\ Tail(line) \in [1..(N - 1) -> S]
      /\ \A i \in 1..(N - 1) : Tail(line)[i] = line[i + 1]
    BY <1>1, HeadTailProperties, LenProperties
<1> HIDE DEF h
<1>4. \A i \in 1..N : line[i] # h <=> i # 1
    BY <1>1, <1>2 DEF IsLineOf
<1>5. PlacesBut(line, h) = 2..N
    BY <1>1, <1>4 DEF PlacesBut
<1>6. ListsUpwards(next, N - 1, 2..N)
    <2>1. next \in [1..(N - 1) -> 2..N]
        BY <1>1
    <2>2. ASSUME NEW x \in 2..N PROVE \E n \in 1..(N - 1) : next[n] = x
        <3>1. x - 1 \in 1..(N - 1) /\ (x - 1) + 1 = x
            BY <1>1
        <3> QED BY <3>1
    <2>3. \A m, n \in 1..(N - 1) : m < n => next[m] < next[n]
        BY <1>1
    <2> HIDE DEF next
    <2> QED BY <2>1, <2>2, <2>3 DEF ListsUpwards
<1> HIDE DEF next
<1>7. N - 1 \in Nat
    BY <1>1, <1>2
<1>8. Retained(line, h) = [n \in 1..(N - 1) |-> line[next[n]]]
    BY <1>5, <1>6, <1>7, RetainedIs
<1> QED BY <1>3, <1>8 DEF next, h

\* When two members leave a line, it makes no difference which leaves first.
LEMMA RetainedTwice ==
    ASSUME NEW S, NEW line, IsLineOf(line, S), NEW b, NEW c
    PROVE  Keeps(Retained(Retained(line, b), c), line,
                 PlacesBut(line, b) \cap PlacesBut(line, c))
<1> DEFINE left == Retained(line, b)
           Q == PlacesBut(line, b)
           P == PlacesBut(line, b) \cap PlacesBut(line, c)
<1>1. PICK M \in Nat : \E f : ListsUpwards(f, M, Q) /\ left = [n \in 1..M |-> line[f[n]]]
    BY RetainedPlaces DEF Keeps
<1>2. PICK f : ListsUpwards(f, M, Q) /\ left = [n \in 1..M |-> line[f[n]]]
    BY <1>1
<1>3. IsLineOf(left, S \ {b})
    BY RetainedLine
<1>4. PICK K \in Nat : \E g : /\ ListsUpwards(g, K, PlacesBut(left, c))
                              /\ Retained(left, c) = [n \in 1..K |-> left[g[n]]]
    BY <1>3, RetainedPlaces DEF Keeps
<1>5. PICK g : /\ ListsUpwards(g, K, PlacesBut(left, c))
               /\ Retained(left, c) = [n \in 1..K |-> left[g[n]]]
    BY <1>4
<1>6. Len(left) = M
    <2>1. left \in [1..Len(left) -> S \ {b}] /\ DOMAIN left = 1..M
        BY <1>2, <1>3, LenProperties DEF IsLineOf
    <2>2. left \in [1..M -> S \ {b}]
        <3> HIDE DEF left
        <3> QED BY <2>1
    <2> HIDE DEF left
    <2> QED BY <2>2, SeqDef, LenProperties
<1>7. /\ f \in [1..M -> Q] /\ \A x \in Q : \E n \in 1..M : f[n] = x
      /\ \A m, n \in 1..M : m < n => f[m] < f[n]
    BY <1>2 DEF ListsUpwards
<1>8. \A n \in 1..M : left[n] = line[f[n]]
    BY <1>2
<1>9. PlacesBut(left, c) = {n \in 1..M : line[f[n]] # c}
    BY <1>6, <1>8 DEF PlacesBut
<1>10. /\ g \in [1..K -> {n \in 1..M : line[f[n]] # c}]
       /\ \A x \in 1..M : line[f[x]] # c => \E n \in 1..K : g[n] = x
       /\ \A m, n \in 1..K : m < n => g[m] < g[n]
    BY <1>5, <1>9 DEF ListsUpwards
<1>11. /\ Q \subseteq 1..Len(line) /\ P \subseteq Q
       /\ \A i \in Q : i \in P <=> line[i] # c
    BY DEF PlacesBut
<1> DEFINE kept == [n \in 1..K |-> f[g[n]]]
<1>12. ListsUpwards(kept, K, P)
    <2>1. \A n \in 1..K : g[n] \in 1..M /\ line[f[g[n]]] # c /\ f[g[n]] \in Q
        BY <1>7, <1>10
    <2>2. kept \in [1..K -> P]
        BY <1>11, <2>1
    <2>3. ASSUME NEW x \in P PROVE \E n \in 1..K : kept[n] = x
        <3>1. PICK m \in 1..M : f[m] = x
            BY <1>7, <1>11
        <3>2. PICK n \in 1..K : g[n] = m
            BY <1>10, <1>11, <3>1
        <3> QED BY <3>1, <3>2
    <2>4. \A m, n \in 1..K : m < n => kept[m] < kept[n]
        BY <1>7, <1>10, <2>1
    <2> HIDE DEF P, kept
    <2> QED BY <2>2, <2>3, <2>4 DEF ListsUpwards
<1>13. Retained(left, c) = [n \in 1..K |-> line[kept[n]]]
    <2>1. \A n \in 1..K : left[g[n]] = line[kept[n]]
        BY <1>8, <1>10
    <2> HIDE DEF left, kept
    <2> QED BY <1>5, <2>1
<1> HIDE DEF kept
<1> QED BY <1>12, <1>13 DEF Keeps

LEMMA RetainedCommutes ==
    ASSUME NEW S, NEW line, IsLineOf(line, S), NEW b, NEW c
    PROVE  Retained(Retained(line, b), c) = Retained(Retained(line, c), b)
<1> DEFINE P == PlacesBut(line, b) \cap PlacesBut(line, c)
<1>1. PICK K \in Nat : \E f : /\ ListsUpwards(f, K, P)
                              /\ Retained(Retained(line, b), c) = [n \in 1..K |-> line[f[n]]]
    <2>1. Keeps(Retained(Retained(line, b), c), line, P)
        BY RetainedTwice
    <2> QED BY <2>1 DEF Keeps
<1>2. PICK f : /\ ListsUpwards(f, K, P)
               /\ Retained(Retained(line, b), c) = [n \in 1..K |-> line[f[n]]]
    BY <1>1
<1>3. PlacesBut(line, c) \cap PlacesBut(line, b) = P
    OBVIOUS
<1>4. PICK M \in Nat : \E g : /\ ListsUpwards(g, M, P)
                              /\ Retained(Retained(line, c), b) = [n \in 1..M |-> line[g[n]]]
    <2>1. Keeps(Retained(Retained(line, c), b), line,
                PlacesBut(line, c) \cap PlacesBut(line, b))
        BY RetainedTwice
    <2>2. Keeps(Retained(Retained(line, c), b), line, P)
        BY <1>3, <2>1
    <2> QED BY <2>2 DEF Keeps
<1>5. PICK g : /\ ListsUpwards(g, M, P)
               /\ Retained(Retained(line, c), b) = [n \in 1..M |-> line[g[n]]]
    BY <1>4
<1>6. P \in SUBSET Nat
    BY DEF PlacesBut
<1> HIDE DEF P
<1>7. K = M /\ f = g
    BY <1>2, <1>5, <1>6, OneUpwardList
<1> QED BY <1>2, <1>5, <1>7

\* Who stands first in a line stays first when another leaves.
LEMMA RetainedHead ==
    ASSUME NEW S, NEW line, IsLineOf(line, S), line # <<>>, NEW c, c # Head(line)
    PROVE  /\ Retained(line, c) # <<>>
           /\ Head(Retained(line, c)) = Head(line)
           /\ Tail(Retained(line, c)) = Retained(Tail(line), c)
<1> DEFINE h == Head(line)
           left == Retained(line, c)
<1>1. IsLineOf(left, S \ {c})
    BY RetainedLine
<1>2. left # <<>>
    <2>1. h \in S \ {c}
        BY TailOfLine
    <2> QED BY <1>1, <2>1, LineLength
<1>3. Head(left) = h
    <2>1. PICK K \in Nat : \E f : /\ ListsUpwards(f, K, PlacesBut(line, c))
                                  /\ left = [n \in 1..K |-> line[f[n]]]
        BY RetainedPlaces DEF Keeps
    <2>2. PICK f : /\ ListsUpwards(f, K, PlacesBut(line, c))
                   /\ left = [n \in 1..K |-> line[f[n]]]
        BY <2>1
    <2>3. h = line[1] /\ Len(line) \in Nat /\ Len(line) >= 1
        BY EmptySeq, LenProperties DEF IsLineOf
    <2>4. 1 \in PlacesBut(line, c)
        BY <2>3 DEF PlacesBut
    <2>5. /\ f \in [1..K -> PlacesBut(line, c)]
          /\ \E n \in 1..K : f[n] = 1
          /\ \A m, n \in 1..K : m < n => f[m] < f[n]
        BY <2>2, <2>4 DEF ListsUpwards
    <2>6. \A n \in 1..K : f[n] \in 1..Len(line)
        BY <2>5 DEF PlacesBut
    <2>7. 1 \in 1..K /\ f[1] = 1
        <3>1. PICK n \in 1..K : f[n] = 1
            BY <2>5
        <3>2. 1 \in 1..K /\ ~(f[1] < f[n])
            BY <2>6, <3>1
        <3>3. n = 1
            BY <2>5, <3>2
        <3> QED BY <3>1, <3>2, <3>3
    <2> QED BY <2>2, <2>3, <2>7
<1> HIDE DEF left, h
<1>4. Tail(left) = Retained(left, h)
    BY <1>1, <1>2, <1>3, RetainedTail
<1>5. Retained(left, h) = Retained(Retained(line, h), c)
    BY RetainedCommutes DEF left
<1>6. Retained(line, h) = Tail(line)
    BY RetainedTail DEF h
<1> QED BY <1>2, <1>3, <1>4, <1>5, <1>6 DEF left, h

-----------------------------------------------------------------------------
(* The tables.                                                               *)

HoldersIn(A, k) == {a \in A : k \in DedupKeys[a]}
SpendsIn(A, l) == {a \in A : Launcher[a] = l}

\* d holds the tables of the bundles in A.
TablesOf(d, A) ==
    /\ DOMAIN d.bearer = UNION {DedupKeys[a] : a \in A}
    /\ \A k \in DOMAIN d.bearer :
        /\ d.bearer[k] \in HoldersIn(A, k)
        /\ IsLineOf(Line(d.waiters, k), HoldersIn(A, k) \ {d.bearer[k]})
    /\ DOMAIN d.waiters \subseteq DOMAIN d.bearer
    /\ \A k \in DOMAIN d.waiters : d.waiters[k] # <<>>
    /\ DOMAIN d.chains = {Launcher[a] : a \in A} \ {NoLauncher}
    /\ \A l \in DOMAIN d.chains : IsLineOf(d.chains[l], SpendsIn(A, l))
    /\ d.added \in [A -> Nat]

LEMMA NoTablesOf == TablesOf(NoTables, {})
BY DEF TablesOf, NoTables

\* An insertion.
LEMMA TablesWithOne ==
    ASSUME NEW A \in SUBSET Bundles, NEW d, TablesOf(d, A),
           NEW b \in Bundles, b \notin A, NEW h \in Nat
    PROVE  TablesOf(TablesWith(d, b, h), A \cup {b})
<1> DEFINE B == A \cup {b}
           keys == DedupKeys[b]
           held == keys \cap DOMAIN d.bearer
           e == TablesWith(d, b, h)
           own == {Launcher[b]} \ {NoLauncher}
<1>1. /\ e.bearer = Assign(d.bearer, keys \ held, b)
      /\ e.waiters = Joined(d.waiters, held, b)
      /\ e.chains = Joined(d.chains, own, b)
      /\ e.added = Assign(d.added, {b}, h)
    BY DEF TablesWith
<1> HIDE DEF e
<1>2. DOMAIN e.bearer = UNION {DedupKeys[a] : a \in B}
    BY <1>1 DEF TablesOf, Assign
<1>3. ASSUME NEW k \in DOMAIN e.bearer
      PROVE  /\ e.bearer[k] \in HoldersIn(B, k)
             /\ IsLineOf(Line(e.waiters, k), HoldersIn(B, k) \ {e.bearer[k]})
    <2>1. CASE k \in keys \ held
        <3>1. e.bearer[k] = b
            BY <1>1, <2>1 DEF Assign
        <3>2. HoldersIn(B, k) = {b}
            BY <2>1 DEF TablesOf, HoldersIn
        <3>3. Line(e.waiters, k) = <<>>
            BY <1>1, <2>1 DEF TablesOf, Joined, Line
        <3>4. HoldersIn(B, k) \ {e.bearer[k]} = {}
            BY <3>1, <3>2
        <3> QED BY <3>1, <3>2, <3>3, <3>4, EmptyLine
    <2>2. CASE k \in held
        <3>1. e.bearer[k] = d.bearer[k]
            BY <1>1, <2>2 DEF Assign
        <3>2. /\ HoldersIn(B, k) = HoldersIn(A, k) \cup {b}
              /\ d.bearer[k] \in HoldersIn(A, k) /\ b \notin HoldersIn(A, k)
            BY <2>2 DEF TablesOf, HoldersIn
        <3>3. Line(e.waiters, k) = Append(Line(d.waiters, k), b)
            BY <1>1, <2>2 DEF Joined, Line
        <3>4. IsLineOf(Line(d.waiters, k), HoldersIn(A, k) \ {d.bearer[k]})
            BY <2>2 DEF TablesOf
        <3>5. IsLineOf(Append(Line(d.waiters, k), b),
                       (HoldersIn(A, k) \ {d.bearer[k]}) \cup {b})
            BY <3>2, <3>4, AppendedLine
        <3>6. (HoldersIn(A, k) \ {d.bearer[k]}) \cup {b}
                = HoldersIn(B, k) \ {e.bearer[k]}
            BY <3>1, <3>2
        <3> QED BY <3>1, <3>2, <3>3, <3>5, <3>6
    <2>3. CASE k \notin keys
        <3>1. k \in DOMAIN d.bearer /\ e.bearer[k] = d.bearer[k]
            BY <1>1, <2>3 DEF Assign
        <3>2. HoldersIn(B, k) = HoldersIn(A, k)
            BY <2>3 DEF HoldersIn
        <3>3. Line(e.waiters, k) = Line(d.waiters, k)
            BY <1>1, <2>3 DEF Joined, Line
        <3> QED BY <3>1, <3>2, <3>3 DEF TablesOf
    <2> QED BY <2>1, <2>2, <2>3
<1>4. /\ DOMAIN e.waiters \subseteq DOMAIN e.bearer
      /\ \A k \in DOMAIN e.waiters : e.waiters[k] # <<>>
    <2>1. DOMAIN e.waiters \subseteq DOMAIN e.bearer
        BY <1>1 DEF TablesOf, Joined, Assign
    <2>2. ASSUME NEW k \in held
          PROVE  e.waiters[k] # <<>>
        <3> DEFINE before == Line(d.waiters, k)
                   S == HoldersIn(A, k) \ {d.bearer[k]}
        <3>1. e.waiters[k] = Append(before, b) /\ IsLineOf(before, S) /\ b \notin S
            BY <1>1 DEF TablesOf, Joined, HoldersIn
        <3> HIDE DEF before, S
        <3>2. IsLineOf(Append(before, b), S \cup {b})
            BY <3>1, AppendedLine
        <3> QED BY <3>1, <3>2, LineLength
    <2>3. \A k \in DOMAIN e.waiters \ held : e.waiters[k] # <<>>
        BY <1>1 DEF TablesOf, Joined
    <2> QED BY <2>1, <2>2, <2>3
<1>5. DOMAIN e.chains = {Launcher[a] : a \in B} \ {NoLauncher}
    BY <1>1 DEF TablesOf, Joined
<1>6. ASSUME NEW l \in DOMAIN e.chains
      PROVE  IsLineOf(e.chains[l], SpendsIn(B, l))
    <2>1. CASE l # Launcher[b]
        <3>1. l \in DOMAIN d.chains /\ e.chains[l] = d.chains[l]
            BY <1>1, <2>1 DEF Joined
        <3>2. SpendsIn(B, l) = SpendsIn(A, l)
            BY <2>1 DEF SpendsIn
        <3> QED BY <3>1, <3>2 DEF TablesOf
    <2>2. CASE l = Launcher[b]
        <3>1. l # NoLauncher /\ e.chains[l] = Append(Line(d.chains, l), b)
            BY <1>1, <1>5, <2>2 DEF Joined
        <3>2. IsLineOf(Line(d.chains, l), SpendsIn(A, l))
            <4>1. CASE l \in DOMAIN d.chains
                BY <4>1 DEF TablesOf, Line
            <4>2. CASE l \notin DOMAIN d.chains
                <5>1. SpendsIn(A, l) = {} /\ Line(d.chains, l) = <<>>
                    BY <3>1, <4>2 DEF TablesOf, SpendsIn, Line
                <5> QED BY <5>1, EmptyLine
            <4> QED BY <4>1, <4>2
        <3>3. SpendsIn(B, l) = SpendsIn(A, l) \cup {b} /\ b \notin SpendsIn(A, l)
            BY <2>2 DEF SpendsIn
        <3>4. IsLineOf(Append(Line(d.chains, l), b), SpendsIn(A, l) \cup {b})
            BY <3>2, <3>3, AppendedLine
        <3> QED BY <3>1, <3>3, <3>4
    <2> QED BY <2>1, <2>2
<1>7. e.added \in [B -> Nat]
    BY <1>1 DEF TablesOf, Assign
<1> HIDE DEF B
<1> QED BY <1>2, <1>3, <1>4, <1>5, <1>6, <1>7 DEF TablesOf, e, B

\* A removal.
LEMMA TablesWithoutOne ==
    ASSUME NEW A \in SUBSET Bundles, NEW d, TablesOf(d, A), NEW b \in A
    PROVE  TablesOf(TablesWithout(d, b), A \ {b})
<1> DEFINE B == A \ {b}
           keys == DedupKeys[b]
           borne == {k \in keys \cap DOMAIN d.bearer : d.bearer[k] = b}
           inherited == borne \cap DOMAIN d.waiters
           Waiting(k) == IF k \in inherited THEN Tail(d.waiters[k])
                         ELSE IF k \in keys THEN Retained(d.waiters[k], b)
                         ELSE d.waiters[k]
           Behind(l) == IF l = Launcher[b] THEN Retained(d.chains[l], b)
                        ELSE d.chains[l]
           e == TablesWithout(d, b)
<1>1. /\ e.bearer = [k \in (DOMAIN d.bearer \ borne) \cup inherited |->
                        IF k \in inherited THEN Head(d.waiters[k]) ELSE d.bearer[k]]
      /\ e.waiters = [k \in {x \in DOMAIN d.waiters : Waiting(x) # <<>>} |-> Waiting(k)]
      /\ e.chains = [l \in {x \in DOMAIN d.chains : Behind(x) # <<>>} |-> Behind(l)]
      /\ e.added = Without(d.added, {b})
    BY DEF TablesWithout, Shortened
<1>2. ASSUME NEW k \in DOMAIN d.waiters
      PROVE  IsLineOf(d.waiters[k], HoldersIn(A, k) \ {d.bearer[k]})
    BY DEF TablesOf, Line
<1>3. ASSUME NEW k \in DOMAIN d.waiters
      PROVE  IsLineOf(Waiting(k),
                IF k \in inherited
                THEN (HoldersIn(A, k) \ {b}) \ {Head(d.waiters[k])}
                ELSE HoldersIn(B, k) \ {d.bearer[k]})
    <2>1. CASE k \in inherited
        BY <1>2, <2>1, TailOfLine DEF TablesOf
    <2>2. CASE k \notin inherited /\ k \in keys
        <3>1. IsLineOf(Waiting(k), (HoldersIn(A, k) \ {d.bearer[k]}) \ {b})
            BY <1>2, <2>2, RetainedLine
        <3>2. (HoldersIn(A, k) \ {d.bearer[k]}) \ {b} = HoldersIn(B, k) \ {d.bearer[k]}
            BY DEF HoldersIn
        <3> QED BY <2>2, <3>1, <3>2
    <2>3. CASE k \notin inherited /\ k \notin keys
        <3>1. HoldersIn(A, k) = HoldersIn(B, k)
            BY <2>3 DEF HoldersIn
        <3> QED BY <1>2, <2>3, <3>1
    <2> QED BY <2>1, <2>2, <2>3
<1>4. \A k \in borne \ inherited : HoldersIn(A, k) = {b}
    <2> SUFFICES ASSUME NEW k \in borne \ inherited PROVE HoldersIn(A, k) = {b}
        OBVIOUS
    <2>1. Line(d.waiters, k) = <<>>
        BY DEF Line
    <2>2. /\ IsLineOf(Line(d.waiters, k), HoldersIn(A, k) \ {b})
          /\ b \in HoldersIn(A, k)
        BY DEF TablesOf
    <2>3. HoldersIn(A, k) \ {b} = {}
        BY <2>1, <2>2, LineLength
    <2> QED BY <2>2, <2>3
<1> HIDE DEF e, Waiting, Behind
<1>5. \A k : k \in inherited => Head(d.waiters[k]) \in HoldersIn(B, k)
    <2> SUFFICES ASSUME NEW k \in inherited
                 PROVE  Head(d.waiters[k]) \in HoldersIn(B, k)
        OBVIOUS
    <2>1. d.waiters[k] # <<>> /\ d.bearer[k] = b
        BY DEF TablesOf
    <2>2. Head(d.waiters[k]) \in HoldersIn(A, k) \ {b}
        BY <1>2, <2>1, TailOfLine
    <2> QED BY <2>2 DEF HoldersIn
<1>6. DOMAIN e.bearer = UNION {DedupKeys[a] : a \in B}
    <2>1. DOMAIN e.bearer \subseteq UNION {DedupKeys[a] : a \in B}
        <3> SUFFICES ASSUME NEW k \in DOMAIN e.bearer PROVE \E a \in B : k \in DedupKeys[a]
            OBVIOUS
        <3>1. CASE k \in inherited
            BY <1>5, <3>1 DEF HoldersIn
        <3>2. CASE k \in DOMAIN d.bearer \ borne
            BY <3>2 DEF TablesOf, HoldersIn
        <3> QED BY <1>1, <3>1, <3>2
    <2>2. UNION {DedupKeys[a] : a \in B} \subseteq DOMAIN d.bearer
        BY DEF TablesOf
    <2>3. ASSUME NEW k \in borne \ inherited
          PROVE  k \notin UNION {DedupKeys[a] : a \in B}
        BY <1>4 DEF HoldersIn
    <2> QED BY <1>1, <2>1, <2>2, <2>3
<1>7. ASSUME NEW k \in DOMAIN e.bearer
      PROVE  /\ e.bearer[k] \in HoldersIn(B, k)
             /\ IsLineOf(Line(e.waiters, k), HoldersIn(B, k) \ {e.bearer[k]})
    <2>1. Line(e.waiters, k) = IF k \in DOMAIN d.waiters THEN Waiting(k) ELSE <<>>
        BY <1>1 DEF Line
    <2>2. CASE k \in inherited
        <3>1. e.bearer[k] = Head(d.waiters[k])
            BY <1>1, <2>2
        <3>2. HoldersIn(A, k) \ {b} = HoldersIn(B, k)
            BY DEF HoldersIn
        <3> QED BY <1>3, <1>5, <2>1, <2>2, <3>1, <3>2
    <2>3. CASE k \notin inherited
        <3>1. k \in DOMAIN d.bearer \ borne /\ e.bearer[k] = d.bearer[k]
            BY <1>1, <2>3
        <3>2. d.bearer[k] \in HoldersIn(B, k)
            BY <3>1 DEF TablesOf, HoldersIn
        <3>3. CASE k \in DOMAIN d.waiters
            BY <1>3, <2>1, <2>3, <3>1, <3>2, <3>3
        <3>4. CASE k \notin DOMAIN d.waiters
            <4>1. Line(d.waiters, k) = <<>>
                BY <3>4 DEF Line
            <4>2. IsLineOf(<<>>, HoldersIn(A, k) \ {d.bearer[k]})
                BY <3>1, <4>1 DEF TablesOf
            <4>3. HoldersIn(A, k) \ {d.bearer[k]} = {}
                BY <4>2, LineLength
            <4>4. HoldersIn(B, k) \ {d.bearer[k]} = {}
                BY <4>3 DEF HoldersIn
            <4> QED BY <2>1, <3>1, <3>2, <3>4, <4>4, EmptyLine
        <3> QED BY <3>3, <3>4
    <2> QED BY <2>2, <2>3
<1>8. /\ DOMAIN e.waiters \subseteq DOMAIN e.bearer
      /\ \A k \in DOMAIN e.waiters : e.waiters[k] # <<>>
    BY <1>1 DEF TablesOf
<1>9. ASSUME NEW l \in DOMAIN d.chains
      PROVE  IsLineOf(Behind(l), SpendsIn(B, l))
    <2>1. CASE l = Launcher[b]
        <3>1. IsLineOf(Retained(d.chains[l], b), SpendsIn(A, l) \ {b})
            BY RetainedLine DEF TablesOf
        <3>2. SpendsIn(A, l) \ {b} = SpendsIn(B, l)
            BY DEF SpendsIn
        <3> QED BY <2>1, <3>1, <3>2 DEF Behind
    <2>2. CASE l # Launcher[b]
        <3>1. SpendsIn(B, l) = SpendsIn(A, l)
            BY <2>2 DEF SpendsIn
        <3> QED BY <2>2, <3>1 DEF TablesOf, Behind
    <2> QED BY <2>1, <2>2
<1>10. \A l \in DOMAIN d.chains : Behind(l) = <<>> <=> SpendsIn(B, l) = {}
    BY <1>9, LineLength
<1>11. DOMAIN e.chains = {Launcher[a] : a \in B} \ {NoLauncher}
    BY <1>1, <1>10 DEF TablesOf, SpendsIn
<1>12. \A l \in DOMAIN e.chains : IsLineOf(e.chains[l], SpendsIn(B, l))
    BY <1>1, <1>9
<1>13. e.added \in [B -> Nat]
    BY <1>1 DEF TablesOf, Without
<1> HIDE DEF B
<1> QED BY <1>6, <1>7, <1>8, <1>11, <1>12, <1>13 DEF TablesOf, e, B

\* In e, which is d without b, the bearer of a key and its line are what they
\* are once b has left the line, which its bearer heads.
LeftBy(d, e, b, k) ==
    LET w == Line(d.waiters, k)
    IN  /\ d.bearer[k] = b /\ w = <<>> => k \notin DOMAIN e.bearer
        /\ d.bearer[k] = b /\ w # <<>> =>
                /\ k \in DOMAIN e.bearer /\ e.bearer[k] = Head(w)
                /\ Line(e.waiters, k) = Tail(w)
        /\ d.bearer[k] # b =>
                /\ k \in DOMAIN e.bearer /\ e.bearer[k] = d.bearer[k]
                /\ Line(e.waiters, k) = Retained(w, b)

LEMMA KeyWithout ==
    ASSUME NEW A \in SUBSET Bundles, NEW d, TablesOf(d, A), NEW b \in A,
           NEW k \in DOMAIN d.bearer
    PROVE  LeftBy(d, TablesWithout(d, b), b, k)
<1> DEFINE keys == DedupKeys[b]
           borne == {x \in keys \cap DOMAIN d.bearer : d.bearer[x] = b}
           inherited == borne \cap DOMAIN d.waiters
           Waiting(x) == IF x \in inherited THEN Tail(d.waiters[x])
                         ELSE IF x \in keys THEN Retained(d.waiters[x], b)
                         ELSE d.waiters[x]
           e == TablesWithout(d, b)
           w == Line(d.waiters, k)
<1>1. /\ e.bearer = [x \in (DOMAIN d.bearer \ borne) \cup inherited |->
                        IF x \in inherited THEN Head(d.waiters[x]) ELSE d.bearer[x]]
      /\ e.waiters = [x \in {y \in DOMAIN d.waiters : Waiting(y) # <<>>} |-> Waiting(x)]
    BY DEF TablesWithout, Shortened
<1>2. IsLineOf(w, HoldersIn(A, k) \ {d.bearer[k]})
    BY DEF TablesOf
<1>3. /\ d.bearer[k] \in HoldersIn(A, k)
      /\ \A x \in DOMAIN d.waiters : d.waiters[x] # <<>>
    BY DEF TablesOf
<1>4. w # <<>> <=> k \in DOMAIN d.waiters
    BY <1>3 DEF Line
<1>5. Line(e.waiters, k) = IF k \in DOMAIN d.waiters THEN Waiting(k) ELSE <<>>
    BY <1>1 DEF Line
<1>6. k \in DOMAIN d.waiters => w = d.waiters[k]
    BY DEF Line
<1>7. k \in borne <=> d.bearer[k] = b
    BY <1>3 DEF HoldersIn
<1>8. Retained(<<>>, b) = <<>>
    BY EmptyLine, RetainedAbsent
<1>9. k \notin keys => Retained(w, b) = w
    BY <1>2, RetainedAbsent DEF HoldersIn
<1> HIDE DEF e, w, borne, keys
<1>10. CASE d.bearer[k] = b
    BY <1>1, <1>4, <1>5, <1>6, <1>7, <1>10 DEF LeftBy, e, w
<1>11. CASE d.bearer[k] # b
    <2>1. k \in DOMAIN e.bearer /\ e.bearer[k] = d.bearer[k]
        BY <1>1, <1>7, <1>11
    <2>2. Line(e.waiters, k) = Retained(w, b)
        BY <1>4, <1>5, <1>6, <1>7, <1>8, <1>9, <1>11
    <2> QED BY <1>11, <2>1, <2>2 DEF LeftBy, e, w
<1> QED BY <1>10, <1>11

\* What the removal of b does to the chain of a singleton.
LEMMA ChainWithout ==
    ASSUME NEW A \in SUBSET Bundles, NEW d, TablesOf(d, A), NEW b \in A
    PROVE  LET e == TablesWithout(d, b)
           IN  e.chains = [l \in {x \in DOMAIN d.chains : Retained(d.chains[x], b) # <<>>}
                            |-> Retained(d.chains[l], b)]
<1> DEFINE Behind(l) == IF l = Launcher[b] THEN Retained(d.chains[l], b)
                        ELSE d.chains[l]
           e == TablesWithout(d, b)
<1>1. e.chains = [l \in {x \in DOMAIN d.chains : Behind(x) # <<>>} |-> Behind(l)]
    BY DEF TablesWithout, Shortened
<1>2. \A l \in DOMAIN d.chains : Behind(l) = Retained(d.chains[l], b)
    <2> SUFFICES ASSUME NEW l \in DOMAIN d.chains, l # Launcher[b]
                 PROVE  d.chains[l] = Retained(d.chains[l], b)
        OBVIOUS
    <2>1. IsLineOf(d.chains[l], SpendsIn(A, l)) /\ b \notin SpendsIn(A, l)
        BY DEF TablesOf, SpendsIn
    <2> QED BY <2>1, RetainedAbsent
<1> HIDE DEF Behind, e
<1> QED BY <1>1, <1>2 DEF e

\* The tables agree about a key.
SameKey(d, e, k) ==
    /\ k \in DOMAIN d.bearer <=> k \in DOMAIN e.bearer
    /\ k \in DOMAIN d.bearer => /\ d.bearer[k] = e.bearer[k]
                                /\ Line(d.waiters, k) = Line(e.waiters, k)

LEMMA KeyWithoutTwo ==
    ASSUME NEW A \in SUBSET Bundles, NEW d, TablesOf(d, A), NEW b \in A, NEW c \in A, b # c,
           NEW k \in DOMAIN d.bearer, d.bearer[k] # c
    PROVE  SameKey(TablesWithout(TablesWithout(d, b), c),
                   TablesWithout(TablesWithout(d, c), b), k)
<1> DEFINE e == TablesWithout(d, b)
           f == TablesWithout(d, c)
           g == TablesWithout(e, c)
           h == TablesWithout(f, b)
           w == Line(d.waiters, k)
<1>1. TablesOf(e, A \ {b}) /\ TablesOf(f, A \ {c})
    BY TablesWithoutOne
<1>2. IsLineOf(w, HoldersIn(A, k) \ {d.bearer[k]})
    BY DEF TablesOf
<1>3. LeftBy(d, e, b, k)
    BY KeyWithout
<1>4. LeftBy(d, f, c, k)
    BY KeyWithout
<1>5. k \in DOMAIN e.bearer => LeftBy(e, g, c, k)
    <2> HIDE DEF e
    <2> QED BY <1>1, KeyWithout
<1>6. LeftBy(f, h, b, k)
    <2>1. k \in DOMAIN f.bearer
        BY <1>4 DEF LeftBy
    <2> HIDE DEF f
    <2> QED BY <1>1, <2>1, KeyWithout
<1>7. k \notin DOMAIN e.bearer => k \notin DOMAIN g.bearer
    BY DEF TablesWithout
<1> HIDE DEF g, h
<1>8. CASE d.bearer[k] # b
    <2>1. Retained(Retained(w, b), c) = Retained(Retained(w, c), b)
        BY <1>2, RetainedCommutes
    <2> HIDE DEF e, f, w
    <2> QED BY <1>3, <1>4, <1>5, <1>6, <1>8, <2>1 DEF LeftBy, SameKey, e, f, g, h, w
<1>9. CASE d.bearer[k] = b /\ w = <<>>
    <2>1. Retained(<<>>, c) = <<>>
        BY EmptyLine, RetainedAbsent
    <2> HIDE DEF e, f, w
    <2> QED BY <1>3, <1>4, <1>6, <1>7, <1>9, <2>1 DEF LeftBy, SameKey, e, f, g, h, w
<1>10. CASE d.bearer[k] = b /\ w # <<>> /\ Head(w) = c
    <2>1. Retained(w, c) = Tail(w)
        BY <1>2, <1>10, RetainedTail
    <2> HIDE DEF e, f, w
    <2> QED BY <1>3, <1>4, <1>5, <1>6, <1>10, <2>1 DEF LeftBy, SameKey, e, f, g, h, w
<1>11. CASE d.bearer[k] = b /\ w # <<>> /\ Head(w) # c
    <2>1. /\ Retained(w, c) # <<>>
          /\ Head(Retained(w, c)) = Head(w)
          /\ Tail(Retained(w, c)) = Retained(Tail(w), c)
        BY <1>2, <1>11, RetainedHead
    <2> HIDE DEF e, f, w
    <2> QED BY <1>3, <1>4, <1>5, <1>6, <1>11, <2>1 DEF LeftBy, SameKey, e, f, g, h, w
<1> QED BY <1>8, <1>9, <1>10, <1>11

\* Two removals can be exchanged.
LEMMA TablesWithoutTwo ==
    ASSUME NEW A \in SUBSET Bundles, NEW d, TablesOf(d, A), NEW b \in A, NEW c \in A, b # c
    PROVE  TablesWithout(TablesWithout(d, b), c) = TablesWithout(TablesWithout(d, c), b)
<1> DEFINE e == TablesWithout(d, b)
           f == TablesWithout(d, c)
           g == TablesWithout(e, c)
           h == TablesWithout(f, b)
           rest == A \ {b, c}
<1>1. TablesOf(e, A \ {b}) /\ TablesOf(f, A \ {c})
    BY TablesWithoutOne
<1>2. TablesOf(g, rest) /\ TablesOf(h, rest)
    <2>1. (A \ {b}) \ {c} = rest /\ (A \ {c}) \ {b} = rest
        OBVIOUS
    <2>2. c \in A \ {b} /\ b \in A \ {c}
        OBVIOUS
    <2> HIDE DEF e, f, rest
    <2> QED BY <1>1, <2>1, <2>2, TablesWithoutOne
<1>3. /\ g = [bearer |-> g.bearer, waiters |-> g.waiters,
              chains |-> g.chains, added |-> g.added]
      /\ h = [bearer |-> h.bearer, waiters |-> h.waiters,
              chains |-> h.chains, added |-> h.added]
    <2> HIDE DEF e, f
    <2> QED BY DEF TablesWithout
<1>4. /\ g.bearer = [k \in DOMAIN g.bearer |-> g.bearer[k]]
      /\ h.bearer = [k \in DOMAIN h.bearer |-> h.bearer[k]]
      /\ g.waiters = [k \in DOMAIN g.waiters |-> g.waiters[k]]
      /\ h.waiters = [k \in DOMAIN h.waiters |-> h.waiters[k]]
    <2> HIDE DEF e, f
    <2> QED BY DEF TablesWithout, Shortened
<1>5. ASSUME NEW k \in DOMAIN d.bearer
      PROVE  SameKey(g, h, k)
    <2>1. CASE d.bearer[k] # c
        BY <2>1, KeyWithoutTwo
    <2>2. CASE d.bearer[k] = c
        <3>1. SameKey(h, g, k)
            BY <2>2, KeyWithoutTwo
        <3> HIDE DEF g, h
        <3> QED BY <3>1 DEF SameKey
    <2> QED BY <2>1, <2>2
<1>6. DOMAIN g.bearer \subseteq DOMAIN d.bearer /\ DOMAIN h.bearer \subseteq DOMAIN d.bearer
    <2> HIDE DEF g, h
    <2> QED BY <1>2 DEF TablesOf, rest
<1>7. g.added = h.added
    BY DEF TablesWithout, Without
<1>8. g.chains = h.chains
    <2> DEFINE twice(l) == Retained(Retained(d.chains[l], b), c)
    <2>1. e.chains = [l \in {x \in DOMAIN d.chains : Retained(d.chains[x], b) # <<>>}
                        |-> Retained(d.chains[l], b)]
        BY ChainWithout
    <2>2. f.chains = [l \in {x \in DOMAIN d.chains : Retained(d.chains[x], c) # <<>>}
                        |-> Retained(d.chains[l], c)]
        BY ChainWithout
    <2>3. /\ g.chains = [l \in {x \in DOMAIN e.chains : Retained(e.chains[x], c) # <<>>}
                            |-> Retained(e.chains[l], c)]
          /\ h.chains = [l \in {x \in DOMAIN f.chains : Retained(f.chains[x], b) # <<>>}
                            |-> Retained(f.chains[l], b)]
        <3>1. c \in A \ {b} /\ b \in A \ {c}
            OBVIOUS
        <3> HIDE DEF e, f
        <3> QED BY <1>1, <3>1, ChainWithout
    <2>4. \A l \in DOMAIN d.chains :
            Retained(Retained(d.chains[l], c), b) = twice(l)
        BY RetainedCommutes DEF TablesOf
    <2>5. Retained(<<>>, b) = <<>> /\ Retained(<<>>, c) = <<>>
        BY EmptyLine, RetainedAbsent
    <2> HIDE DEF e, f, g, h
    <2>6. g.chains = [l \in {x \in DOMAIN d.chains : twice(x) # <<>>} |-> twice(l)]
        BY <2>1, <2>3, <2>5
    <2>7. h.chains = [l \in {x \in DOMAIN d.chains : twice(x) # <<>>} |-> twice(l)]
        BY <2>2, <2>3, <2>4, <2>5
    <2> QED BY <2>6, <2>7
<1> HIDE DEF g, h
<1>9. g.bearer = h.bearer
    <2>1. DOMAIN g.bearer = DOMAIN h.bearer
        BY <1>5, <1>6 DEF SameKey
    <2>2. \A k \in DOMAIN g.bearer : g.bearer[k] = h.bearer[k]
        BY <1>5, <1>6 DEF SameKey
    <2> QED BY <1>4, <2>1, <2>2
<1>10. g.waiters = h.waiters
    <2>1. \A k : k \in DOMAIN g.waiters => k \in DOMAIN g.bearer /\ g.waiters[k] # <<>>
        BY <1>2 DEF TablesOf
    <2>2. \A k : k \in DOMAIN h.waiters => k \in DOMAIN h.bearer /\ h.waiters[k] # <<>>
        BY <1>2 DEF TablesOf
    <2>3. \A k : k \in DOMAIN g.bearer \/ k \in DOMAIN h.bearer =>
                    Line(g.waiters, k) = Line(h.waiters, k)
        BY <1>5, <1>6 DEF SameKey
    <2>4. DOMAIN g.waiters = DOMAIN h.waiters
        BY <2>1, <2>2, <2>3 DEF Line
    <2>5. \A k \in DOMAIN g.waiters : g.waiters[k] = h.waiters[k]
        BY <2>1, <2>3, <2>4 DEF Line
    <2> QED BY <1>4, <2>4, <2>5
<1>11. g = h
    BY <1>3, <1>7, <1>8, <1>9, <1>10
<1> QED BY <1>11 DEF g, h

LEMMA IdOrderLine == IsLineOf(IdOrder, Bundles) /\ Len(IdOrder) \in Nat
<1> DEFINE N == Len(IdOrder)
<1>1. /\ N \in Nat /\ IdOrder \in [1..N -> Bundles] /\ N = Cardinality(Bundles)
      /\ IdOrder \in Seq(Bundles)
    BY TableData, LenProperties
<1>2. \A x \in Bundles : \E n \in 1..N : IdOrder[n] = x
    BY <1>1, TableData DEF Elements
<1>3. IdOrder \in Surjection(1..N, Bundles)
    BY <1>1, <1>2 DEF Surjection
<1>4. IsFiniteSet(1..N) /\ Cardinality(1..N) = N
    BY <1>1, FS_Interval
<1>5. IdOrder \in Injection(1..N, Bundles)
    BY <1>1, <1>3, <1>4, FS_Surjection
<1> QED BY <1>1, <1>2, <1>5 DEF IsLineOf, Injection, IsInjective

\* f holds the tables after each step of TablesWithoutAll.
WithoutInOrder(f, d, S) ==
    /\ f[0] = d
    /\ \A n \in 1..Len(IdOrder) :
            f[n] = IF IdOrder[n] \in S
                   THEN TablesWithout(f[n - 1], IdOrder[n])
                   ELSE f[n - 1]
    /\ TablesWithoutAll(d, S) = f[Len(IdOrder)]

\* The recursion of TablesWithoutAll has a solution.
LEMMA WithoutAllUnfolds ==
    ASSUME NEW d, NEW S
    PROVE  \E f : WithoutInOrder(f, d, S)
<1> DEFINE N == Len(IdOrder)
           Step(n, e) == IF IdOrder[n] \in S THEN TablesWithout(e, IdOrder[n]) ELSE e
           Solves(f, m) ==
                f = [n \in 0..m |-> IF n = 0 THEN d ELSE Step(n, f[n - 1])]
           unsolved == {m \in 0..N : ~\E f : Solves(f, m)}
<1>1. N \in Nat
    BY IdOrderLine
<1>2. \E after : Solves(after, N) /\ TablesWithoutAll(d, S) = after[N]
    <2>1. (\E f : Solves(f, N)) => Solves(CHOOSE f : Solves(f, N), N)
        OBVIOUS
    <2>2. TablesWithoutAll(d, S) = (CHOOSE f : Solves(f, N))[N]
        BY DEF TablesWithoutAll
    <2> HIDE DEF Step
    <2>3. unsolved = {}
        <3> SUFFICES ASSUME unsolved # {} PROVE FALSE
            OBVIOUS
        <3>1. PICK m \in unsolved : \A x \in unsolved : m <= x
            <4>1. unsolved \in SUBSET Nat
                BY <1>1
            <4> HIDE DEF unsolved
            <4> QED BY <4>1, LeastNatural
        <3>2. CASE m = 0
            <4> DEFINE f == [n \in 0..0 |-> d]
            <4>1. Solves(f, 0)
                OBVIOUS
            <4> QED BY <3>2, <4>1
        <3>3. CASE m # 0
            <4>1. m - 1 \in 0..N /\ m \in Nat /\ m - 1 \in Nat /\ ~(m <= m - 1)
                BY <1>1, <3>3
            <4>2. PICK g : Solves(g, m - 1)
                BY <3>1, <4>1
            <4> DEFINE f == [n \in 0..m |-> IF n = m THEN Step(m, g[m - 1]) ELSE g[n]]
            <4>3. \A n \in 0..(m - 1) :
                    g[n] = IF n = 0 THEN d ELSE Step(n, g[n - 1])
                BY <4>2
            <4>4. ASSUME NEW n \in 0..m
                  PROVE  f[n] = IF n = 0 THEN d ELSE Step(n, f[n - 1])
                <5>1. CASE n = m
                    BY <3>3, <4>1, <5>1
                <5>2. CASE n = 0
                    BY <3>3, <4>1, <4>3, <5>2
                <5>3. CASE n # m /\ n # 0
                    <6>1. n \in 0..(m - 1) /\ n - 1 \in 0..m /\ n - 1 # m
                        BY <4>1, <5>3
                    <6>2. f[n] = g[n] /\ f[n - 1] = g[n - 1]
                        BY <5>3, <6>1
                    <6> HIDE DEF f
                    <6> QED BY <4>3, <5>3, <6>1, <6>2
                <5> QED BY <5>1, <5>2, <5>3
            <4>5. Solves(f, m)
                BY <4>4
            <4> QED BY <4>5
        <3> QED BY <3>2, <3>3
    <2>4. \E f : Solves(f, N)
        BY <1>1, <2>3
    <2> HIDE DEF Solves
    <2> QED BY <2>1, <2>2, <2>4
<1>3. PICK after : Solves(after, N) /\ TablesWithoutAll(d, S) = after[N]
    BY <1>2
<1> HIDE DEF Step
<1>4. \A n \in 0..N : after[n] = IF n = 0 THEN d ELSE Step(n, after[n - 1])
    BY <1>3
<1>5. after[0] = d /\ \A n \in 1..N : after[n] = Step(n, after[n - 1])
    BY <1>1, <1>4
<1> QED BY <1>3, <1>5 DEF Step, WithoutInOrder

\* Who is left of A after the first n steps.
LeftAfter(A, S, n) == A \ {b \in S : \E i \in 1..n : IdOrder[i] = b}

\* A removal of several bundles.
LEMMA TablesAlong ==
    ASSUME NEW A \in SUBSET Bundles, NEW d, TablesOf(d, A), NEW S \in SUBSET A,
           NEW f, WithoutInOrder(f, d, S)
    PROVE  \A n \in 0..Len(IdOrder) : TablesOf(f[n], LeftAfter(A, S, n))
<1> DEFINE N == Len(IdOrder)
           Left(n) == LeftAfter(A, S, n)
<1>1. /\ f[0] = d
      /\ \A n \in 1..N :
            f[n] = IF IdOrder[n] \in S
                   THEN TablesWithout(f[n - 1], IdOrder[n])
                   ELSE f[n - 1]
    BY DEF WithoutInOrder
<1> DEFINE wrong == {n \in 0..N : ~TablesOf(f[n], Left(n))}
<1>2. N \in Nat /\ IdOrder \in [1..N -> Bundles]
    BY IdOrderLine, LenProperties DEF IsLineOf
<1>3. wrong = {}
    <2> SUFFICES ASSUME wrong # {} PROVE FALSE
        OBVIOUS
    <2>1. PICK m \in wrong : \A x \in wrong : m <= x
        <3>1. wrong \in SUBSET Nat
            BY <1>2
        <3> HIDE DEF wrong
        <3> QED BY <3>1, LeastNatural
    <2>2. CASE m = 0
        <3>1. Left(0) = A
            BY DEF LeftAfter
        <3> QED BY <1>1, <2>2, <3>1
    <2>3. CASE m # 0
        <3>1. m \in 1..N /\ m - 1 \in 0..N /\ ~(m <= m - 1)
            BY <1>2, <2>3
        <3> DEFINE b == IdOrder[m]
        <3>2. TablesOf(f[m - 1], Left(m - 1)) /\ ~TablesOf(f[m], Left(m))
            BY <2>1, <3>1
        <3>3. 1..m = 1..(m - 1) \cup {m}
            BY <1>2, <3>1
        <3>4. Left(m) = IF b \in S THEN Left(m - 1) \ {b} ELSE Left(m - 1)
            BY <3>3 DEF LeftAfter
        <3>5. \A i \in 1..(m - 1) : IdOrder[i] # b
            BY <1>2, <3>1, IdOrderLine DEF IsLineOf
        <3>6. b \in S => b \in Left(m - 1)
            BY <3>5 DEF LeftAfter
        <3>7. Left(m - 1) \in SUBSET Bundles
            BY DEF LeftAfter
        <3>8. f[m] = IF b \in S THEN TablesWithout(f[m - 1], b) ELSE f[m - 1]
            BY <1>1, <3>1
        <3> HIDE DEF Left, b
        <3> QED BY <3>2, <3>4, <3>6, <3>7, <3>8, TablesWithoutOne
    <2> QED BY <2>2, <2>3
<1> QED BY <1>3

LEMMA TablesWithoutSet ==
    ASSUME NEW A \in SUBSET Bundles, NEW d, TablesOf(d, A), NEW S \in SUBSET A
    PROVE  TablesOf(TablesWithoutAll(d, S), A \ S)
<1> DEFINE N == Len(IdOrder)
<1>1. PICK f : WithoutInOrder(f, d, S)
    BY WithoutAllUnfolds
<1>2. TablesWithoutAll(d, S) = f[N] /\ N \in 0..N
    BY <1>1, IdOrderLine DEF WithoutInOrder
<1>3. TablesOf(f[N], LeftAfter(A, S, N))
    BY <1>1, <1>2, TablesAlong
<1>4. LeftAfter(A, S, N) = A \ S
    BY IdOrderLine DEF IsLineOf, LeftAfter
<1> QED BY <1>2, <1>3, <1>4

\* Several removals leave the same tables whichever bundle goes last, and
\* hence in whatever order they go: that of the ids, in TablesWithoutAll, is as
\* good as any.
THEOREM TableRemovalsCompose ==
    ASSUME NEW A \in SUBSET Bundles, NEW d, TablesOf(d, A),
           NEW S \in SUBSET A, NEW b \in A \ S
    PROVE  TablesWithoutAll(d, S \cup {b}) = TablesWithout(TablesWithoutAll(d, S), b)
<1> DEFINE N == Len(IdOrder)
           T == S \cup {b}
<1>1. PICK f : WithoutInOrder(f, d, S)
    BY WithoutAllUnfolds
<1>2. PICK g : WithoutInOrder(g, d, T)
    BY WithoutAllUnfolds
<1>3. /\ f[0] = d /\ TablesWithoutAll(d, S) = f[N]
      /\ \A n \in 1..N : f[n] = IF IdOrder[n] \in S
                                THEN TablesWithout(f[n - 1], IdOrder[n]) ELSE f[n - 1]
    BY <1>1 DEF WithoutInOrder
<1>4. /\ g[0] = d /\ TablesWithoutAll(d, T) = g[N]
      /\ \A n \in 1..N : g[n] = IF IdOrder[n] \in T
                                THEN TablesWithout(g[n - 1], IdOrder[n]) ELSE g[n - 1]
    BY <1>2 DEF WithoutInOrder
<1>5. N \in Nat /\ IdOrder \in [1..N -> Bundles]
      /\ \A m, n \in 1..N : IdOrder[m] = IdOrder[n] => m = n
    BY IdOrderLine, LenProperties DEF IsLineOf
<1>6. PICK p \in 1..N : IdOrder[p] = b
    BY IdOrderLine DEF IsLineOf
<1> DEFINE wrong == {n \in 0..N : g[n] # (IF n < p THEN f[n] ELSE TablesWithout(f[n], b))}
<1>7. wrong = {}
    <2> SUFFICES ASSUME wrong # {} PROVE FALSE
        OBVIOUS
    <2>1. PICK m \in wrong : \A x \in wrong : m <= x
        <3>1. wrong \in SUBSET Nat
            BY <1>5
        <3> HIDE DEF wrong
        <3> QED BY <3>1, LeastNatural
    <2>2. CASE m = 0
        <3>1. 0 < p
            BY <1>5
        <3> QED BY <1>3, <1>4, <2>2, <3>1
    <2>3. CASE m # 0
        <3> DEFINE x == IdOrder[m]
        <3>1. m \in 1..N /\ m - 1 \in 0..N /\ ~(m <= m - 1)
            BY <1>5, <2>3
        <3>2. g[m - 1] = IF m - 1 < p THEN f[m - 1] ELSE TablesWithout(f[m - 1], b)
            BY <2>1, <3>1
        <3>3. g[m] # IF m < p THEN f[m] ELSE TablesWithout(f[m], b)
            OBVIOUS
        <3>4. /\ f[m] = IF x \in S THEN TablesWithout(f[m - 1], x) ELSE f[m - 1]
              /\ g[m] = IF x \in T THEN TablesWithout(g[m - 1], x) ELSE g[m - 1]
            BY <1>3, <1>4, <3>1
        <3>5. x = b <=> m = p
            BY <1>5, <1>6, <3>1
        <3>6. b \notin S
            OBVIOUS
        <3> HIDE DEF wrong, x
        <3>7. CASE m < p
            <4>1. m - 1 < p /\ m # p
                BY <1>5, <3>1, <3>7
            <4> QED BY <3>2, <3>3, <3>4, <3>5, <3>7, <4>1
        <3>8. CASE m = p
            <4>1. m - 1 < p /\ ~(m < p)
                BY <1>5, <3>1, <3>8
            <4> QED BY <3>2, <3>3, <3>4, <3>5, <3>6, <3>8, <4>1
        <3>9. CASE p < m
            <4>1. ~(m - 1 < p) /\ ~(m < p) /\ m # p
                BY <1>5, <3>1, <3>9
            <4>2. CASE x \notin S
                BY <3>2, <3>3, <3>4, <3>5, <4>1, <4>2
            <4>3. CASE x \in S
                <5> DEFINE B == LeftAfter(A, S, m - 1)
                <5>1. TablesOf(f[m - 1], B) /\ B \in SUBSET Bundles
                    <6>1. B \in SUBSET Bundles
                        BY DEF LeftAfter
                    <6>2. \A n \in 0..N : TablesOf(f[n], LeftAfter(A, S, n))
                        BY <1>1, TablesAlong
                    <6> QED BY <3>1, <6>1, <6>2
                <5>2. b \in B
                    BY <3>6 DEF LeftAfter
                <5>3. x \in B
                    <6>1. \A i \in 1..(m - 1) : IdOrder[i] # x
                        BY <1>5, <3>1 DEF x
                    <6> QED BY <4>3, <6>1 DEF LeftAfter
                <5>4. x # b
                    BY <3>5, <4>1
                <5> HIDE DEF B
                <5>5. TablesWithout(TablesWithout(f[m - 1], b), x)
                        = TablesWithout(TablesWithout(f[m - 1], x), b)
                    BY <5>1, <5>2, <5>3, <5>4, TablesWithoutTwo
                <5> QED BY <3>2, <3>3, <3>4, <4>1, <4>3, <5>5
            <4> QED BY <4>2, <4>3
        <3> QED BY <1>5, <3>1, <3>7, <3>8, <3>9
    <2> QED BY <2>2, <2>3
<1>8. g[N] = TablesWithout(f[N], b)
    <2>1. N \in 0..N /\ ~(N < p) /\ N \notin wrong
        BY <1>5, <1>7
    <2> QED BY <2>1
<1> QED BY <1>3, <1>4, <1>8
-----------------------------------------------------------------------------
(* restore(): the items enter empty tables one after the other.              *)

\* The item that is inserted as the n-th.
Ranks(rank, n) == CHOOSE x \in DOMAIN rank : rank[x] = n

\* f holds the tables after each step of RefilledTables.
RefilledInOrder(f, added, rank) ==
    /\ f[0] = NoTables
    /\ \A n \in 1..Cardinality(DOMAIN rank) :
            f[n] = TablesWith(f[n - 1], Ranks(rank, n), added[Ranks(rank, n)])
    /\ RefilledTables(added, rank) = f[Cardinality(DOMAIN rank)]

\* The recursion of RefilledTables has a solution.
LEMMA RefilledUnfolds ==
    ASSUME NEW S, IsFiniteSet(S), NEW rank \in Orders(S), NEW added
    PROVE  \E f : RefilledInOrder(f, added, rank)
<1> DEFINE N == Cardinality(S)
           Step(n, e) == TablesWith(e, Ranks(rank, n), added[Ranks(rank, n)])
           Solves(f, m) ==
                f = [n \in 0..m |-> IF n = 0 THEN NoTables ELSE Step(n, f[n - 1])]
           unsolved == {m \in 0..N : ~\E f : Solves(f, m)}
<1>0. DOMAIN rank = S
    BY DEF Orders
<1>1. N \in Nat
    BY FS_CardinalityType
<1>2. \E after : Solves(after, N) /\ RefilledTables(added, rank) = after[N]
    <2>1. (\E f : Solves(f, N)) => Solves(CHOOSE f : Solves(f, N), N)
        OBVIOUS
    <2>2. RefilledTables(added, rank) = (CHOOSE f : Solves(f, N))[N]
        BY <1>0 DEF RefilledTables, Ranks
    <2> HIDE DEF Step
    <2>3. unsolved = {}
        <3> SUFFICES ASSUME unsolved # {} PROVE FALSE
            OBVIOUS
        <3>1. PICK m \in unsolved : \A x \in unsolved : m <= x
            <4>1. unsolved \in SUBSET Nat
                BY <1>1
            <4> HIDE DEF unsolved
            <4> QED BY <4>1, LeastNatural
        <3>2. CASE m = 0
            <4> DEFINE f == [n \in 0..0 |-> NoTables]
            <4>1. Solves(f, 0)
                OBVIOUS
            <4> QED BY <3>2, <4>1
        <3>3. CASE m # 0
            <4>1. m - 1 \in 0..N /\ m \in Nat /\ m - 1 \in Nat /\ ~(m <= m - 1)
                BY <1>1, <3>3
            <4>2. PICK g : Solves(g, m - 1)
                BY <3>1, <4>1
            <4> DEFINE f == [n \in 0..m |-> IF n = m THEN Step(m, g[m - 1]) ELSE g[n]]
            <4>3. \A n \in 0..(m - 1) :
                    g[n] = IF n = 0 THEN NoTables ELSE Step(n, g[n - 1])
                BY <4>2
            <4>4. ASSUME NEW n \in 0..m
                  PROVE  f[n] = IF n = 0 THEN NoTables ELSE Step(n, f[n - 1])
                <5>1. CASE n = m
                    BY <3>3, <4>1, <5>1
                <5>2. CASE n = 0
                    BY <3>3, <4>1, <4>3, <5>2
                <5>3. CASE n # m /\ n # 0
                    <6>1. n \in 0..(m - 1) /\ n - 1 \in 0..m /\ n - 1 # m
                        BY <4>1, <5>3
                    <6>2. f[n] = g[n] /\ f[n - 1] = g[n - 1]
                        BY <5>3, <6>1
                    <6> HIDE DEF f
                    <6> QED BY <4>3, <5>3, <6>1, <6>2
                <5> QED BY <5>1, <5>2, <5>3
            <4>5. Solves(f, m)
                BY <4>4
            <4> QED BY <4>5
        <3> QED BY <3>2, <3>3
    <2>4. \E f : Solves(f, N)
        BY <1>1, <2>3
    <2> HIDE DEF Solves
    <2> QED BY <2>1, <2>2, <2>4
<1>3. PICK after : Solves(after, N) /\ RefilledTables(added, rank) = after[N]
    BY <1>2
<1> HIDE DEF Step
<1>4. \A n \in 0..N : after[n] = IF n = 0 THEN NoTables ELSE Step(n, after[n - 1])
    BY <1>3
<1>5. after[0] = NoTables /\ \A n \in 1..N : after[n] = Step(n, after[n - 1])
    BY <1>1, <1>4
<1> QED BY <1>0, <1>3, <1>5 DEF Step, RefilledInOrder

\* Every item is inserted, and none twice.
LEMMA RanksList ==
    ASSUME NEW S, IsFiniteSet(S), NEW rank \in Orders(S)
    PROVE  /\ \A n \in 1..Cardinality(S) : Ranks(rank, n) \in S /\ rank[Ranks(rank, n)] = n
           /\ \A x \in S : rank[x] \in 1..Cardinality(S)
<1> DEFINE N == Cardinality(S)
<1>1. /\ N \in Nat /\ IsFiniteSet(1..N) /\ Cardinality(1..N) = N
    BY FS_CardinalityType, FS_Interval
<1>2. rank \in Injection(S, 1..N)
    BY DEF Orders, Injection, IsInjective
<1>3. rank \in Surjection(S, 1..N)
    BY <1>1, <1>2, FS_Injection
<1>4. \A n \in 1..N : \E x \in S : rank[x] = n
    BY <1>3 DEF Surjection
<1>5. DOMAIN rank = S /\ \A x \in S : rank[x] \in 1..N
    BY DEF Orders
<1> HIDE DEF N
<1> QED BY <1>4, <1>5 DEF Ranks, N

\* In whatever order the items come, the tables are theirs afterwards.
LEMMA RefilledTablesOf ==
    ASSUME NEW S \in SUBSET Bundles, NEW rank \in Orders(S),
           NEW added \in [S -> Nat]
    PROVE  TablesOf(RefilledTables(added, rank), S)
<1> DEFINE N == Cardinality(S)
           In(n) == {x \in S : rank[x] <= n}
<1>1. IsFiniteSet(S) /\ N \in Nat
    <2>1. IsFiniteSet(S)
        BY BundlesFinite, FS_Subset
    <2> QED BY <2>1, FS_CardinalityType
<1>2. DOMAIN rank = S
    BY DEF Orders
<1>3. PICK f : RefilledInOrder(f, added, rank)
    BY <1>1, RefilledUnfolds
<1>4. /\ f[0] = NoTables /\ RefilledTables(added, rank) = f[N]
      /\ \A n \in 1..N :
            f[n] = TablesWith(f[n - 1], Ranks(rank, n), added[Ranks(rank, n)])
    BY <1>2, <1>3 DEF RefilledInOrder
<1>5. /\ \A n \in 1..N : Ranks(rank, n) \in S /\ rank[Ranks(rank, n)] = n
      /\ \A x \in S : rank[x] \in 1..N
    BY <1>1, RanksList
<1>6. \A x, y \in S : rank[x] = rank[y] => x = y
    BY DEF Orders
<1> DEFINE wrong == {n \in 0..N : ~TablesOf(f[n], In(n))}
<1>7. wrong = {}
    <2> SUFFICES ASSUME wrong # {} PROVE FALSE
        OBVIOUS
    <2>1. PICK m \in wrong : \A x \in wrong : m <= x
        <3>1. wrong \in SUBSET Nat
            BY <1>1
        <3> HIDE DEF wrong
        <3> QED BY <3>1, LeastNatural
    <2>2. CASE m = 0
        <3>1. In(0) = {}
            <4> HIDE DEF N
            <4> QED BY <1>1, <1>5
        <3> QED BY <1>4, <2>2, <3>1, NoTablesOf
    <2>3. CASE m # 0
        <3> DEFINE b == Ranks(rank, m)
        <3>1. m \in 1..N /\ m - 1 \in 0..N /\ ~(m <= m - 1)
            <4> HIDE DEF N
            <4> QED BY <1>1, <2>3
        <3>2. TablesOf(f[m - 1], In(m - 1)) /\ ~TablesOf(f[m], In(m))
            BY <2>1, <3>1
        <3>3. b \in S /\ rank[b] = m
            BY <1>5, <3>1
        <3>4. f[m] = TablesWith(f[m - 1], b, added[b])
            BY <1>4, <3>1
        <3> HIDE DEF wrong, N, b
        <3>5. In(m) = In(m - 1) \cup {b} /\ b \notin In(m - 1)
            <4>1. \A x \in S : rank[x] <= m <=> rank[x] <= m - 1 \/ x = b
                BY <1>1, <1>5, <1>6, <3>1, <3>3
            <4>2. ~(rank[b] <= m - 1)
                BY <3>1, <3>3
            <4> QED BY <3>3, <4>1, <4>2
        <3>6. In(m - 1) \in SUBSET Bundles /\ b \in Bundles /\ added[b] \in Nat
            BY <3>3
        <3> HIDE DEF In
        <3> QED BY <3>2, <3>4, <3>5, <3>6, TablesWithOne
    <2> QED BY <2>2, <2>3
<1>8. N \in 0..N /\ In(N) = S
    <2> HIDE DEF N
    <2> QED BY <1>1, <1>5
<1>9. TablesOf(f[N], In(N))
    BY <1>7, <1>8
<1> QED BY <1>4, <1>8, <1>9

-----------------------------------------------------------------------------
(* The inductive invariant of this module: the tables of the active items.   *)

BlocksIInv == IInv /\ TablesOf(tables, Active(pool))

LEMMA InitBlocksIInv == BlocksInit => BlocksIInv
<1> SUFFICES ASSUME BlocksInit PROVE BlocksIInv
    OBVIOUS
<1>1. IInv
    BY InitIInv DEF BlocksInit
<1>2. Active(pool) = {} /\ tables = NoTables
    BY DEF BlocksInit, Init, Active, EmptyPool
<1> QED BY <1>1, <1>2, NoTablesOf DEF BlocksIInv

LEMMA NextBlocksIInv == BlocksIInv /\ [BlocksNext]_<<vars, tables>> => BlocksIInv'
<1> SUFFICES ASSUME BlocksIInv, [BlocksNext]_<<vars, tables>> PROVE BlocksIInv'
    OBVIOUS
<1>1. [Next]_vars
    BY BlocksNextIsNext DEF vars
<1>2. IInv /\ IInv'
    BY <1>1, NextIInv DEF BlocksIInv
<1>3. /\ Active(pool) \in SUBSET Bundles /\ Active(pool') \in SUBSET Bundles
      /\ height \in Nat
    <2>1. IsPool(pool) /\ IsPool(pool') /\ height \in Nat
        BY <1>2 DEF IInv, TypeOK, PoolInv
    <2> QED BY <2>1, PoolTypes
<1>4. TablesOf(tables', Active(pool'))
    <2>1. CASE UNCHANGED <<vars, tables>>
        BY <2>1 DEF BlocksIInv, vars
    <2>2. CASE Next /\ TablesFollow
        <3> DEFINE A == Active(pool)
                   B == Active(pool')
                   left == TablesWithoutAll(tables, A \ B)
        <3>1. TablesOf(left, A \ (A \ B))
            <4>1. A \ B \in SUBSET A /\ TablesOf(tables, A)
                BY DEF BlocksIInv
            <4> HIDE DEF A, B
            <4> QED BY <1>3, <4>1, TablesWithoutSet DEF A, B
        <3>2. \/ B \ A = {} /\ tables' = left
              \/ \E b \in Bundles : B \ A = {b} /\ tables' = TablesWith(left, b, height)
            BY <2>2 DEF TablesFollow
        <3>3. CASE B \ A = {} /\ tables' = left
            <4>1. A \ (A \ B) = B
                BY <3>3
            <4> QED BY <3>1, <3>3, <4>1
        <3>4. ASSUME NEW b \in Bundles, B \ A = {b}, tables' = TablesWith(left, b, height)
              PROVE  TablesOf(tables', B)
            <4> DEFINE C == A \ (A \ B)
            <4>1. C \cup {b} = B /\ b \notin C /\ C \in SUBSET Bundles
                BY <1>3, <3>4
            <4> HIDE DEF C, left
            <4> QED BY <1>3, <3>1, <3>4, <4>1, TablesWithOne DEF C
        <3> QED BY <3>2, <3>3, <3>4
    <2>3. CASE TablesRefilled
        <3>1. PICK rank \in Orders(Active(pool)) :
                /\ pool' = RefilledPool(pool.items, rank)
                /\ tables' = RefilledTables(tables.added, rank)
            BY <2>3 DEF TablesRefilled, Restore
        <3>2. Active(pool') = Active(pool)
            BY <1>2, <3>1, RefilledPoolOK DEF Active, IInv
        <3>3. tables.added \in [Active(pool) -> Nat]
            BY DEF BlocksIInv, TablesOf
        <3> QED BY <1>3, <3>1, <3>2, <3>3, RefilledTablesOf
    <2> QED BY <2>1, <2>2, <2>3 DEF BlocksNext
<1> QED BY <1>2, <1>4 DEF BlocksIInv

LEMMA BlocksInvariant == BlocksSpec => []BlocksIInv
BY InitBlocksIInv, NextBlocksIInv, PTL DEF BlocksSpec

\* The dedup table, its waiters and the chains of the singletons are at all
\* times those of the active items, whatever calls insert and remove them, in
\* whatever order remove() is applied to several.
THEOREM TablesTheorem == BlocksSpec => []TablesFollowItems
<1>1. BlocksIInv => TablesFollowItems
    <2> SUFFICES ASSUME BlocksIInv PROVE TablesFollowItems
        OBVIOUS
    <2>1. DOMAIN tables.bearer = HeldKeys(pool)
        BY DEF BlocksIInv, TablesOf, HeldKeys
    <2>2. ASSUME NEW k \in HeldKeys(pool)
          PROVE  LET S == HoldersIn(Active(pool), k) \ {tables.bearer[k]}
                 IN  /\ tables.bearer[k] \in HoldersIn(Active(pool), k)
                     /\ Elements(Line(tables.waiters, k)) = S
                     /\ Len(Line(tables.waiters, k)) = Cardinality(S)
        BY <2>1, LineLength DEF BlocksIInv, TablesOf
    <2>3. ASSUME NEW l \in DOMAIN tables.chains
          PROVE  /\ Elements(tables.chains[l]) = SpendsIn(Active(pool), l)
                 /\ Len(tables.chains[l]) = Cardinality(SpendsIn(Active(pool), l))
        BY LineLength DEF BlocksIInv, TablesOf
    <2>4. /\ DOMAIN tables.waiters \subseteq HeldKeys(pool)
          /\ DOMAIN tables.chains = {Launcher[b] : b \in Active(pool)} \ {NoLauncher}
          /\ DOMAIN tables.added = Active(pool)
        BY <2>1 DEF BlocksIInv, TablesOf
    <2> QED BY <2>1, <2>2, <2>3, <2>4 DEF TablesFollowItems, HoldersIn, SpendsIn
<1> QED BY <1>1, BlocksInvariant, PTL

-----------------------------------------------------------------------------
(* Orders of selection.                                                      *)

\* The lexicographic order on tuples of the same length.
LEMMA BeforeOrder ==
    ASSUME NEW w \in Nat
    PROVE  /\ \A k \in [1..w -> Int] : ~Before(k, k)
           /\ \A k, l, m \in [1..w -> Int] :
                Before(k, l) /\ Before(l, m) => Before(k, m)
           /\ \A k, l \in [1..w -> Int] : k # l => Before(k, l) \/ Before(l, k)
<1>1. \A k \in [1..w -> Int] : ~Before(k, k)
    BY DEF Before
<1>2. ASSUME NEW k \in [1..w -> Int], NEW l \in [1..w -> Int],
             NEW m \in [1..w -> Int], Before(k, l), Before(l, m)
      PROVE  Before(k, m)
    <2>1. PICK i \in 1..w : k[i] < l[i] /\ \A j \in 1..(i - 1) : k[j] = l[j]
        BY <1>2 DEF Before
    <2>2. PICK n \in 1..w : l[n] < m[n] /\ \A j \in 1..(n - 1) : l[j] = m[j]
        BY <1>2 DEF Before
    <2>3. CASE i < n
        <3>1. i \in 1..(n - 1) /\ \A j \in 1..(i - 1) : j \in 1..(n - 1)
            BY <2>3
        <3>2. k[i] < m[i] /\ \A j \in 1..(i - 1) : k[j] = m[j]
            BY <2>1, <2>2, <3>1
        <3> QED BY <3>2 DEF Before
    <2>4. CASE n < i
        <3>1. n \in 1..(i - 1) /\ \A j \in 1..(n - 1) : j \in 1..(i - 1)
            BY <2>4
        <3>2. k[n] < m[n] /\ \A j \in 1..(n - 1) : k[j] = m[j]
            BY <2>1, <2>2, <3>1
        <3> QED BY <3>2 DEF Before
    <2>5. CASE i = n
        <3>1. k[i] < m[i] /\ \A j \in 1..(i - 1) : k[j] = m[j]
            BY <2>1, <2>2, <2>5
        <3> QED BY <3>1 DEF Before
    <2> QED BY <2>3, <2>4, <2>5
<1>3. ASSUME NEW k \in [1..w -> Int], NEW l \in [1..w -> Int], k # l
      PROVE  Before(k, l) \/ Before(l, k)
    <2> DEFINE differ == {i \in 1..w : k[i] # l[i]}
    <2>1. differ \in SUBSET Nat /\ differ # {}
        BY <1>3
    <2>2. PICK i \in differ : \A x \in differ : i <= x
        <3> HIDE DEF differ
        <3> QED BY <2>1, LeastNatural
    <2>3. \A j \in 1..(i - 1) : k[j] = l[j]
        <3> SUFFICES ASSUME NEW j \in 1..(i - 1) PROVE k[j] = l[j]
            OBVIOUS
        <3>1. j \in 1..w /\ ~(i <= j)
            OBVIOUS
        <3> QED BY <2>2, <3>1
    <2>4. k[i] < l[i] \/ l[i] < k[i]
        OBVIOUS
    <2> QED BY <2>3, <2>4 DEF Before
<1> QED BY <1>1, <1>2, <1>3

LEMMA RankOfBundle ==
    ASSUME NEW b \in Bundles
    PROVE  Rank(b) \in 1..Len(IdOrder) /\ Rank(b) \in Int /\ IdOrder[Rank(b)] = b
<1>1. DOMAIN IdOrder = 1..Len(IdOrder) /\ \E i \in DOMAIN IdOrder : IdOrder[i] = b
    BY IdOrderLine, LenProperties DEF IsLineOf
<1> QED BY <1>1, IdOrderLine DEF Rank

\* Sorted lists its set without repetition, in the order of the keys.
LEMMA SortedLine ==
    ASSUME NEW S \in SUBSET Bundles, NEW key, NEW w \in Nat,
           \A b \in S : key[b] \in Seq(Int) /\ Len(key[b]) = w
    PROVE  LET s == Sorted(S, key)
           IN  /\ IsLineOf(s, S)
               /\ \A m, n \in 1..Len(s) :
                    m < n => Before(Append(key[s[m]], Rank(s[m])),
                                    Append(key[s[n]], Rank(s[n])))
<1> DEFINE full == [b \in S |-> Append(key[b], Rank(b))]
           keys == {full[b] : b \in S}
           order == {p \in keys \X keys : Before(p[1], p[2])}
           sorted == Ranked(keys, order)
           K == Cardinality(keys)
           s == Sorted(S, key)
<1>1. ASSUME NEW b \in S
      PROVE  /\ full[b] \in [1..(w + 1) -> Int]
             /\ Len(full[b]) = w + 1
             /\ full[b][w + 1] = Rank(b)
    <2>1. key[b] \in Seq(Int) /\ Len(key[b]) = w /\ Rank(b) \in Int
        BY RankOfBundle
    <2>2. /\ Append(key[b], Rank(b)) \in Seq(Int)
          /\ Len(Append(key[b], Rank(b))) = w + 1
          /\ Append(key[b], Rank(b))[w + 1] = Rank(b)
        BY <2>1, AppendProperties
    <2> QED BY <2>2, LenProperties
<1>2. IsFiniteSet(S) /\ IsFiniteSet(keys)
    <2>1. IsFiniteSet(S)
        BY BundlesFinite, FS_Subset
    <2>2. full \in Surjection(S, keys)
        BY DEF Surjection
    <2> HIDE DEF full, keys
    <2> QED BY <2>1, <2>2, FS_Surjection
<1>3. /\ K \in Nat
      /\ sorted \in [1..K -> keys]
      /\ \A x \in keys : \E n \in 1..K : sorted[n] = x
      /\ \A m, n \in 1..K : m < n => <<sorted[m], sorted[n]>> \in order
    <2>1. keys \subseteq [1..(w + 1) -> Int] /\ w + 1 \in Nat
        <3> HIDE DEF full
        <3>1. \A b \in S : full[b] \in [1..(w + 1) -> Int]
            BY <1>1
        <3> QED BY <3>1
    <2>2. \A x, y \in keys : <<x, y>> \in order <=> Before(x, y)
        OBVIOUS
    <2> HIDE DEF order, keys
    <2>3. /\ \A x \in keys : <<x, x>> \notin order
          /\ \A x, y, z \in keys :
                <<x, y>> \in order /\ <<y, z>> \in order => <<x, z>> \in order
          /\ \A x, y \in keys : x # y => <<x, y>> \in order \/ <<y, x>> \in order
        BY <2>1, <2>2, BeforeOrder
    <2> QED BY <1>2, <2>3, RankedSet
<1>4. s = [n \in 1..K |-> IdOrder[sorted[n][Len(sorted[n])]]]
    <2>1. keys = {Append(key[b], Rank(b)) : b \in S}
        OBVIOUS
    <2>2. DOMAIN sorted = 1..K
        BY <1>3
    <2>3. s = [n \in DOMAIN sorted |-> IdOrder[sorted[n][Len(sorted[n])]]]
        BY <2>1 DEF Sorted
    <2> HIDE DEF s, sorted, K
    <2> QED BY <2>2, <2>3
<1>5. \A n \in 1..K : \E b \in S : sorted[n] = full[b]
    <2> HIDE DEF sorted, K, full
    <2> QED BY <1>3
<1>6. \A m, n \in 1..K : m < n => Before(sorted[m], sorted[n])
    <2> HIDE DEF sorted, K
    <2> QED BY <1>3
<1>7. \A b \in S : \E n \in 1..K : sorted[n] = full[b]
    <2> HIDE DEF sorted, K, full
    <2> QED BY <1>3
<1>8. ASSUME NEW n \in 1..K
      PROVE  s[n] \in S /\ full[s[n]] = sorted[n]
    <2> HIDE DEF sorted, K, full, s
    <2>1. PICK b \in S : sorted[n] = full[b]
        BY <1>5
    <2>2. s[n] = IdOrder[full[b][w + 1]]
        BY <1>1, <1>4, <2>1
    <2>3. s[n] = b
        BY <1>1, <2>2, RankOfBundle
    <2> QED BY <2>1, <2>3
<1>9. \A b \in S : full[b] = Append(key[b], Rank(b))
    OBVIOUS
<1> HIDE DEF sorted, K, full, s, keys, order
<1>10. s \in Seq(S) /\ Len(s) = K
    <2>1. s \in [1..K -> S]
        BY <1>4, <1>8
    <2> QED BY <1>3, <2>1, SeqDef, LenProperties
<1>11. ASSUME NEW b \in S
       PROVE  \E n \in 1..K : s[n] = b
    <2>1. PICK n \in 1..K : sorted[n] = full[b]
        BY <1>7
    <2>2. s[n] \in S /\ full[s[n]] = full[b]
        BY <1>8, <2>1
    <2>3. Rank(s[n]) = Rank(b)
        BY <1>1, <2>2
    <2> QED BY <2>2, <2>3, RankOfBundle
<1>12. ASSUME NEW m \in 1..K, NEW n \in 1..K, m < n
       PROVE  Before(full[s[m]], full[s[n]])
    BY <1>6, <1>8, <1>12
<1>13. ASSUME NEW m \in 1..K, NEW n \in 1..K, s[m] = s[n]
       PROVE  m = n
    <2>1. full[s[m]] \in [1..(w + 1) -> Int] /\ w + 1 \in Nat
        BY <1>1, <1>8
    <2>2. ~Before(full[s[m]], full[s[m]])
        BY <2>1, BeforeOrder
    <2>3. ~(m < n) /\ ~(n < m)
        BY <1>12, <1>13, <2>2
    <2> QED BY <1>3, <2>3
<1>14. IsLineOf(s, S)
    BY <1>10, <1>11, <1>13 DEF IsLineOf
<1>15. \A m, n \in 1..Len(s) :
        m < n => Before(Append(key[s[m]], Rank(s[m])), Append(key[s[n]], Rank(s[n])))
    BY <1>8, <1>9, <1>10, <1>12
<1> QED BY <1>14, <1>15 DEF s

\* The recursion of Layers has a solution, in which parents lie below their
\* children: the links follow coins, which form no cycle.
LEMMA LayersSolve ==
    ASSUME PoolInv(pool), NEW K \in SUBSET Bundles
    PROVE  /\ Layers(K) \in [K -> Nat]
           /\ \A b \in K : \A a \in Parents(pool, b) \cap K :
                Layers(K)[a] < Layers(K)[b]
<1> DEFINE C == Cardinality(Bundles)
           Up(b) == Parents(pool, b) \cap K
           Height(f, b) ==
                LET up == Parents(pool, b) \cap K
                IN  IF up = {} THEN 0 ELSE 1 + Highest({f[a] : a \in up})
           Solves(f, T) == f = [b \in T |-> Height(f, b)]
           layer == Layers(K)
<1>1. C \in Nat
    BY BundlesFinite, FS_CardinalityType
<1>2. PICK rank \in [Bundles -> 0..C] :
        \A p, b \in Bundles : Additions[p] \cap Removals[b] # {} => rank[p] < rank[b]
    BY NoHashCycle
<1>3. \A b \in K : \A a \in Up(b) : a \in K /\ rank[a] < rank[b]
    <2> SUFFICES ASSUME NEW b \in K, NEW a \in Up(b) PROVE rank[a] < rank[b]
        OBVIOUS
    <2>1. b \in Active(pool) /\ a \in pool.items[b].depends_on
        BY DEF Parents
    <2>2. Additions[a] \cap Removals[b] # {}
        BY <2>1 DEF PoolInv, LinksFollowCoins
    <2> QED BY <1>2, <2>2
<1> DEFINE Below(m) == {b \in K : rank[b] < m}
<1>4. ASSUME NEW f, NEW g, NEW b, \A a \in Up(b) : f[a] = g[a]
      PROVE  Height(f, b) = Height(g, b)
    <2>1. {f[a] : a \in Up(b)} = {g[a] : a \in Up(b)}
        BY <1>4
    <2> QED BY <2>1
<1>5. \A b \in K : rank[b] \in Nat /\ rank[b] < C + 1
    BY <1>1, <1>2
<1>6. Below(C + 1) = K /\ Below(0) = {}
    BY <1>5
<1>7. \A m \in Nat : \A b \in Below(m) : Up(b) \subseteq Below(m - 1)
    <2> SUFFICES ASSUME NEW m \in Nat, NEW b \in Below(m), NEW a \in Up(b)
                 PROVE  a \in Below(m - 1)
        OBVIOUS
    <2>1. a \in K /\ rank[a] < rank[b] /\ rank[b] < m
        BY <1>3
    <2>2. rank[a] \in Nat /\ rank[b] \in Nat
        BY <1>5, <2>1
    <2>3. rank[a] < m - 1
        BY <2>1, <2>2
    <2> QED BY <2>1, <2>3
<1> HIDE DEF C, Height, Below, Up
<1>8. \E f : Solves(f, K)
    <2> DEFINE unsolved == {m \in 0..(C + 1) : ~\E f : Solves(f, Below(m))}
    <2>1. unsolved = {}
        <3> SUFFICES ASSUME unsolved # {} PROVE FALSE
            OBVIOUS
        <3>1. PICK m \in unsolved : \A x \in unsolved : m <= x
            <4>1. unsolved \in SUBSET Nat
                BY <1>1
            <4> HIDE DEF unsolved
            <4> QED BY <4>1, LeastNatural
        <3>2. CASE m = 0
            <4> DEFINE f == [b \in {} |-> 0]
            <4>1. Solves(f, {})
                OBVIOUS
            <4> QED BY <1>6, <3>2, <4>1
        <3>3. CASE m # 0
            <4>1. m - 1 \in 0..(C + 1) /\ m \in Nat /\ ~(m <= m - 1)
                BY <1>1, <3>3
            <4>2. PICK g : Solves(g, Below(m - 1))
                BY <3>1, <4>1
            <4> DEFINE f == [b \in Below(m) |-> Height(g, b)]
            <4>3. ASSUME NEW b \in Below(m - 1)
                  PROVE  b \in Below(m) /\ f[b] = g[b]
                <5>1. b \in Below(m)
                    BY <1>5, <4>1 DEF Below
                <5> QED BY <4>2, <5>1
            <4>4. ASSUME NEW b \in Below(m)
                  PROVE  Height(g, b) = Height(f, b)
                <5>1. \A a \in Up(b) : g[a] = f[a]
                    <6> HIDE DEF f
                    <6> QED BY <1>7, <4>1, <4>3
                <5> HIDE DEF f
                <5> QED BY <1>4, <5>1
            <4>5. Solves(f, Below(m))
                <5>1. f = [b \in Below(m) |-> Height(g, b)]
                    OBVIOUS
                <5> HIDE DEF f
                <5> QED BY <4>4, <5>1
            <4> QED BY <4>5
        <3> QED BY <3>2, <3>3
    <2>2. C + 1 \in 0..(C + 1)
        BY <1>1
    <2> QED BY <1>6, <2>1, <2>2
<1>9. Solves(layer, K)
    <2>1. layer = CHOOSE f : Solves(f, K)
        BY DEF Layers, Height
    <2> HIDE DEF Solves, layer
    <2> QED BY <1>8, <2>1
<1>10. \A b \in K : layer[b] = Height(layer, b)
    <2> HIDE DEF layer
    <2> QED BY <1>9
<1>11. layer = [b \in K |-> layer[b]]
    <2> HIDE DEF layer
    <2> QED BY <1>9
<1> HIDE DEF layer
<1>12. ASSUME NEW b \in K, \A a \in Up(b) : layer[a] \in Nat
       PROVE  layer[b] \in Nat /\ \A a \in Up(b) : layer[a] < layer[b]
    <2> DEFINE heights == {layer[a] : a \in Up(b)}
    <2>1. IsFiniteSet(Up(b))
        BY BundlesFinite, FS_Subset DEF Up
    <2>2. [a \in Up(b) |-> layer[a]] \in Surjection(Up(b), heights)
        BY DEF Surjection
    <2>3. heights \in SUBSET Nat /\ IsFiniteSet(heights)
        <3>1. heights \in SUBSET Nat
            BY <1>12
        <3> HIDE DEF heights
        <3> QED BY <2>1, <2>2, <3>1, FS_Surjection
    <2>4. layer[b] = IF Up(b) = {} THEN 0 ELSE 1 + Highest(heights)
        BY <1>10 DEF Height, Up
    <2>5. \A a \in Up(b) : layer[a] \in heights
        OBVIOUS
    <2> HIDE DEF heights
    <2>6. Highest(heights) \in Nat /\ \A x \in heights : x <= Highest(heights)
        BY <2>3, HighestBounds
    <2>7. layer[b] \in Nat
        BY <2>4, <2>6
    <2>8. ASSUME NEW a \in Up(b)
          PROVE  layer[a] < layer[b]
        <3>1. layer[a] <= Highest(heights) /\ layer[b] = 1 + Highest(heights)
            BY <2>4, <2>5, <2>6
        <3> QED BY <1>12, <2>6, <3>1
    <2> QED BY <2>7, <2>8
<1>13. \A b \in K : layer[b] \in Nat
    <2> DEFINE wrong == {m \in 0..(C + 1) : ~\A b \in Below(m) : layer[b] \in Nat}
    <2>1. wrong = {}
        <3> SUFFICES ASSUME wrong # {} PROVE FALSE
            OBVIOUS
        <3>1. PICK m \in wrong : \A x \in wrong : m <= x
            <4>1. wrong \in SUBSET Nat
                BY <1>1
            <4> HIDE DEF wrong
            <4> QED BY <4>1, LeastNatural
        <3>2. m # 0
            BY <1>6, <3>1
        <3>3. m - 1 \in 0..(C + 1) /\ m \in Nat /\ ~(m <= m - 1)
            BY <1>1, <3>2
        <3>4. \A b \in Below(m - 1) : layer[b] \in Nat
            BY <3>1, <3>3
        <3>5. \A b \in Below(m) : \A a \in Up(b) : layer[a] \in Nat
            BY <1>7, <3>3, <3>4
        <3>6. \A b \in Below(m) : b \in K
            BY DEF Below
        <3> QED BY <1>12, <3>1, <3>5, <3>6
    <2>2. C + 1 \in 0..(C + 1)
        BY <1>1
    <2> QED BY <1>6, <2>1, <2>2
<1>14. \A b \in K : \A a \in Up(b) : layer[a] < layer[b]
    <2>1. \A b \in K : \A a \in Up(b) : layer[a] \in Nat
        BY <1>3, <1>13
    <2> QED BY <1>12, <2>1
<1>15. layer \in [K -> Nat]
    BY <1>11, <1>13
<1> QED BY <1>14, <1>15 DEF layer, Up

\* A block holds what was selected, once, and parents before their children.
LEMMA InOrderLine ==
    ASSUME BlocksIInv, NEW K \in SUBSET Active(pool)
    PROVE  /\ IsLineOf(InOrder(K), K)
           /\ \A i, j \in 1..Len(InOrder(K)) :
                InOrder(K)[i] \in Parents(pool, InOrder(K)[j]) => i < j
<1> DEFINE layer == Layers(K)
           key == [b \in K |-> <<layer[b], -OwnFeeRate(b), tables.added[b]>>]
           s == InOrder(K)
           N == Len(s)
<1>1. K \in SUBSET Bundles /\ PoolInv(pool)
    BY PoolTypes DEF BlocksIInv, IInv, PoolInv
<1>2. \A b \in K : layer[b] \in Nat /\ OwnFeeRate(b) \in Nat /\ tables.added[b] \in Nat
    <2>1. layer \in [K -> Nat]
        BY <1>1, LayersSolve
    <2>2. tables.added \in [Active(pool) -> Nat]
        BY DEF BlocksIInv, TablesOf
    <2> HIDE DEF layer
    <2> QED BY <1>1, <2>1, <2>2, DataTypes
<1>3. \A b \in K : \A a \in Parents(pool, b) \cap K : layer[a] < layer[b]
    BY <1>1, LayersSolve
<1>4. s = Sorted(K, key)
    BY DEF InOrder
<1> HIDE DEF layer, s
<1>5. \A b \in K : key[b] \in Seq(Int) /\ Len(key[b]) = 3
    BY <1>2
<1>6. /\ IsLineOf(s, K)
      /\ \A m, n \in 1..N :
            m < n => Before(Append(key[s[m]], Rank(s[m])), Append(key[s[n]], Rank(s[n])))
    <2> HIDE DEF key
    <2> QED BY <1>1, <1>4, <1>5, SortedLine
<1>7. \A n \in 1..N : s[n] \in K
    BY <1>6, ElementOfSeq DEF IsLineOf
<1>8. ASSUME NEW i \in 1..N, NEW j \in 1..N, s[i] \in Parents(pool, s[j])
      PROVE  i < j
    <2> DEFINE a == s[i]
               b == s[j]
               keyA == Append(key[a], Rank(a))
               keyB == Append(key[b], Rank(b))
    <2>1. a \in K /\ b \in K /\ layer[a] < layer[b] /\ layer[a] \in Nat /\ layer[b] \in Nat
        BY <1>2, <1>3, <1>7, <1>8
    <2>2. keyA[1] = layer[a] /\ keyB[1] = layer[b]
        <3>1. /\ key[a] = <<layer[a], -OwnFeeRate(a), tables.added[a]>>
              /\ key[b] = <<layer[b], -OwnFeeRate(b), tables.added[b]>>
            BY <2>1
        <3>2. /\ key[a] \in Seq(Int) /\ Len(key[a]) = 3
              /\ key[b] \in Seq(Int) /\ Len(key[b]) = 3
              /\ Rank(a) \in Int /\ Rank(b) \in Int
            BY <1>1, <1>5, <2>1, RankOfBundle
        <3>3. keyA[1] = key[a][1] /\ keyB[1] = key[b][1]
            <4> HIDE DEF key, a, b
            <4> QED BY <3>2, AppendProperties
        <3> QED BY <3>1, <3>3
    <2>3. ~Before(keyB, keyA)
        <3> HIDE DEF keyA, keyB
        <3> SUFFICES ASSUME NEW n \in DOMAIN keyB, keyB[n] < keyA[n],
                            \A m \in 1..(n - 1) : keyB[m] = keyA[m]
                     PROVE  FALSE
            BY DEF Before
        <3>1. n \in Nat /\ n >= 1
            <4>1. key[b] \in Seq(Int) /\ Rank(b) \in Int
                BY <1>1, <1>5, <2>1, RankOfBundle
            <4>2. keyB \in Seq(Int)
                BY <4>1, AppendProperties DEF keyB
            <4>3. DOMAIN keyB = 1..Len(keyB) /\ Len(keyB) \in Nat
                BY <4>2, LenProperties
            <4> QED BY <4>3
        <3>2. n # 1
            BY <2>1, <2>2
        <3>3. 1 \in 1..(n - 1)
            BY <3>1, <3>2
        <3> QED BY <2>1, <2>2, <3>3
    <2>4. ~(j < i)
        BY <1>6, <2>3
    <2>5. i # j
        BY <2>1
    <2>6. N \in Nat
        BY <1>6, LenProperties DEF IsLineOf
    <2> QED BY <2>4, <2>5, <2>6
<1> QED BY <1>6, <1>8 DEF s

-----------------------------------------------------------------------------
(* A greedy pass.                                                            *)

\* A pass considers every candidate once.
LEMMA CandidatesLine ==
    ASSUME BlocksIInv, NEW S \in SUBSET Active(pool), NEW strategy \in Strategies
    PROVE  IsLineOf(Sorted(S, [b \in S |-> SortKey(strategy, b)]), S)
<1> DEFINE key == [b \in S |-> SortKey(strategy, b)]
           w == IF strategy = "age" THEN 3 ELSE 4
<1>1. S \in SUBSET Bundles /\ IsPool(pool)
    BY PoolTypes DEF BlocksIInv, IInv, PoolInv
<1>2. ASSUME NEW b \in S
      PROVE  SortKey(strategy, b) \in Seq(Int) /\ Len(SortKey(strategy, b)) = w
    <2> DEFINE rate == PackageFeeRate(pool.items[b])
               package == pool.items[b].package_fee
               added == tables.added[b]
    <2>1. pool.items[b] \in ItemType
        BY <1>1, PoolTypes
    <2>2. /\ package \in Nat /\ pool.items[b].package_virtual_cost \in Nat
        BY <2>1 DEF ItemType
    <2>3. rate \in Nat
        BY <2>2, FeePerCostNat DEF PackageFeeRate
    <2>4. added \in Nat
        BY DEF BlocksIInv, TablesOf
    <2>5. Fee[b] \in Nat /\ VirtualCost[b] \in Nat
        BY <1>1, DataTypes
    <2>6. SortKey(strategy, b) =
            CASE strategy = "density" -> <<-rate, -Fee[b], VirtualCost[b], added>>
              [] strategy = "whale" -> <<-package, -rate, VirtualCost[b], added>>
              [] strategy = "compact" -> <<-rate, VirtualCost[b], -Fee[b], added>>
              [] strategy = "age" -> <<added, -rate, -Fee[b]>>
        BY DEF SortKey
    <2> HIDE DEF rate, package, added
    <2>7. CASE strategy = "density"
        BY <2>2, <2>3, <2>4, <2>5, <2>6, <2>7
    <2>8. CASE strategy = "whale"
        BY <2>2, <2>3, <2>4, <2>5, <2>6, <2>8 DEF package
    <2>9. CASE strategy = "compact"
        BY <2>2, <2>3, <2>4, <2>5, <2>6, <2>9
    <2>10. CASE strategy = "age"
        BY <2>2, <2>3, <2>4, <2>5, <2>6, <2>10
    <2> QED BY <2>7, <2>8, <2>9, <2>10 DEF Strategies
<1>3. \A b \in S : key[b] \in Seq(Int) /\ Len(key[b]) = w
    BY <1>2
<1>4. w \in Nat
    OBVIOUS
<1> HIDE DEF key, w
<1> QED BY <1>1, <1>3, <1>4, SortedLine DEF key

\* f holds the selections after each step of a pass over order.
IsPass(f, order, candidates, budget) ==
    /\ f[0] = NoSelection
    /\ \A n \in 1..Len(order) : f[n] = Take(f[n - 1], order[n], candidates, budget)

\* The recursion of Greedy has a solution.
LEMMA GreedyUnfolds ==
    ASSUME BlocksIInv, NEW candidates \in SUBSET Active(pool), NEW budget,
           NEW strategy \in Strategies
    PROVE  \E order, f :
            /\ IsLineOf(order, candidates)
            /\ IsPass(f, order, candidates, budget)
            /\ Greedy(candidates, budget, strategy) = f[Len(order)]
<1> DEFINE order == Sorted(candidates, [b \in candidates |-> SortKey(strategy, b)])
           N == Len(order)
           Step(n, acc) == Take(acc, order[n], candidates, budget)
           Solves(f, m) ==
                f = [n \in 0..m |-> IF n = 0 THEN NoSelection ELSE Step(n, f[n - 1])]
           unsolved == {m \in 0..N : ~\E f : Solves(f, m)}
<1>1. IsLineOf(order, candidates)
    BY CandidatesLine
<1>2. Greedy(candidates, budget, strategy) = (CHOOSE f : Solves(f, N))[N]
    BY DEF Greedy
<1> HIDE DEF order, Step
<1>3. N \in Nat
    BY <1>1, LenProperties DEF IsLineOf
<1> HIDE DEF N
<1>4. unsolved = {}
    <2> SUFFICES ASSUME unsolved # {} PROVE FALSE
        OBVIOUS
    <2>1. PICK m \in unsolved : \A x \in unsolved : m <= x
        <3>1. unsolved \in SUBSET Nat
            BY <1>3
        <3> HIDE DEF unsolved
        <3> QED BY <3>1, LeastNatural
    <2>2. CASE m = 0
        <3> DEFINE f == [n \in 0..0 |-> NoSelection]
        <3>1. Solves(f, 0)
            OBVIOUS
        <3> QED BY <2>2, <3>1
    <2>3. CASE m # 0
        <3>1. m - 1 \in 0..N /\ m \in Nat /\ m - 1 \in Nat /\ ~(m <= m - 1)
            BY <1>3, <2>3
        <3>2. PICK g : Solves(g, m - 1)
            BY <2>1, <3>1
        <3> DEFINE f == [n \in 0..m |-> IF n = m THEN Step(m, g[m - 1]) ELSE g[n]]
        <3>3. \A n \in 0..(m - 1) :
                g[n] = IF n = 0 THEN NoSelection ELSE Step(n, g[n - 1])
            BY <3>2
        <3>4. ASSUME NEW n \in 0..m
              PROVE  f[n] = IF n = 0 THEN NoSelection ELSE Step(n, f[n - 1])
            <4>1. CASE n = m
                BY <2>3, <3>1, <4>1
            <4>2. CASE n = 0
                BY <2>3, <3>1, <3>3, <4>2
            <4>3. CASE n # m /\ n # 0
                <5>1. n \in 0..(m - 1) /\ n - 1 \in 0..m /\ n - 1 # m
                    BY <3>1, <4>3
                <5>2. f[n] = g[n] /\ f[n - 1] = g[n - 1]
                    BY <4>3, <5>1
                <5> HIDE DEF f
                <5> QED BY <3>3, <4>3, <5>1, <5>2
            <4> QED BY <4>1, <4>2, <4>3
        <3>5. Solves(f, m)
            BY <3>4
        <3> QED BY <3>5
    <2> QED BY <2>2, <2>3
<1>5. \E f : Solves(f, N)
    BY <1>3, <1>4
<1> DEFINE f == CHOOSE g : Solves(g, N)
<1>6. Solves(f, N)
    <2> HIDE DEF Solves
    <2> QED BY <1>5
<1> HIDE DEF f
<1>7. \A n \in 0..N : f[n] = IF n = 0 THEN NoSelection ELSE Step(n, f[n - 1])
    BY <1>6
<1>8. f[0] = NoSelection /\ \A n \in 1..N : f[n] = Step(n, f[n - 1])
    BY <1>3, <1>7
<1>9. IsPass(f, order, candidates, budget)
    BY <1>8 DEF IsPass, Step, N
<1> QED BY <1>1, <1>2, <1>9 DEF f, N

\* The selection comes from one of the passes.
LEMMA SelectionOfOnePass ==
    ASSUME NEW budget, NEW h, NEW s
    PROVE  \E strategy \in Strategies :
            SelectForBlock(budget, h, s)
                = InOrder(Greedy(Candidates(h, s), budget, strategy).taken)
<1> DEFINE set == [strategy \in Strategies |-> Greedy(Candidates(h, s), budget, strategy)]
           best == Better(Better(Better(set["density"], set["whale"]), set["compact"]),
                          set["age"])
<1>1. SelectForBlock(budget, h, s) = InOrder(best.taken)
    BY DEF SelectForBlock
<1>2. \A x, y : Better(x, y) \in {x, y}
    BY DEF Better
<1> HIDE DEF set
<1>3. best \in {set["density"], set["whale"], set["compact"], set["age"]}
    BY <1>2
<1> HIDE DEF best
<1>4. \E strategy \in Strategies : best = set[strategy]
    BY <1>3 DEF Strategies
<1> QED BY <1>1, <1>4 DEF set

LEMMA TotalOfUnion ==
    ASSUME NEW S \in SUBSET Bundles, NEW T \in SUBSET Bundles,
           NEW f, \A b \in Bundles : f[b] \in Nat
    PROVE  /\ Total(f, S) \in Nat /\ Total(f, T) \in Nat /\ Total(f, S \cup T) \in Nat
           /\ Total(f, S \cup T) <= Total(f, S) + Total(f, T)
           /\ S \cap T = {} => Total(f, S \cup T) = Total(f, S) + Total(f, T)
<1>1. IsFiniteSet(S) /\ IsFiniteSet(T) /\ IsFiniteSet(S \cup T) /\ IsFiniteSet(T \ S)
    BY BundlesFinite, FS_Subset
<1>2. /\ Total(f, S) \in Nat /\ Total(f, T) \in Nat /\ Total(f, S \cup T) \in Nat
      /\ Total(f, T \ S) \in Nat
    BY <1>1, TotalNat
<1>3. Total(f, S \cup (T \ S)) = Total(f, S) + Total(f, T \ S)
    BY <1>1, TotalUnion
<1>4. Total(f, T \ S) <= Total(f, T)
    BY <1>1, TotalRemove
<1>5. S \cup (T \ S) = S \cup T
    OBVIOUS
<1>6. Total(f, S \cup T) = Total(f, S) + Total(f, T \ S)
    BY <1>3, <1>5
<1>7. S \cap T = {} => Total(f, S \cup T) = Total(f, S) + Total(f, T)
    BY <1>1, TotalUnion
<1> QED BY <1>2, <1>4, <1>6, <1>7

\* The walk up from b brings everything above it that is not selected yet, up
\* to what is.
LEMMA AncestorsLeftClosed ==
    ASSUME IsPool(pool), NEW b \in Bundles, NEW taken
    PROVE  LET A == AncestorsLeft(b, taken)
           IN  /\ A \subseteq Bundles \ taken
               /\ Parents(pool, b) \ taken \subseteq A
               /\ \A a \in A : Parents(pool, a) \ taken \subseteq A
<1> DEFINE up(a) == Parents(pool, a) \ taken
           A == AncestorsLeft(b, taken)
           closed == {T \in SUBSET Bundles : up(b) \subseteq T /\ \A t \in T : up(t) \subseteq T}
<1>1. A = {a \in Bundles : \A T \in closed : a \in T}
    BY DEF AncestorsLeft, Closure
<1>2. \A a \in Bundles : up(a) \subseteq Bundles \ taken
    BY PoolTypes
<1> HIDE DEF A
<1>3. Bundles \ taken \in closed
    BY <1>2
<1>4. A \subseteq Bundles \ taken
    BY <1>1, <1>3
<1>5. up(b) \subseteq A /\ \A a \in A : up(a) \subseteq A
    <2> HIDE DEF up
    <2> QED BY <1>1, <1>2
<1> QED BY <1>4, <1>5 DEF A

\* What holds of a selection within the limits: the totals kept for it are not
\* below what its members add up to (they exceed it when an item was counted
\* as an ancestor and as a successor), and each member has its parents with it
\* or follows a member in the chain of its singleton.
Selected(acc, candidates, budget) ==
    /\ acc.taken \in SUBSET candidates
    /\ acc.cost \in Nat /\ acc.spends \in Nat
    /\ Total(VirtualCost, acc.taken) <= acc.cost /\ acc.cost <= budget
    /\ Total(NumSpends, acc.taken) <= acc.spends /\ acc.spends <= MaxSpends
    /\ \A a \in acc.taken :
        Parents(pool, a) \subseteq acc.taken \/ Follows(a, acc.taken)

LEMMA TakeKeeps ==
    ASSUME BlocksIInv, NEW candidates \in SUBSET Active(pool), NEW budget \in Nat,
           NEW b \in candidates, NEW acc, Selected(acc, candidates, budget)
    PROVE  Selected(Take(acc, b, candidates, budget), candidates, budget)
<1> DEFINE T == acc.taken
           A == AncestorsLeft(b, T)
           S == SuccessorsLeft(b, candidates, T)
           next == Take(acc, b, candidates, budget)
<1>1. CASE ~Addable(acc, b, A, S, candidates, budget)
    BY <1>1 DEF Take
<1>2. CASE Addable(acc, b, A, S, candidates, budget)
    <2> DEFINE New == ((T \cup {b}) \cup A) \cup S
    <2>1. /\ next.taken = New
          /\ next.cost = acc.cost + Added(VirtualCost, b, A, S)
          /\ next.spends = acc.spends + Added(NumSpends, b, A, S)
        BY <1>2 DEF Take
    <2>2. IsPool(pool) /\ candidates \in SUBSET Bundles
        BY PoolTypes DEF BlocksIInv, IInv, PoolInv
    <2>3. S \subseteq candidates
        BY DEF SuccessorsLeft
    <2>4. T \subseteq candidates /\ A \subseteq candidates
        BY <1>2 DEF Addable, Selected
    <2>5. /\ Parents(pool, b) \ T \subseteq A
          /\ \A a \in A : Parents(pool, a) \ T \subseteq A
        BY <2>2, AncestorsLeftClosed
    <2>6. \A a \in S : Follows(a, New)
        <3> SUFFICES ASSUME NEW a \in S PROVE Follows(a, New)
            OBVIOUS
        <3> DEFINE line == Line(tables.chains, Launcher[b])
        <3>1. PICK j \in DOMAIN line : line[j] = a /\ \E i \in 1..(j - 1) : line[i] = b
            BY DEF SuccessorsLeft
        <3>2. PICK i \in 1..(j - 1) : line[i] = b
            BY <3>1
        <3>3. Launcher[b] \in DOMAIN tables.chains /\ line = tables.chains[Launcher[b]]
            BY <3>1 DEF Line
        <3>4. IsLineOf(line, SpendsIn(Active(pool), Launcher[b]))
            BY <3>3 DEF BlocksIInv, TablesOf
        <3>5. DOMAIN line = 1..Len(line) /\ Len(line) \in Nat
              /\ a \in SpendsIn(Active(pool), Launcher[b])
            BY <3>1, <3>4, LenProperties, ElementOfSeq DEF IsLineOf
        <3>6. Launcher[a] = Launcher[b]
            BY <3>5 DEF SpendsIn
        <3>7. i \in DOMAIN line /\ i < j
            BY <3>5
        <3> QED BY <3>1, <3>2, <3>6, <3>7 DEF Follows
    <2> HIDE DEF A, S, next
    <2>7. ASSUME NEW f, \A x \in Bundles : f[x] \in Nat
          PROVE  /\ Added(f, b, A, S) \in Nat
                 /\ Total(f, New) <= Total(f, T) + Added(f, b, A, S)
        <3> DEFINE T1 == T \cup {b}
                   T2 == T1 \cup A
        <3>1. /\ {T, {b}, A, S, T1, T2} \subseteq SUBSET Bundles
              /\ New = T2 \cup S
            BY <2>2, <2>3, <2>4
        <3>2. Total(f, {b}) = f[b] /\ f[b] \in Nat
            BY <2>2, <2>7, TotalSingle
        <3>3. /\ Total(f, T) \in Nat /\ Total(f, A) \in Nat /\ Total(f, S) \in Nat
              /\ Total(f, T1) \in Nat /\ Total(f, T2) \in Nat /\ Total(f, New) \in Nat
              /\ Total(f, T1) <= Total(f, T) + Total(f, {b})
              /\ Total(f, T2) <= Total(f, T1) + Total(f, A)
              /\ Total(f, New) <= Total(f, T2) + Total(f, S)
            <4>1. Total(f, T1) <= Total(f, T) + Total(f, {b})
                <5> HIDE DEF T
                <5> QED BY <2>7, <3>1, TotalOfUnion
            <4>2. Total(f, T2) <= Total(f, T1) + Total(f, A)
                <5> HIDE DEF T1
                <5> QED BY <2>7, <3>1, TotalOfUnion
            <4>3. Total(f, New) <= Total(f, T2) + Total(f, S)
                <5> HIDE DEF T2
                <5> QED BY <2>7, <3>1, TotalOfUnion
            <4>4. \A X \in SUBSET Bundles : Total(f, X) \in Nat
                BY <2>7, TotalOfUnion
            <4> HIDE DEF T, T1, T2, New
            <4>5. New \in SUBSET Bundles
                BY <3>1
            <4> QED BY <3>1, <4>1, <4>2, <4>3, <4>4, <4>5
        <3> HIDE DEF T, T1, T2, New
        <3> QED BY <3>2, <3>3 DEF Added
    <2>8. /\ \A x \in Bundles : VirtualCost[x] \in Nat
          /\ \A x \in Bundles : NumSpends[x] \in Nat
        BY DataTypes
    <2>9. /\ next.cost \in Nat /\ next.cost <= budget
          /\ next.spends \in Nat /\ next.spends <= MaxSpends
        BY <1>2, <2>1, <2>7, <2>8 DEF Addable, Selected
    <2>10. /\ Total(VirtualCost, New) <= next.cost
           /\ Total(NumSpends, New) <= next.spends
        <3>1. /\ Added(VirtualCost, b, A, S) \in Nat
              /\ Total(VirtualCost, New) <= Total(VirtualCost, T) + Added(VirtualCost, b, A, S)
            BY <2>7, <2>8
        <3>2. /\ Added(NumSpends, b, A, S) \in Nat
              /\ Total(NumSpends, New) <= Total(NumSpends, T) + Added(NumSpends, b, A, S)
            BY <2>7, <2>8
        <3>3. T \in SUBSET Bundles /\ New \in SUBSET Bundles
            BY <2>2, <2>3, <2>4
        <3>4. /\ Total(VirtualCost, T) \in Nat /\ Total(VirtualCost, New) \in Nat
              /\ Total(NumSpends, T) \in Nat /\ Total(NumSpends, New) \in Nat
            <4> HIDE DEF T, New
            <4> QED BY <2>8, <3>3, TotalOfUnion
        <3>5. /\ Total(VirtualCost, T) <= acc.cost /\ acc.cost \in Nat
              /\ Total(NumSpends, T) <= acc.spends /\ acc.spends \in Nat
            BY DEF Selected
        <3> HIDE DEF T, New
        <3> QED BY <2>1, <3>1, <3>2, <3>4, <3>5
    <2>11. ASSUME NEW a \in New
           PROVE  Parents(pool, a) \subseteq New \/ Follows(a, New)
        <3>1. CASE a \in T
            <4>1. Parents(pool, a) \subseteq T \/ Follows(a, T)
                BY <3>1 DEF Selected
            <4>2. Follows(a, T) => Follows(a, New)
                BY DEF Follows
            <4> QED BY <4>1, <4>2
        <3>2. CASE a \in A \cup {b}
            BY <2>5, <3>2
        <3>3. CASE a \in S
            BY <2>6, <3>3
        <3> QED BY <3>1, <3>2, <3>3
    <2>12. New \in SUBSET candidates
        BY <2>3, <2>4
    <2> HIDE DEF New
    <2> QED BY <2>1, <2>9, <2>10, <2>11, <2>12 DEF Selected, next
<1> QED BY <1>1, <1>2

\* Every step of a pass leaves such a selection.
LEMMA PassSelects ==
    ASSUME BlocksIInv, NEW candidates \in SUBSET Active(pool), NEW budget \in Nat,
           NEW order, IsLineOf(order, candidates),
           NEW f, IsPass(f, order, candidates, budget)
    PROVE  \A n \in 0..Len(order) : Selected(f[n], candidates, budget)
<1> DEFINE N == Len(order)
           wrong == {n \in 0..N : ~Selected(f[n], candidates, budget)}
<1>1. N \in Nat /\ \A n \in 1..N : order[n] \in candidates
    BY LenProperties, ElementOfSeq DEF IsLineOf
<1>2. wrong = {}
    <2> SUFFICES ASSUME wrong # {} PROVE FALSE
        OBVIOUS
    <2>1. PICK m \in wrong : \A x \in wrong : m <= x
        <3>1. wrong \in SUBSET Nat
            BY <1>1
        <3> HIDE DEF wrong
        <3> QED BY <3>1, LeastNatural
    <2>2. CASE m = 0
        <3>1. f[0] = NoSelection
            BY DEF IsPass
        <3>2. Total(VirtualCost, {}) = 0 /\ Total(NumSpends, {}) = 0
            BY FS_EmptySet DEF Total, Units
        <3>3. MaxSpends \in Nat
            BY LimitsFit
        <3>4. Selected(NoSelection, candidates, budget)
            BY <3>2, <3>3 DEF Selected, NoSelection
        <3> QED BY <2>2, <3>1, <3>4
    <2>3. CASE m # 0
        <3>1. m \in 1..N /\ m - 1 \in 0..N /\ ~(m <= m - 1)
            BY <1>1, <2>3
        <3>2. Selected(f[m - 1], candidates, budget)
            BY <2>1, <3>1
        <3>3. f[m] = Take(f[m - 1], order[m], candidates, budget)
            BY <3>1 DEF IsPass
        <3>4. Selected(f[m], candidates, budget)
            BY <1>1, <3>1, <3>2, <3>3, TakeKeeps
        <3> QED BY <3>4
    <2> QED BY <2>2, <2>3
<1> QED BY <1>2

\* What select_for_block() returns.
LEMMA BlockOfSelection ==
    ASSUME BlocksIInv, NEW budget \in Nat, NEW h, NEW s
    PROVE  \E acc : /\ Selected(acc, Candidates(h, s), budget)
                    /\ SelectForBlock(budget, h, s) = InOrder(acc.taken)
                    /\ IsLineOf(InOrder(acc.taken), acc.taken)
<1> DEFINE candidates == Candidates(h, s)
<1>1. candidates \in SUBSET Active(pool)
    BY DEF Candidates
<1>2. PICK strategy \in Strategies :
        SelectForBlock(budget, h, s) = InOrder(Greedy(candidates, budget, strategy).taken)
    BY SelectionOfOnePass
<1> HIDE DEF candidates
<1>3. PICK order, f :
        /\ IsLineOf(order, candidates)
        /\ IsPass(f, order, candidates, budget)
        /\ Greedy(candidates, budget, strategy) = f[Len(order)]
    BY <1>1, GreedyUnfolds
<1>4. Len(order) \in 0..Len(order)
    BY <1>3, LenProperties DEF IsLineOf
<1>5. Selected(f[Len(order)], candidates, budget)
    BY <1>1, <1>3, <1>4, PassSelects
<1>6. f[Len(order)].taken \in SUBSET Active(pool)
    BY <1>1, <1>5 DEF Selected
<1>7. IsLineOf(InOrder(f[Len(order)].taken), f[Len(order)].taken)
    BY <1>6, InOrderLine
<1> QED BY <1>2, <1>3, <1>5, <1>7 DEF candidates

\* The block that select_for_block() returns in any state keeps to the cost it
\* is given and to the limit on spends.
THEOREM BudgetTheorem == BlocksSpec => []BlocksWithinBudget
<1>1. BlocksIInv => BlocksWithinBudget
    <2> SUFFICES ASSUME BlocksIInv, NEW budget \in BlockCosts, NEW h \in Heights
                 PROVE  /\ Total(VirtualCost, Elements(Block(budget, h))) <= budget
                        /\ Total(NumSpends, Elements(Block(budget, h))) <= MaxSpends
        BY DEF BlocksWithinBudget
    <2>1. budget \in Nat
        BY BlockData, BundleData
    <2>2. PICK acc :
            /\ Selected(acc, Candidates(h, seconds), budget)
            /\ Block(budget, h) = InOrder(acc.taken)
            /\ IsLineOf(InOrder(acc.taken), acc.taken)
        BY <2>1, BlockOfSelection DEF Block
    <2>3. Elements(Block(budget, h)) = acc.taken
        BY <2>2, LineLength
    <2>4. acc.taken \in SUBSET Bundles
        BY <2>2, PoolTypes DEF Selected, Candidates, BlocksIInv, IInv, PoolInv
    <2>5. Total(VirtualCost, acc.taken) \in Nat /\ Total(NumSpends, acc.taken) \in Nat
        BY <2>4, DataTypes, TotalOfUnion
    <2>6. /\ Total(VirtualCost, acc.taken) <= budget
          /\ Total(NumSpends, acc.taken) <= MaxSpends
        BY <2>1, <2>2, <2>5, LimitsFit DEF Selected
    <2> QED BY <2>3, <2>6
<1> QED BY <1>1, BlocksInvariant, PTL

-----------------------------------------------------------------------------
(* Blocks that stand alone.                                                  *)

\* The coins an active item spends exist without any other, or one of its
\* parents creates them.
Grounded ==
    \A b \in Active(pool) :
        Removals[b] \subseteq
            (Genesis \cup CreatedBy(confirmed)) \cup CreatedBy(Parents(pool, b))

\* It is so whenever the records that submit() is given are of coins on chain:
\* a synthesized record hides that its coin is created in the pool.
LEMMA NextGrounded ==
    ASSUME "synthetic" \notin Calls
    PROVE  IInv /\ Grounded /\ [Next]_vars => Grounded'
<1> SUFFICES ASSUME IInv, Grounded, [Next]_vars PROVE Grounded'
    OBVIOUS
<1>1. PoolInv(pool)
    BY DEF IInv
<1>2. ASSUME Remains(pool, pool'), confirmed \subseteq confirmed' PROVE Grounded'
    BY <1>2 DEF Remains, Grounded, Parents, CreatedBy
<1>3. ASSUME NEW b \in Bundles, SubmitRefused(b) PROVE Grounded'
    BY <1>3 DEF SubmitRefused, chain, Grounded
<1>4. ASSUME NEW b \in Bundles, SubmitFull(b) PROVE Grounded'
    BY <1>1, <1>2, <1>4, PreparedOK DEF SubmitFull, chain
<1>5. ASSUME NEW b \in Bundles, SubmitVetoed(b) PROVE Grounded'
    BY <1>1, <1>2, <1>5, PreparedOK DEF SubmitVetoed, chain
<1>6. ASSUME NEW b \in Bundles, SubmitAdmitted(b) PROVE Grounded'
    <2>1. PICK known \in CoinRecords(b) :
            /\ SubmitError(b, known) = "none"
            /\ \E prepared \in Prepared(pool, b, height) :
                /\ Fits(prepared, b)
                /\ pool' = Admitted(pool, prepared, b, known)
        BY <1>6 DEF SubmitAdmitted
    <2>2. PICK prepared \in Prepared(pool, b, height) :
            pool' = Admitted(pool, prepared, b, known)
        BY <2>1
    <2>3. b \notin Active(pool) /\ MissingCoins(pool, b, known) = {}
        BY <2>1 DEF SubmitError
    <2>4. known = Removals[b] \cap Unspent(confirmed)
        BY DEF CoinRecords
    <2> DEFINE item == NewItem(pool, b, known)
    <2>5. Remains(pool, prepared) /\ IsPool(prepared) /\ b \notin Active(prepared)
        BY <1>1, <2>3, PreparedOK DEF Remains, PoolInv
    <2>6. item \in ItemType /\ item.depends_on = DependsOn(pool, b, known)
        BY <1>1, NewItemOK
    <2> HIDE DEF item
    <2>7. InsertedInto(prepared, b, item, pool')
        BY <2>2, <2>5, <2>6, InsertEffect DEF Admitted, item
    <2>8. /\ Active(pool') = Active(prepared) \cup {b}
          /\ Parents(pool', b) = DependsOn(pool, b, known)
          /\ \A a \in Active(prepared) : Parents(pool', a) = Parents(pool, a)
        BY <2>5, <2>6, <2>7 DEF InsertedInto, Remains, Parents
    <2>9. confirmed' = confirmed
        BY <1>6 DEF SubmitAdmitted, chain
    <2>10. ASSUME NEW c \in Removals[b]
           PROVE  c \in (Genesis \cup CreatedBy(confirmed)) \cup CreatedBy(Parents(pool', b))
        <3>1. CASE c \in known
            BY <2>4, <3>1 DEF Unspent
        <3>2. CASE c \notin known
            <4>1. c \in CreatedInPool(pool, b, known)
                BY <2>3, <3>2 DEF MissingCoins, CreatedInPool
            <4>2. pool.mempoolCoins[c] \in DependsOn(pool, b, known)
                BY <4>1 DEF DependsOn
            <4>3. c \in Additions[pool.mempoolCoins[c]]
                BY <1>1, <4>1 DEF CreatedInPool, PoolInv, Resolves
            <4> QED BY <2>8, <4>2, <4>3 DEF CreatedBy
        <3> QED BY <3>1, <3>2
    <2>11. \A a \in Active(prepared) : a \in Active(pool)
        BY <2>5 DEF Remains
    <2> QED BY <2>8, <2>9, <2>10, <2>11 DEF Grounded
<1>7. ASSUME NEW b \in Bundles, Remove(b) PROVE Grounded'
    BY <1>1, <1>2, <1>7, RemoveAllKeeps DEF Remove, chain
<1>8. ASSUME NEW percent \in Percents, EvictLowestPercent(percent) PROVE Grounded'
    BY <1>1, <1>2, <1>8, RemoveAllKeeps DEF EvictLowestPercent, Cascade, chain
<1>9. ASSUME NEW K \in SUBSET (Bundles \ confirmed), NEW s \in 0..MaxSeconds,
             NewBlock(K, s)
      PROVE  Grounded'
    <2> DEFINE r == Cascade(pool, Spenders(pool, SpentBy(K)))
               late == {b \in Active(r) : IsExpired(b, height + 1, s)}
    <2>1. Remains(pool, r) /\ PoolInv(r)
        BY <1>1, RemoveAllKeeps DEF Cascade
    <2>2. pool' = Cascade(r, late) /\ confirmed' = confirmed \cup K
        BY <1>9 DEF NewBlock, AfterBlock
    <2> HIDE DEF r, late
    <2>3. Remains(r, pool')
        BY <2>1, <2>2, RemoveAllKeeps DEF Cascade
    <2>4. Remains(pool, pool')
        BY <1>1, <2>1, <2>3, RemainsTransitive
    <2> QED BY <1>2, <2>2, <2>4
<1>10. CASE Clear
    BY <1>10 DEF Clear, Grounded, EmptyPool, Active
<1>11. CASE UNCHANGED vars
    BY <1>11 DEF vars, Grounded
<1>12. ASSUME NEW rank \in Orders(Active(pool)), Restore(rank) PROVE Grounded'
    <2>1. pool'.items = pool.items
        BY <1>1, <1>12, RefilledPoolOK DEF Restore
    <2> QED BY <1>12, <2>1 DEF Restore, chain, Grounded, Active, Parents
<1> QED BY <1>3, <1>4, <1>5, <1>6, <1>7, <1>8, <1>9, <1>10, <1>11, <1>12 DEF Next, Submits

\* Every item of a block stands behind those of its parents that are in the
\* block, in a mempool whose callers pass records of coins on chain alone.  If
\* all of its parents are, and no coin it spends is gone already (Outdated),
\* its coins are on chain or are created before it; if not, it is in the block
\* as the successor of a spend of its singleton.  For these two kinds of item
\* the code makes sure of no more: sel_greedy collects no ancestors of the
\* successors it takes along, and run dedup_stale shows the stale ones.  Where
\* there are neither, SpendableTheorem says what is left.
THEOREM StandAloneTheorem ==
    ASSUME "synthetic" \notin Calls
    PROVE  BlocksSpec => []BlocksStandAlone
<1>1. BlocksInit => Grounded
    BY DEF BlocksInit, Init, Grounded, EmptyPool, Active
<1>2. IInv /\ Grounded /\ [BlocksNext]_<<vars, tables>> => Grounded'
    <2> SUFFICES ASSUME IInv, Grounded, [BlocksNext]_<<vars, tables>> PROVE Grounded'
        OBVIOUS
    <2>1. [Next]_vars
        BY BlocksNextIsNext DEF vars
    <2> QED BY <2>1, NextGrounded
<1>3. BlocksIInv /\ Grounded => BlocksStandAlone
    <2> SUFFICES ASSUME BlocksIInv, Grounded, NEW budget \in BlockCosts, NEW h \in Heights,
                        NEW j \in DOMAIN Block(budget, h)
                 PROVE  LET block == Block(budget, h)
                            K == Elements(block)
                            b == block[j]
                            before == {block[i] : i \in 1..(j - 1)}
                        IN  /\ Parents(pool, b) \cap K \subseteq before
                            /\ Parents(pool, b) \subseteq before /\ ~Outdated(b) =>
                                Removals[b] \subseteq Unspent(confirmed) \cup CreatedBy(before)
                            /\ ~(Parents(pool, b) \subseteq before) => Follows(b, K)
        BY DEF BlocksStandAlone
    <2> DEFINE block == Block(budget, h)
               K == Elements(block)
               b == block[j]
               before == {block[i] : i \in 1..(j - 1)}
    <2>1. budget \in Nat
        BY BlockData, BundleData
    <2>2. PICK acc :
            /\ Selected(acc, Candidates(h, seconds), budget)
            /\ block = InOrder(acc.taken)
            /\ IsLineOf(InOrder(acc.taken), acc.taken)
        BY <2>1, BlockOfSelection DEF Block
    <2>3. K = acc.taken /\ IsLineOf(block, K)
        BY <2>2, LineLength
    <2>4. DOMAIN block = 1..Len(block) /\ Len(block) \in Nat /\ j \in 1..Len(block)
        <3>1. DOMAIN block = 1..Len(block) /\ Len(block) \in Nat
            BY <2>3, LenProperties DEF IsLineOf
        <3> QED BY <3>1
    <2>5. b \in K /\ K \in SUBSET Active(pool)
        <3>1. K \in SUBSET Active(pool)
            BY <2>2, <2>3 DEF Selected, Candidates
        <3>2. b \in K
            BY DEF Elements
        <3> QED BY <3>1, <3>2
    <2>6. \A i, n \in 1..Len(block) : block[i] \in Parents(pool, block[n]) => i < n
        <3>1. acc.taken \in SUBSET Active(pool)
            BY <2>3, <2>5
        <3> HIDE DEF block
        <3> QED BY <2>2, <3>1, InOrderLine
    <2> HIDE DEF block
    <2>7. ASSUME NEW a \in Parents(pool, b) \cap K
          PROVE  a \in before
        <3>1. PICK i \in 1..Len(block) : block[i] = a
            BY <2>3 DEF IsLineOf
        <3>2. i < j
            <4>1. block[i] \in Parents(pool, block[j])
                BY <3>1
            <4> QED BY <2>4, <2>6, <4>1
        <3>3. i \in 1..(j - 1)
            BY <2>4, <3>2
        <3> QED BY <3>1, <3>3
    <2>8. ASSUME Parents(pool, b) \subseteq before, ~Outdated(b)
          PROVE  Removals[b] \subseteq Unspent(confirmed) \cup CreatedBy(before)
        <3>1. Removals[b] \subseteq (Genesis \cup CreatedBy(confirmed)) \cup CreatedBy(Parents(pool, b))
            BY <2>5 DEF Grounded
        <3>2. CreatedBy(Parents(pool, b)) \subseteq CreatedBy(before)
            <4> HIDE DEF before
            <4> QED BY <2>8 DEF CreatedBy
        <3> HIDE DEF before, b
        <3> QED BY <2>8, <3>1, <3>2 DEF Outdated, Unspent
    <2>9. ASSUME ~(Parents(pool, b) \subseteq before)
          PROVE  Follows(b, K)
        <3>1. Parents(pool, b) \subseteq K \/ Follows(b, K)
            BY <2>2, <2>3, <2>5 DEF Selected
        <3> HIDE DEF before, b, K
        <3> QED BY <2>7, <2>9, <3>1
    <2> HIDE DEF before, b, K
    <2>10. Parents(pool, b) \cap K \subseteq before
        BY <2>7
    <2> QED BY <2>8, <2>9, <2>10 DEF before, b, K, block
<1>4. BlocksIInv => IInv
    BY DEF BlocksIInv
<1> QED BY <1>1, <1>2, <1>3, <1>4, BlocksInvariant, PTL DEF BlocksSpec

\* "Greedy accumulation automatically includes unselected ancestors with child":
\* the parents that are active are in the block with whatever it takes.
BlocksHoldAncestors ==
    \A budget \in BlockCosts, h \in Heights :
        LET K == Elements(Block(budget, h))
        IN  \A b \in K : Parents(pool, b) \cap Active(pool) \subseteq K

\* The coins every item of a block spends are there: on chain, or created by an
\* item before it.
BlocksSpendable ==
    \A budget \in BlockCosts, h \in Heights :
        LET block == Block(budget, h)
        IN  \A j \in DOMAIN block :
                Removals[block[j]] \subseteq
                    Unspent(confirmed) \cup CreatedBy({block[i] : i \in 1..(j - 1)})

LEMMA NoSuccessors ==
    ASSUME BlocksIInv, NEW b \in Bundles, Launcher[b] = NoLauncher, NEW K
    PROVE  ~Follows(b, K)
<1>1. NoLauncher \notin DOMAIN tables.chains
    BY DEF BlocksIInv, TablesOf
<1>2. Line(tables.chains, Launcher[b]) = <<>>
    BY <1>1 DEF Line
<1>3. DOMAIN <<>> = {}
    OBVIOUS
<1> HIDE DEF Line
<1> QED BY <1>2, <1>3 DEF Follows

\* Without singletons and without deduplication nothing is left out: a block
\* holds every active ancestor of every item, and every coin that an item
\* spends is on chain or created before the item.
THEOREM SpendableTheorem ==
    ASSUME "synthetic" \notin Calls, NoDedup,
           \A b \in Bundles : Launcher[b] = NoLauncher
    PROVE  BlocksSpec => [](BlocksHoldAncestors /\ BlocksSpendable)
<1>1. BlocksInit => Fresh
    BY DEF BlocksInit, Init, Fresh, NothingStale, SpentBy, EmptyPool, Active
<1>2. IInv /\ Fresh /\ [BlocksNext]_<<vars, tables>> => Fresh'
    <2> SUFFICES ASSUME IInv, Fresh, [BlocksNext]_<<vars, tables>> PROVE Fresh'
        OBVIOUS
    <2>1. [Next]_vars
        BY BlocksNextIsNext DEF vars
    <2> QED BY <2>1, NoDedup, NextFresh
<1>3. BlocksIInv /\ Fresh /\ BlocksStandAlone => BlocksHoldAncestors /\ BlocksSpendable
    <2> SUFFICES ASSUME BlocksIInv, Fresh, BlocksStandAlone,
                        NEW budget \in BlockCosts, NEW h \in Heights,
                        NEW j \in DOMAIN Block(budget, h)
                 PROVE  LET block == Block(budget, h)
                            b == block[j]
                            before == {block[i] : i \in 1..(j - 1)}
                        IN  /\ Parents(pool, b) \subseteq Elements(block)
                            /\ Removals[b] \subseteq Unspent(confirmed) \cup CreatedBy(before)
        BY DEF BlocksHoldAncestors, BlocksSpendable, Elements
    <2> DEFINE block == Block(budget, h)
               K == Elements(block)
               b == block[j]
               before == {block[i] : i \in 1..(j - 1)}
    <2>1. /\ Parents(pool, b) \subseteq before /\ ~Outdated(b) =>
                Removals[b] \subseteq Unspent(confirmed) \cup CreatedBy(before)
          /\ ~(Parents(pool, b) \subseteq before) => Follows(b, K)
        BY DEF BlocksStandAlone
    <2>2. budget \in Nat
        BY BlockData, BundleData
    <2>3. PICK acc :
            /\ Selected(acc, Candidates(h, seconds), budget)
            /\ block = InOrder(acc.taken)
            /\ IsLineOf(InOrder(acc.taken), acc.taken)
        BY <2>2, BlockOfSelection DEF Block
    <2>4. K = acc.taken /\ IsLineOf(block, K)
        BY <2>3, LineLength
    <2>5. b \in K /\ K \in SUBSET Active(pool) /\ Active(pool) \in SUBSET Bundles
        <3>1. K \in SUBSET Active(pool)
            BY <2>3, <2>4 DEF Selected, Candidates
        <3>2. b \in K
            BY DEF Elements
        <3>3. Active(pool) \in SUBSET Bundles
            BY PoolTypes DEF BlocksIInv, IInv, PoolInv
        <3> QED BY <3>1, <3>2, <3>3
    <2>6. before \subseteq K
        <3>1. DOMAIN block = 1..Len(block) /\ Len(block) \in Nat
            BY <2>4, LenProperties DEF IsLineOf
        <3>2. j \in DOMAIN block
            OBVIOUS
        <3> HIDE DEF block
        <3>3. \A i \in 1..(j - 1) : i \in DOMAIN block
            BY <3>1, <3>2
        <3> QED BY <3>3 DEF Elements
    <2> HIDE DEF before, b, K, block
    <2>7. ~Follows(b, K)
        BY <2>5, NoSuccessors
    <2>8. ~Outdated(b)
        BY <2>5 DEF Fresh, NothingStale, Outdated
    <2> QED BY <2>1, <2>6, <2>7, <2>8 DEF before, b, K, block
<1>4. BlocksSpec => []BlocksStandAlone
    BY StandAloneTheorem
<1>5. BlocksIInv => IInv
    BY DEF BlocksIInv
<1> QED BY <1>1, <1>2, <1>3, <1>4, <1>5, BlocksInvariant, PTL DEF BlocksSpec

-----------------------------------------------------------------------------
(* Blocks that leave nothing out for nothing.                                *)

\* Recorded parents lead to no bundle from itself.
LEMMA NotAboveItself ==
    ASSUME NEW p, PoolInv(p), NEW b \in Bundles
    PROVE  Closure(Parents(p, b), LAMBDA q : Parents(p, q)) \subseteq Bundles \ {b}
<1>1. \A a \in Bundles : Parents(p, a) \subseteq Bundles
    BY PoolTypes DEF PoolInv
<1>2. PICK rank \in [Bundles -> 0..Cardinality(Bundles)] :
        \A x, a \in Bundles : Additions[x] \cap Removals[a] # {} => rank[x] < rank[a]
    BY NoHashCycle
<1>3. \A a \in Bundles : rank[a] \in Int
    BY <1>2, BundlesFinite, FS_CardinalityType
<1> DEFINE below == {a \in Bundles : rank[a] < rank[b]}
<1>4. \A a \in Bundles : \A x \in Parents(p, a) : rank[x] < rank[a]
    <2> SUFFICES ASSUME NEW a \in Bundles, NEW x \in Parents(p, a)
                 PROVE  rank[x] < rank[a]
        OBVIOUS
    <2>1. Additions[x] \cap Removals[a] # {} /\ x \in Bundles
        BY <1>1 DEF PoolInv, LinksFollowCoins, Parents
    <2> QED BY <1>2, <2>1
<1>5. \A a \in below : Parents(p, a) \subseteq below
    BY <1>1, <1>3, <1>4
<1>6. Parents(p, b) \subseteq below
    BY <1>1, <1>4
<1>7. below \in SUBSET Bundles /\ b \notin below
    BY <1>3
<1> HIDE DEF below
<1> QED BY <1>5, <1>6, <1>7 DEF Closure

\* A bundle is not above itself, and what the walk brings is above it.
LEMMA AncestorsAbove ==
    ASSUME PoolInv(pool), NEW b \in Bundles, NEW taken
    PROVE  /\ AncestorsLeft(b, taken) \subseteq Ancestors(b)
           /\ Ancestors(b) \subseteq Bundles \ {b}
<1>1. \A a \in Bundles : Parents(pool, a) \subseteq Bundles
    BY PoolTypes DEF PoolInv
<1>2. AncestorsLeft(b, taken) \subseteq Ancestors(b)
    <2> DEFINE A == Ancestors(b)
               closed == {T \in SUBSET Bundles :
                    Parents(pool, b) \subseteq T /\ \A t \in T : Parents(pool, t) \subseteq T}
    <2>1. A = {a \in Bundles : \A T \in closed : a \in T}
        BY DEF Ancestors, Closure
    <2> HIDE DEF A
    <2>2. Parents(pool, b) \subseteq A /\ \A a \in A : Parents(pool, a) \subseteq A
        BY <1>1, <2>1
    <2>3. A \in SUBSET Bundles
        BY <2>1
    <2>4. /\ Parents(pool, b) \ taken \subseteq A
          /\ \A a \in A : Parents(pool, a) \ taken \subseteq A
        BY <2>2
    <2> QED BY <2>3, <2>4 DEF AncestorsLeft, Closure, A
<1>3. Ancestors(b) \subseteq Bundles \ {b}
    BY NotAboveItself DEF Ancestors, Closure
<1> QED BY <1>2, <1>3

\* Sums grow with their sets.
LEMMA TotalOfSubset ==
    ASSUME NEW T \in SUBSET Bundles, NEW S \in SUBSET T,
           NEW f, \A b \in Bundles : f[b] \in Nat
    PROVE  Total(f, S) \in Nat /\ Total(f, T) \in Nat /\ Total(f, S) <= Total(f, T)
<1>1. IsFiniteSet(T) /\ IsFiniteSet(S)
    BY BundlesFinite, FS_Subset
<1> QED BY <1>1, TotalNat, TotalRemove

\* The totals of a selection are those of its members.
Exact(acc) ==
    /\ acc.cost = Total(VirtualCost, acc.taken)
    /\ acc.spends = Total(NumSpends, acc.taken)

\* They stay so where no spend stands in its chain before one of its ancestors;
\* and what joins a selection spends no coin that the selection spends.
LEMMA TakeGrows ==
    ASSUME BlocksIInv, NEW candidates \in SUBSET Active(pool), NEW budget,
           NEW b \in candidates, NEW acc, acc.taken \in SUBSET candidates
    PROVE  LET next == Take(acc, b, candidates, budget)
           IN  /\ acc.taken \subseteq next.taken
               /\ SpentBy(next.taken \ acc.taken) \cap SpentBy(acc.taken) = {}
               /\ InLineage /\ Exact(acc) => Exact(next)
<1> DEFINE T == acc.taken
           A == AncestorsLeft(b, T)
           S == SuccessorsLeft(b, candidates, T)
           next == Take(acc, b, candidates, budget)
<1>1. CASE ~Addable(acc, b, A, S, candidates, budget)
    <2>1. next = acc
        BY <1>1 DEF Take
    <2>2. SpentBy(T \ T) = {}
        BY DEF SpentBy
    <2> HIDE DEF next
    <2> QED BY <2>1, <2>2 DEF next
<1>2. CASE Addable(acc, b, A, S, candidates, budget)
    <2> DEFINE T1 == T \cup {b}
               T2 == T1 \cup A
               New == T2 \cup S
    <2>1. /\ next.taken = New
          /\ next.cost = acc.cost + Added(VirtualCost, b, A, S)
          /\ next.spends = acc.spends + Added(NumSpends, b, A, S)
        BY <1>2 DEF Take
    <2>2. PoolInv(pool) /\ IsPool(pool) /\ candidates \in SUBSET Bundles
        BY PoolTypes DEF BlocksIInv, IInv, PoolInv
    <2>3. b \notin T /\ SpentBy(({b} \cup A) \cup S) \cap SpentBy(T) = {}
        BY <1>2 DEF Addable
    <2>4. S \in SUBSET Bundles /\ S \cap T = {}
        BY <2>2 DEF SuccessorsLeft
    <2>5. A \subseteq Ancestors(b) /\ A \subseteq Bundles \ T /\ b \notin A
        BY <2>2, AncestorsAbove, AncestorsLeftClosed
    <2>6. b \notin S /\ (InLineage => A \cap S = {})
        <3> SUFFICES ASSUME NEW a \in S
                     PROVE  a # b /\ (InLineage => a \notin A)
            OBVIOUS
        <3> DEFINE line == Line(tables.chains, Launcher[b])
        <3>1. PICK j \in DOMAIN line : line[j] = a /\ \E i \in 1..(j - 1) : line[i] = b
            BY DEF SuccessorsLeft
        <3>2. PICK i \in 1..(j - 1) : line[i] = b
            BY <3>1
        <3>3. Launcher[b] \in DOMAIN tables.chains /\ line = tables.chains[Launcher[b]]
            BY <3>1 DEF Line
        <3>4. IsLineOf(line, SpendsIn(Active(pool), Launcher[b]))
            BY <3>3 DEF BlocksIInv, TablesOf
        <3>5. DOMAIN line = 1..Len(line) /\ Len(line) \in Nat
            BY <3>4, LenProperties DEF IsLineOf
        <3>6. i \in 1..Len(line) /\ j \in 1..Len(line) /\ i < j /\ ~(j < i) /\ i # j
            BY <3>5
        <3>7. a # b
            BY <3>1, <3>2, <3>4, <3>6 DEF IsLineOf
        <3>8. InLineage => a \notin Ancestors(b)
            BY <3>1, <3>2, <3>3, <3>5, <3>6 DEF InLineage
        <3> QED BY <2>5, <3>7, <3>8
    <2> HIDE DEF A, S, next
    <2>7. ASSUME InLineage, NEW f, \A x \in Bundles : f[x] \in Nat
          PROVE  Total(f, New) = Total(f, T) + Added(f, b, A, S)
        <3>1. /\ T \in SUBSET Bundles /\ {b} \in SUBSET Bundles /\ A \in SUBSET Bundles
              /\ T1 \in SUBSET Bundles /\ T2 \in SUBSET Bundles
              /\ T \cap {b} = {} /\ T1 \cap A = {} /\ T2 \cap S = {}
            BY <2>2, <2>3, <2>4, <2>5, <2>6, <2>7
        <3>2. Total(f, {b}) = f[b] /\ f[b] \in Nat
            BY <2>2, <2>7, TotalSingle
        <3>3. Total(f, T1) = Total(f, T) + Total(f, {b})
            <4> HIDE DEF T
            <4> QED BY <2>7, <3>1, TotalOfUnion
        <3>4. Total(f, T2) = Total(f, T1) + Total(f, A)
            <4> HIDE DEF T1
            <4> QED BY <2>7, <3>1, TotalOfUnion
        <3>5. Total(f, New) = Total(f, T2) + Total(f, S)
            <4> HIDE DEF T2
            <4> QED BY <2>4, <2>7, <3>1, TotalOfUnion
        <3>6. /\ Total(f, T) \in Nat /\ Total(f, A) \in Nat /\ Total(f, S) \in Nat
            <4> HIDE DEF T
            <4> QED BY <2>4, <2>7, <3>1, TotalOfSubset
        <3> HIDE DEF T, T1, T2, New
        <3> QED BY <3>2, <3>3, <3>4, <3>5, <3>6 DEF Added
    <2>8. /\ \A x \in Bundles : VirtualCost[x] \in Nat
          /\ \A x \in Bundles : NumSpends[x] \in Nat
        BY DataTypes
    <2>9. InLineage /\ Exact(acc) => Exact(next)
        <3> HIDE DEF New
        <3> QED BY <2>1, <2>7, <2>8 DEF Exact
    <2>10. SpentBy(New \ T) \subseteq SpentBy(({b} \cup A) \cup S)
        BY DEF SpentBy
    <2> QED BY <2>1, <2>3, <2>9, <2>10 DEF next
<1> QED BY <1>1, <1>2

\* So it is along a pass.
LEMMA PassGrows ==
    ASSUME BlocksIInv, NEW candidates \in SUBSET Active(pool), NEW budget \in Nat,
           NEW order, IsLineOf(order, candidates),
           NEW f, IsPass(f, order, candidates, budget), NEW i \in 0..Len(order)
    PROVE  \A n \in i..Len(order) :
            /\ f[i].taken \subseteq f[n].taken
            /\ SpentBy(f[n].taken \ f[i].taken) \cap SpentBy(f[i].taken) = {}
            /\ InLineage /\ Exact(f[i]) => Exact(f[n])
<1> DEFINE N == Len(order)
           Grown(n) ==
                /\ f[i].taken \subseteq f[n].taken
                /\ SpentBy(f[n].taken \ f[i].taken) \cap SpentBy(f[i].taken) = {}
                /\ InLineage /\ Exact(f[i]) => Exact(f[n])
           wrong == {n \in i..N : ~Grown(n)}
<1>1. N \in Nat /\ \A n \in 1..N : order[n] \in candidates
    BY LenProperties, ElementOfSeq DEF IsLineOf
<1>2. wrong = {}
    <2> SUFFICES ASSUME wrong # {} PROVE FALSE
        OBVIOUS
    <2>1. PICK m \in wrong : \A x \in wrong : m <= x
        <3>1. wrong \in SUBSET Nat
            BY <1>1
        <3> HIDE DEF wrong
        <3> QED BY <3>1, LeastNatural
    <2>2. CASE m = i
        <3>1. SpentBy(f[i].taken \ f[i].taken) = {}
            BY DEF SpentBy
        <3> QED BY <2>2, <3>1
    <2>3. CASE m # i
        <3>1. m \in 1..N /\ m - 1 \in i..N /\ m - 1 \in 0..N /\ ~(m <= m - 1)
            BY <1>1, <2>3
        <3>2. Grown(m - 1)
            BY <2>1, <3>1
        <3>3. f[m] = Take(f[m - 1], order[m], candidates, budget)
            BY <3>1 DEF IsPass
        <3>4. f[m - 1].taken \in SUBSET candidates
            <4>1. \A k \in 0..N : Selected(f[k], candidates, budget)
                BY PassSelects
            <4>2. Selected(f[m - 1], candidates, budget)
                BY <3>1, <4>1
            <4> QED BY <4>2 DEF Selected
        <3>5. /\ f[m - 1].taken \subseteq f[m].taken
              /\ SpentBy(f[m].taken \ f[m - 1].taken) \cap SpentBy(f[m - 1].taken) = {}
              /\ InLineage /\ Exact(f[m - 1]) => Exact(f[m])
            BY <1>1, <3>1, <3>3, <3>4, TakeGrows
        <3>6. SpentBy(f[m].taken \ f[i].taken) \cap SpentBy(f[i].taken) = {}
            <4> SUFFICES ASSUME NEW x \in f[m].taken \ f[i].taken, NEW y \in f[i].taken
                         PROVE  Removals[x] \cap Removals[y] = {}
                BY DEF SpentBy
            <4>1. y \in f[m - 1].taken
                BY <3>2
            <4>2. CASE x \in f[m - 1].taken
                BY <3>2, <4>2 DEF SpentBy
            <4>3. CASE x \notin f[m - 1].taken
                BY <3>5, <4>1, <4>3 DEF SpentBy
            <4> QED BY <4>2, <4>3
        <3>7. Grown(m)
            BY <3>2, <3>5, <3>6
        <3> QED BY <3>7
    <2> QED BY <2>2, <2>3
<1> QED BY <1>2

\* What a pass leaves out could not have been added to what it selects.
LEMMA LeftOutByPass ==
    ASSUME BlocksIInv, InLineage,
           NEW candidates \in SUBSET Active(pool), NEW budget \in Nat,
           NEW order, IsLineOf(order, candidates),
           NEW f, IsPass(f, order, candidates, budget),
           NEW K, K = f[Len(order)].taken, NEW b \in candidates \ K,
           NEW more, more = (Ancestors(b) \ K) \cup {b},
           Launcher[b] = NoLauncher, more \subseteq candidates
    PROVE  \/ Total(VirtualCost, K \cup more) > budget
           \/ Total(NumSpends, K \cup more) > MaxSpends
           \/ SpentBy(more) \cap SpentBy(K) # {}
<1> DEFINE N == Len(order)
<1>1. N \in Nat
    BY LenProperties DEF IsLineOf
<1>2. PICK n \in 1..N : order[n] = b
    BY DEF IsLineOf
<1> DEFINE acc == f[n - 1]
           T == acc.taken
           A == AncestorsLeft(b, T)
           S == SuccessorsLeft(b, candidates, T)
<1>3. n - 1 \in 0..N /\ n \in 0..N /\ N \in (n - 1)..N /\ N \in n..N /\ n - 1 \in 0..(n - 1)
      /\ n - 1 \in 0..N /\ 0 \in 0..N
    BY <1>1
<1>4. f[n] = Take(acc, b, candidates, budget)
    BY <1>2 DEF IsPass
<1>5. /\ T \subseteq K /\ SpentBy(K \ T) \cap SpentBy(T) = {}
      /\ f[n].taken \subseteq K
    <2>1. \A k \in (n - 1)..N :
            /\ f[n - 1].taken \subseteq f[k].taken
            /\ SpentBy(f[k].taken \ f[n - 1].taken) \cap SpentBy(f[n - 1].taken) = {}
        <3> DEFINE i == n - 1
        <3>1. i \in 0..N
            BY <1>3
        <3> HIDE DEF i
        <3>2. \A k \in i..N :
                /\ f[i].taken \subseteq f[k].taken
                /\ SpentBy(f[k].taken \ f[i].taken) \cap SpentBy(f[i].taken) = {}
            BY <3>1, PassGrows
        <3> QED BY <3>2 DEF i
    <2>2. \A k \in n..N : f[n].taken \subseteq f[k].taken
        BY <1>3, PassGrows
    <2> QED BY <1>3, <2>1, <2>2
<1>6. Exact(acc)
    <2>1. f[0] = NoSelection /\ Total(VirtualCost, {}) = 0 /\ Total(NumSpends, {}) = 0
        BY FS_EmptySet DEF IsPass, Total, Units
    <2>2. Exact(f[0])
        BY <2>1 DEF Exact, NoSelection
    <2>3. \A k \in 0..N : InLineage /\ Exact(f[0]) => Exact(f[k])
        BY <1>3, PassGrows
    <2> QED BY <1>3, <2>2, <2>3
<1>7. /\ PoolInv(pool) /\ IsPool(pool) /\ candidates \in SUBSET Bundles
      /\ K \in SUBSET Bundles /\ b \in Bundles /\ K \in SUBSET candidates
    <2>1. PoolInv(pool) /\ IsPool(pool) /\ candidates \in SUBSET Bundles
        BY PoolTypes DEF BlocksIInv, IInv, PoolInv
    <2>2. N \in 0..N
        BY <1>1
    <2>3. K \in SUBSET candidates
        BY <2>2, PassSelects DEF Selected
    <2> QED BY <2>1, <2>3
<1>8. A \subseteq Ancestors(b) /\ A \subseteq Bundles \ T /\ b \notin A
    BY <1>7, AncestorsAbove, AncestorsLeftClosed
<1>9. A \subseteq K \cup more /\ A \subseteq candidates
    BY <1>7, <1>8
<1>10. S = {}
    <2>1. NoLauncher \notin DOMAIN tables.chains
        BY DEF BlocksIInv, TablesOf
    <2>2. Line(tables.chains, Launcher[b]) = <<>>
        BY <2>1 DEF Line
    <2> QED BY <2>2 DEF SuccessorsLeft
<1>11. ~Addable(acc, b, A, S, candidates, budget)
    <2> SUFFICES ASSUME Addable(acc, b, A, S, candidates, budget) PROVE FALSE
        OBVIOUS
    <2>1. b \in f[n].taken
        BY <1>4 DEF Take
    <2> QED BY <1>5, <2>1
<1>12. b \notin T
    BY <1>5
<1> HIDE DEF A, S, T, acc
<1>13. \/ ~(acc.cost + Added(VirtualCost, b, A, {}) <= budget)
       \/ ~(acc.spends + Added(NumSpends, b, A, {}) <= MaxSpends)
       \/ SpentBy({b} \cup A) \cap SpentBy(T) # {}
    <2>1. ({b} \cup A) \cup {} = {b} \cup A
        OBVIOUS
    <2> QED BY <1>9, <1>10, <1>11, <1>12, <2>1 DEF Addable, T
<1>14. ASSUME NEW g, \A x \in Bundles : g[x] \in Nat
       PROVE  /\ Total(g, T) + Added(g, b, A, {}) <= Total(g, K \cup more)
              /\ Total(g, T) + Added(g, b, A, {}) \in Nat
              /\ Total(g, K \cup more) \in Nat
    <2> DEFINE T1 == T \cup {b}
               T2 == T1 \cup A
               Full == K \cup more
    <2>1. /\ T \in SUBSET Bundles /\ A \in SUBSET Bundles /\ {b} \in SUBSET Bundles
          /\ T1 \in SUBSET Bundles /\ Full \in SUBSET Bundles
          /\ T \cap {b} = {} /\ T1 \cap A = {} /\ T2 \in SUBSET Full
        BY <1>5, <1>7, <1>8, <1>9, <1>12
    <2>2. Total(g, {b}) = g[b] /\ Total(g, {}) = 0
        BY <1>7, <1>14, TotalSingle, FS_EmptySet DEF Total, Units
    <2>3. Total(g, T1) = Total(g, T) + Total(g, {b})
        BY <1>14, <2>1, TotalOfUnion
    <2>4. Total(g, T2) = Total(g, T1) + Total(g, A)
        <3> HIDE DEF T1
        <3> QED BY <1>14, <2>1, TotalOfUnion
    <2>5. Total(g, T2) \in Nat /\ Total(g, Full) \in Nat /\ Total(g, T2) <= Total(g, Full)
        <3> HIDE DEF T2, Full
        <3> QED BY <1>14, <2>1, TotalOfSubset
    <2>6. Total(g, T) \in Nat /\ Total(g, A) \in Nat /\ g[b] \in Nat
        BY <1>7, <1>14, <2>1, TotalOfSubset
    <2> HIDE DEF T1, T2, Full
    <2>7. Total(g, T) + Added(g, b, A, {}) = Total(g, T2)
        BY <2>2, <2>3, <2>4, <2>6 DEF Added
    <2> QED BY <2>5, <2>7 DEF Full
<1>15. CASE ~(acc.cost + Added(VirtualCost, b, A, {}) <= budget)
    <2>1. \A x \in Bundles : VirtualCost[x] \in Nat
        BY DataTypes
    <2>2. acc.cost = Total(VirtualCost, T)
        BY <1>6 DEF Exact, T
    <2>3. /\ Total(VirtualCost, T) + Added(VirtualCost, b, A, {})
                <= Total(VirtualCost, K \cup more)
          /\ Total(VirtualCost, T) + Added(VirtualCost, b, A, {}) \in Nat
          /\ Total(VirtualCost, K \cup more) \in Nat
        BY <1>14, <2>1
    <2> QED BY <1>15, <2>2, <2>3
<1>16. CASE ~(acc.spends + Added(NumSpends, b, A, {}) <= MaxSpends)
    <2>1. \A x \in Bundles : NumSpends[x] \in Nat
        BY DataTypes
    <2>2. acc.spends = Total(NumSpends, T)
        BY <1>6 DEF Exact, T
    <2>3. /\ Total(NumSpends, T) + Added(NumSpends, b, A, {})
                <= Total(NumSpends, K \cup more)
          /\ Total(NumSpends, T) + Added(NumSpends, b, A, {}) \in Nat
          /\ Total(NumSpends, K \cup more) \in Nat
        BY <1>14, <2>1
    <2> QED BY <1>16, <2>2, <2>3, LimitsFit
<1>17. CASE SpentBy({b} \cup A) \cap SpentBy(T) # {}
    <2>1. PICK x \in {b} \cup A, y \in T : Removals[x] \cap Removals[y] # {}
        BY <1>17 DEF SpentBy
    <2>2. y \in K /\ x \notin T
        BY <1>5, <1>8, <1>12, <2>1 DEF T
    <2>3. x \notin K
        BY <1>5, <2>1, <2>2 DEF SpentBy
    <2>4. x \in more
        BY <1>9, <2>1, <2>3
    <2> QED BY <2>1, <2>2, <2>4 DEF SpentBy
<1> QED BY <1>13, <1>15, <1>16, <1>17

\* An item that select_for_block() leaves out of a block, and that is no
\* singleton's spend, could not have been added with what is above it.
THEOREM LeftOutTheorem == BlocksSpec => []NothingLeftOut
<1>1. BlocksIInv => NothingLeftOut
    <2> SUFFICES ASSUME BlocksIInv, InLineage, NEW budget \in BlockCosts,
                        NEW h \in Heights
                 PROVE  LET K == Elements(Block(budget, h))
                        IN  \A b \in Candidates(h, seconds) \ K :
                                LET more == (Ancestors(b) \ K) \cup {b}
                                IN  Launcher[b] = NoLauncher /\ more \subseteq Candidates(h, seconds) =>
                                    \/ Total(VirtualCost, K \cup more) > budget
                                    \/ Total(NumSpends, K \cup more) > MaxSpends
                                    \/ SpentBy(more) \cap SpentBy(K) # {}
        BY DEF NothingLeftOut
    <2> DEFINE candidates == Candidates(h, seconds)
               K == Elements(Block(budget, h))
    <2>1. budget \in Nat
        BY BlockData, BundleData
    <2>2. candidates \in SUBSET Active(pool)
        BY DEF Candidates
    <2>3. PICK strategy \in Strategies :
            Block(budget, h) = InOrder(Greedy(candidates, budget, strategy).taken)
        BY SelectionOfOnePass DEF Block
    <2> HIDE DEF candidates
    <2>4. PICK order, f :
            /\ IsLineOf(order, candidates)
            /\ IsPass(f, order, candidates, budget)
            /\ Greedy(candidates, budget, strategy) = f[Len(order)]
        BY <2>2, GreedyUnfolds
    <2>5. Len(order) \in 0..Len(order)
        BY <2>4, LenProperties DEF IsLineOf
    <2>6. f[Len(order)].taken \in SUBSET candidates
        BY <2>1, <2>2, <2>4, <2>5, PassSelects DEF Selected
    <2>7. IsLineOf(Block(budget, h), f[Len(order)].taken)
        BY <2>2, <2>3, <2>4, <2>6, InOrderLine
    <2>8. K = f[Len(order)].taken
        BY <2>7, LineLength
    <2> HIDE DEF K
    <2> SUFFICES ASSUME NEW b \in candidates \ K,
                        Launcher[b] = NoLauncher,
                        (Ancestors(b) \ K) \cup {b} \subseteq candidates
                 PROVE  \/ Total(VirtualCost, K \cup ((Ancestors(b) \ K) \cup {b})) > budget
                        \/ Total(NumSpends, K \cup ((Ancestors(b) \ K) \cup {b})) > MaxSpends
                        \/ SpentBy((Ancestors(b) \ K) \cup {b}) \cap SpentBy(K) # {}
        BY DEF K, candidates
    <2> QED BY <2>1, <2>2, <2>4, <2>8, LeftOutByPass
<1> QED BY <1>1, BlocksInvariant, PTL

-----------------------------------------------------------------------------
(* How the order of a chain is lost.                                         *)

\* x stands before y in the line.
Precedes(line, x, y) ==
    \E i, j \in DOMAIN line : i < j /\ line[i] = x /\ line[j] = y

\* Who precedes whom in a chain of d does in that of e.
ChainsWithin(d, e) ==
    \A l \in DOMAIN d.chains :
        /\ l \in DOMAIN e.chains
        /\ \A x, y \in Bundles :
            Precedes(d.chains[l], x, y) => Precedes(e.chains[l], x, y)

\* Vec::retain keeps the order.
LEMMA RetainedOrder ==
    ASSUME NEW S, NEW line, IsLineOf(line, S), NEW b, NEW x, NEW y,
           Precedes(Retained(line, b), x, y)
    PROVE  Precedes(line, x, y)
<1> DEFINE places == PlacesBut(line, b)
           left == Retained(line, b)
<1>1. PICK K \in Nat : \E kept : ListsUpwards(kept, K, places)
                                 /\ left = [n \in 1..K |-> line[kept[n]]]
    BY RetainedPlaces DEF Keeps
<1>2. PICK kept : ListsUpwards(kept, K, places) /\ left = [n \in 1..K |-> line[kept[n]]]
    BY <1>1
<1>3. /\ \A n \in 1..K : kept[n] \in DOMAIN line
      /\ \A m, n \in 1..K : m < n => kept[m] < kept[n]
    BY <1>2, LenProperties DEF ListsUpwards, PlacesBut, IsLineOf
<1>4. PICK i, j \in DOMAIN left : i < j /\ left[i] = x /\ left[j] = y
    BY DEF Precedes
<1>5. i \in 1..K /\ j \in 1..K /\ line[kept[i]] = x /\ line[kept[j]] = y
    BY <1>2, <1>4
<1> QED BY <1>3, <1>4, <1>5 DEF Precedes

LEMMA ChainsWithoutOne ==
    ASSUME NEW A \in SUBSET Bundles, NEW d, TablesOf(d, A), NEW b \in A
    PROVE  ChainsWithin(TablesWithout(d, b), d)
<1> DEFINE e == TablesWithout(d, b)
<1>1. e.chains = [l \in {x \in DOMAIN d.chains : Retained(d.chains[x], b) # <<>>}
                    |-> Retained(d.chains[l], b)]
    BY ChainWithout
<1> HIDE DEF e
<1>2. \A l \in DOMAIN d.chains : IsLineOf(d.chains[l], SpendsIn(A, l))
    BY DEF TablesOf
<1>3. ASSUME NEW l \in DOMAIN e.chains
      PROVE  /\ l \in DOMAIN d.chains
             /\ \A x, y \in Bundles :
                Precedes(e.chains[l], x, y) => Precedes(d.chains[l], x, y)
    <2>1. l \in DOMAIN d.chains /\ e.chains[l] = Retained(d.chains[l], b)
        BY <1>1
    <2> QED BY <1>2, <2>1, RetainedOrder
<1> QED BY <1>3 DEF ChainsWithin, e

\* However many go, those that stay keep their order.
LEMMA ChainsWithoutSet ==
    ASSUME NEW A \in SUBSET Bundles, NEW d, TablesOf(d, A), NEW S \in SUBSET A
    PROVE  ChainsWithin(TablesWithoutAll(d, S), d)
<1> DEFINE N == Len(IdOrder)
<1>1. PICK f : WithoutInOrder(f, d, S)
    BY WithoutAllUnfolds
<1>2. /\ f[0] = d
      /\ \A n \in 1..N : f[n] = IF IdOrder[n] \in S
                                THEN TablesWithout(f[n - 1], IdOrder[n])
                                ELSE f[n - 1]
      /\ TablesWithoutAll(d, S) = f[N]
    BY <1>1 DEF WithoutInOrder
<1>3. N \in Nat /\ IdOrder \in [1..N -> Bundles]
    BY IdOrderLine, LenProperties DEF IsLineOf
<1>4. \A n \in 0..N : TablesOf(f[n], LeftAfter(A, S, n))
    BY <1>1, TablesAlong
<1> DEFINE wrong == {n \in 0..N : ~ChainsWithin(f[n], d)}
<1>5. wrong = {}
    <2> SUFFICES ASSUME wrong # {} PROVE FALSE
        OBVIOUS
    <2>1. PICK m \in wrong : \A x \in wrong : m <= x
        <3>1. wrong \in SUBSET Nat
            BY <1>3
        <3> HIDE DEF wrong
        <3> QED BY <3>1, LeastNatural
    <2>2. CASE m = 0
        BY <1>2, <2>1, <2>2 DEF ChainsWithin
    <2>3. CASE m # 0
        <3> DEFINE b == IdOrder[m]
                   before == f[m - 1]
                   left == LeftAfter(A, S, m - 1)
        <3>1. m \in 1..N /\ m - 1 \in 0..N /\ ~(m <= m - 1)
            BY <1>3, <2>3
        <3>2. ChainsWithin(before, d) /\ ~ChainsWithin(f[m], d)
            BY <2>1, <3>1
        <3>3. TablesOf(before, left) /\ left \in SUBSET Bundles
            BY <1>4, <3>1 DEF LeftAfter
        <3>4. b \in S => b \in left
            <4>1. \A i \in 1..(m - 1) : IdOrder[i] # b
                BY <1>3, <3>1, IdOrderLine DEF IsLineOf
            <4> QED BY <4>1 DEF LeftAfter
        <3>5. f[m] = IF b \in S THEN TablesWithout(before, b) ELSE before
            BY <1>2, <3>1
        <3> HIDE DEF b, before, left
        <3>6. b \in S /\ ChainsWithin(TablesWithout(before, b), before)
            BY <3>2, <3>3, <3>4, <3>5, ChainsWithoutOne
        <3> QED BY <3>2, <3>5, <3>6 DEF ChainsWithin
    <2> QED BY <2>2, <2>3
<1>6. N \in 0..N
    BY <1>3
<1> QED BY <1>2, <1>5, <1>6

\* No call but a restore changes what an item that stays depends on.
LEMMA ParentsStay ==
    ASSUME IInv, Next, result' # "Restored"
    PROVE  \A c \in Active(pool) \cap Active(pool') : Parents(pool', c) = Parents(pool, c)
<1> DEFINE Same == \A c \in Active(pool) \cap Active(pool') :
                        Parents(pool', c) = Parents(pool, c)
<1> SUFFICES Same
    OBVIOUS
<1>1. PoolInv(pool)
    BY DEF IInv
<1>2. ASSUME Remains(pool, pool') PROVE Same
    BY <1>2 DEF Remains, Parents
<1>3. ASSUME NEW b \in Bundles, SubmitRefused(b) PROVE Same
    BY <1>3 DEF SubmitRefused
<1>4. ASSUME NEW b \in Bundles, SubmitFull(b) PROVE Same
    BY <1>1, <1>2, <1>4, PreparedOK DEF SubmitFull
<1>5. ASSUME NEW b \in Bundles, SubmitVetoed(b) PROVE Same
    BY <1>1, <1>2, <1>5, PreparedOK DEF SubmitVetoed
<1>6. ASSUME NEW b \in Bundles, SubmitAdmitted(b) PROVE Same
    <2>1. PICK known \in CoinRecords(b) :
            /\ SubmitError(b, known) = "none"
            /\ \E prepared \in Prepared(pool, b, height) :
                /\ Fits(prepared, b)
                /\ pool' = Admitted(pool, prepared, b, known)
        BY <1>6 DEF SubmitAdmitted
    <2>2. PICK prepared \in Prepared(pool, b, height) :
            pool' = Admitted(pool, prepared, b, known)
        BY <2>1
    <2> DEFINE item == NewItem(pool, b, known)
    <2>3. b \notin Active(pool)
        BY <2>1 DEF SubmitError
    <2>4. Remains(pool, prepared) /\ IsPool(prepared) /\ b \notin Active(prepared)
        BY <1>1, <2>3, PreparedOK DEF Remains, PoolInv
    <2>5. item \in ItemType
        BY <1>1, NewItemOK
    <2> HIDE DEF item
    <2>6. InsertedInto(prepared, b, item, pool')
        BY <2>2, <2>4, <2>5, InsertEffect DEF Admitted, item
    <2> QED BY <2>3, <2>4, <2>6 DEF InsertedInto, Remains, Parents
<1>7. ASSUME NEW b \in Bundles, Remove(b) PROVE Same
    BY <1>1, <1>2, <1>7, RemoveAllKeeps DEF Remove
<1>8. ASSUME NEW percent \in Percents, EvictLowestPercent(percent) PROVE Same
    BY <1>1, <1>2, <1>8, RemoveAllKeeps DEF EvictLowestPercent, Cascade
<1>9. ASSUME NEW K \in SUBSET (Bundles \ confirmed), NEW s \in 0..MaxSeconds,
             NewBlock(K, s)
      PROVE  Same
    <2> DEFINE r == Cascade(pool, Spenders(pool, SpentBy(K)))
               late == {b \in Active(r) : IsExpired(b, height + 1, s)}
    <2>1. Remains(pool, r) /\ PoolInv(r)
        BY <1>1, RemoveAllKeeps DEF Cascade
    <2>2. pool' = Cascade(r, late)
        BY <1>9 DEF NewBlock, AfterBlock
    <2> HIDE DEF r, late
    <2>3. Remains(pool, pool')
        BY <1>1, <2>1, <2>2, RemoveAllKeeps, RemainsTransitive DEF Cascade
    <2> QED BY <1>2, <2>3
<1>10. CASE Clear
    BY <1>10 DEF Clear, EmptyPool, Active
<1> QED BY <1>3, <1>4, <1>5, <1>6, <1>7, <1>8, <1>9, <1>10 DEF Next, Submits, Restore

\* The ancestors of b along the parents recorded in p.
Above(p, b) == Closure(Parents(p, b), LAMBDA q : Parents(p, q))

\* Where items keep their parents, and none of them is a parent of what comes,
\* ancestors only become fewer, and what comes is not among them.
LEMMA AncestorsStay ==
    ASSUME NEW p, PoolInv(p), NEW r, PoolInv(r),
           \A c \in Active(p) \cap Active(r) : Parents(r, c) = Parents(p, c),
           \A b \in Active(r) \ Active(p) : \A c \in Active(p) : b \notin Parents(p, c),
           NEW y \in Active(p) \cap Active(r)
    PROVE  Above(r, y) \subseteq Above(p, y) \ (Active(r) \ Active(p))
<1> DEFINE A == Active(p)
           B == Active(r)
           T == Above(p, y)
           closed == {V \in SUBSET Bundles :
                /\ Parents(p, y) \subseteq V
                /\ \A t \in V : Parents(p, t) \subseteq V}
<1>1. /\ A \in SUBSET Bundles /\ B \in SUBSET Bundles
      /\ \A a \in Bundles : Parents(p, a) \subseteq Bundles
    BY PoolTypes DEF PoolInv
<1>2. T = {a \in Bundles : \A V \in closed : a \in V}
    BY DEF Above, Closure
<1> HIDE DEF T
<1>3. /\ T \in SUBSET Bundles /\ Parents(p, y) \subseteq T
      /\ \A t \in T : Parents(p, t) \subseteq T
    BY <1>1, <1>2
<1>4. T \ (B \ A) \in closed
    <2>1. \A a \in Bundles : Parents(p, a) \cap (B \ A) = {}
        BY DEF Parents
    <2> QED BY <1>1, <1>3, <2>1
<1>5. T \cap (B \ A) = {}
    <2>1. \A a \in T : a \in T \ (B \ A)
        BY <1>2, <1>4
    <2> QED BY <2>1
<1>6. \A t \in T : Parents(r, t) \subseteq T
    <2> SUFFICES ASSUME NEW t \in T PROVE Parents(r, t) \subseteq T
        OBVIOUS
    <2>1. CASE t \in B
        BY <1>3, <1>5, <2>1
    <2>2. CASE t \notin B
        BY <2>2 DEF Parents
    <2> QED BY <2>1, <2>2
<1>7. Parents(r, y) \subseteq T
    BY <1>3
<1> HIDE DEF A, B, closed
<1>8. Above(r, y) \subseteq T
    BY <1>3, <1>6, <1>7 DEF Above, Closure
<1> QED BY <1>5, <1>8 DEF T, A, B

\* Who stands before another in a chain that b has joined was there before b,
\* and before the other if that one was there.
LEMMA ChainsWithOne ==
    ASSUME NEW A \in SUBSET Bundles, NEW d, TablesOf(d, A),
           NEW b \in Bundles \ A, NEW h,
           NEW l \in DOMAIN TablesWith(d, b, h).chains,
           NEW j \in DOMAIN TablesWith(d, b, h).chains[l],
           NEW i \in DOMAIN TablesWith(d, b, h).chains[l], j < i
    PROVE  LET line == TablesWith(d, b, h).chains[l]
           IN  /\ line[j] \in A
               /\ line[i] \in A => /\ l \in DOMAIN d.chains
                                   /\ Precedes(d.chains[l], line[j], line[i])
<1> DEFINE e == TablesWith(d, b, h)
           line == e.chains[l]
           own == {Launcher[b]} \ {NoLauncher}
           old == Line(d.chains, l)
           K == Len(old)
<1>1. e.chains = Joined(d.chains, own, b)
    BY DEF TablesWith
<1>2. line = IF l \in own THEN Append(old, b) ELSE old
    <2> HIDE DEF own
    <2> QED BY <1>1 DEF Joined, Line
<1>3. IsLineOf(old, IF l \in DOMAIN d.chains THEN SpendsIn(A, l) ELSE {})
    BY EmptyLine DEF TablesOf, Line
<1>4. K \in Nat /\ old \in Seq(A) /\ old \in [1..K -> A]
    <2>1. SpendsIn(A, l) \subseteq A
        BY DEF SpendsIn
    <2>2. K \in Nat /\ old \in [1..K -> A]
        BY <1>3, <2>1, LenProperties DEF IsLineOf
    <2> QED BY <2>2, SeqDef
<1>5. l \notin DOMAIN d.chains => K = 0
    BY EmptySeq DEF Line
<1> HIDE DEF e, old, own
<1>6. CASE l \in own
    <2>1. line = Append(old, b)
        BY <1>2, <1>6
    <2>2. /\ DOMAIN line = 1..(K + 1)
          /\ \A n \in 1..K : line[n] = old[n]
          /\ line[K + 1] = b
        <3>1. old \in Seq(Bundles) /\ b \in Bundles
            BY <1>4, SeqDef
        <3> HIDE DEF line
        <3> QED BY <2>1, <3>1, AppendProperties, LenProperties
    <2> HIDE DEF line, K
    <2>3. j \in 1..(K + 1) /\ i \in 1..(K + 1)
        BY <2>2 DEF line, e
    <2>4. j \in 1..K
        BY <1>4, <2>3
    <2>5. line[j] \in A
        BY <1>4, <2>2, <2>4
    <2>6. ASSUME line[i] \in A
          PROVE  l \in DOMAIN d.chains /\ Precedes(d.chains[l], line[j], line[i])
        <3>1. i \in 1..K
            <4>1. i # K + 1
                BY <2>2, <2>6
            <4> QED BY <1>4, <2>3, <4>1
        <3>2. l \in DOMAIN d.chains
            BY <1>5, <2>4
        <3>3. old = d.chains[l] /\ DOMAIN old = 1..K
            BY <1>4, <3>2 DEF Line, old
        <3> QED BY <2>2, <2>4, <3>1, <3>2, <3>3 DEF Precedes
    <2> QED BY <2>5, <2>6 DEF line, e
<1>7. CASE l \notin own
    <2>1. line = old
        BY <1>2, <1>7
    <2> HIDE DEF line, K
    <2>2. j \in 1..K /\ i \in 1..K
        BY <1>4, <2>1 DEF line, e
    <2>3. l \in DOMAIN d.chains
        BY <1>5, <2>2
    <2>4. old = d.chains[l] /\ DOMAIN old = 1..K
        BY <1>4, <2>3 DEF Line, old
    <2>5. line[j] \in A /\ Precedes(d.chains[l], line[j], line[i])
        BY <1>4, <2>1, <2>2, <2>4 DEF Precedes
    <2> QED BY <2>3, <2>5 DEF line, e
<1> QED BY <1>6, <1>7

\* The chains of d are in the order of the parents recorded in p.
LineageIn(d, p) ==
    \A l \in DOMAIN d.chains : \A i, j \in DOMAIN d.chains[l] :
        i < j \/ d.chains[l][i] \notin Above(p, d.chains[l][j])

\* A removal, and the arrival of an item that is nobody's parent, keep chains
\* in the order of their lineage.
LEMMA LineageKept ==
    ASSUME NEW p, PoolInv(p), NEW r, PoolInv(r),
           \A c \in Active(p) \cap Active(r) : Parents(r, c) = Parents(p, c),
           \A b \in Active(r) \ Active(p) : \A c \in Active(p) : b \notin Parents(p, c),
           NEW d, TablesOf(d, Active(p)), NEW e, TablesOf(e, Active(r)),
           NEW h,
           LET left == TablesWithoutAll(d, Active(p) \ Active(r))
               new == Active(r) \ Active(p)
           IN  \/ new = {} /\ e = left
               \/ \E b \in Bundles : new = {b} /\ e = TablesWith(left, b, h),
           LineageIn(d, p)
    PROVE  LineageIn(e, r)
<1> DEFINE A == Active(p)
           B == Active(r)
           C == A \ (A \ B)
           left == TablesWithoutAll(d, A \ B)
<1>1. A \in SUBSET Bundles /\ B \in SUBSET Bundles
    BY PoolTypes DEF PoolInv
<1>2. ChainsWithin(left, d) /\ TablesOf(left, C)
    <2>1. A \ B \in SUBSET A /\ TablesOf(d, A)
        OBVIOUS
    <2> HIDE DEF A, B
    <2> QED BY <1>1, <2>1, ChainsWithoutSet, TablesWithoutSet
<1>3. ASSUME NEW l \in DOMAIN e.chains,
             NEW j \in DOMAIN e.chains[l], NEW i \in DOMAIN e.chains[l], j < i
      PROVE  /\ e.chains[l][j] \in C
             /\ e.chains[l][i] \in C =>
                    /\ l \in DOMAIN left.chains
                    /\ Precedes(left.chains[l], e.chains[l][j], e.chains[l][i])
    <2>1. CASE B \ A = {} /\ e = left
        <3>1. IsLineOf(left.chains[l], SpendsIn(C, l)) /\ SpendsIn(C, l) \subseteq C
            BY <1>2, <1>3, <2>1 DEF TablesOf, SpendsIn
        <3>2. j \in 1..Len(left.chains[l]) /\ left.chains[l] \in [1..Len(left.chains[l]) -> SpendsIn(C, l)]
            <4> HIDE DEF left, C
            <4> QED BY <1>3, <2>1, <3>1, LenProperties DEF IsLineOf
        <3> HIDE DEF left, C
        <3> QED BY <1>3, <2>1, <3>1, <3>2 DEF Precedes
    <2>2. ASSUME NEW b \in Bundles, B \ A = {b}, e = TablesWith(left, b, h)
          PROVE  /\ e.chains[l][j] \in C
                 /\ e.chains[l][i] \in C =>
                        /\ l \in DOMAIN left.chains
                        /\ Precedes(left.chains[l], e.chains[l][j], e.chains[l][i])
        <3>1. b \in Bundles \ C /\ C \in SUBSET Bundles
            BY <1>1, <2>2
        <3> HIDE DEF left, C, A, B
        <3> QED BY <1>2, <1>3, <2>2, <3>1, ChainsWithOne
    <2> QED BY <2>1, <2>2
<1>4. ASSUME NEW l \in DOMAIN e.chains,
             NEW i \in DOMAIN e.chains[l], NEW j \in DOMAIN e.chains[l]
      PROVE  i < j \/ e.chains[l][i] \notin Above(r, e.chains[l][j])
    <2> DEFINE line == e.chains[l]
               x == line[i]
               y == line[j]
    <2>1. IsLineOf(line, SpendsIn(B, l))
        BY DEF TablesOf
    <2>2. /\ i \in Nat /\ j \in Nat /\ x \in B /\ y \in B
        <3>1. line \in [1..Len(line) -> SpendsIn(B, l)] /\ Len(line) \in Nat
            BY <2>1, LenProperties DEF IsLineOf
        <3>2. SpendsIn(B, l) \subseteq B
            BY DEF SpendsIn
        <3>3. i \in 1..Len(line) /\ j \in 1..Len(line)
            BY <3>1
        <3> HIDE DEF line
        <3> QED BY <3>1, <3>2, <3>3
    <2>3. CASE i = j
        <3>1. y \in Bundles
            BY <1>1, <2>2
        <3> HIDE DEF y
        <3>2. y \notin Above(r, y)
            BY <3>1, NotAboveItself DEF Above, Closure
        <3> QED BY <2>3, <3>2 DEF y
    <2>4. CASE j < i
        <3>1. y \in C /\ (x \in C => /\ l \in DOMAIN left.chains
                                     /\ Precedes(left.chains[l], y, x))
            <4> HIDE DEF C, left
            <4> QED BY <1>3, <2>4
        <3>2. Above(r, y) \subseteq Above(p, y) \ (B \ A)
            <4>1. y \in Active(p) \cap Active(r)
                BY <3>1
            <4> HIDE DEF y
            <4> QED BY <4>1, AncestorsStay
        <3>3. CASE x \notin A
            BY <2>2, <3>2, <3>3
        <3>4. CASE x \in A
            <4>1. /\ l \in DOMAIN d.chains /\ Precedes(d.chains[l], y, x)
                <5>1. x \in C /\ x \in Bundles /\ y \in Bundles
                    BY <1>1, <2>2, <3>4
                <5> HIDE DEF left, C, x, y
                <5> QED BY <1>2, <3>1, <5>1 DEF ChainsWithin
            <4>2. PICK m, n \in DOMAIN d.chains[l] :
                    m < n /\ d.chains[l][m] = y /\ d.chains[l][n] = x
                BY <4>1 DEF Precedes
            <4>3. m \in Nat /\ n \in Nat
                <5>1. IsLineOf(d.chains[l], SpendsIn(A, l))
                    BY <4>1 DEF TablesOf
                <5>2. m \in 1..Len(d.chains[l]) /\ n \in 1..Len(d.chains[l])
                    BY <4>2, <5>1, LenProperties DEF IsLineOf
                <5> QED BY <5>2
            <4>4. ~(n < m)
                BY <4>2, <4>3
            <4>5. x \notin Above(p, y)
                <5> HIDE DEF x, y
                <5> QED BY <4>1, <4>2, <4>4 DEF LineageIn
            <4> QED BY <3>2, <4>5
        <3> QED BY <3>3, <3>4
    <2>5. i < j \/ i = j \/ j < i
        BY <2>2
    <2> QED BY <2>3, <2>4, <2>5
<1> QED BY <1>4 DEF LineageIn

\* The order of lineage is lost in no other way than by the return of an item
\* whose child has stayed, or by a restore: in every history of calls, whatever
\* is evicted, replaced, confirmed or expires.
THEOREM LineageTheorem == BlocksSpec => LineageLostByReturn
<1> DEFINE Step ==
        result' # "Restored" /\ InLineage =>
            \/ InLineage'
            \/ \E b \in Active(pool') \ Active(pool), c \in Active(pool) :
                b \in Parents(pool, c)
<1>1. ASSUME BlocksIInv, BlocksNext, result' # "Restored", InLineage,
             \A b \in Active(pool') \ Active(pool) : \A c \in Active(pool) :
                b \notin Parents(pool, c)
      PROVE  InLineage'
    <2>1. Next /\ TablesFollow
        BY <1>1 DEF BlocksNext, TablesRefilled, Restore
    <2>2. BlocksIInv'
        BY <1>1, NextBlocksIInv
    <2>3. /\ PoolInv(pool) /\ PoolInv(pool')
          /\ TablesOf(tables, Active(pool)) /\ TablesOf(tables', Active(pool'))
        BY <1>1, <2>2 DEF BlocksIInv, IInv
    <2>4. \A c \in Active(pool) \cap Active(pool') : Parents(pool', c) = Parents(pool, c)
        BY <1>1, <2>1, ParentsStay DEF BlocksIInv
    <2>5. LineageIn(tables, pool)
        BY <1>1 DEF InLineage, LineageIn, Ancestors, Above, Closure
    <2>6. LET left == TablesWithoutAll(tables, Active(pool) \ Active(pool'))
              new == Active(pool') \ Active(pool)
          IN  \/ new = {} /\ tables' = left
              \/ \E b \in Bundles : new = {b} /\ tables' = TablesWith(left, b, height)
        BY <2>1 DEF TablesFollow
    <2>7. LineageIn(tables', pool')
        BY <1>1, <2>3, <2>4, <2>5, <2>6, LineageKept
    <2> QED BY <2>7 DEF InLineage, LineageIn, Ancestors, Above, Closure, Parents, Active
<1>2. BlocksIInv /\ [BlocksNext]_<<vars, tables>> => [Step]_<<vars, tables>>
    BY <1>1
<1> HIDE DEF Step
<1>3. BlocksSpec => [][Step]_<<vars, tables>>
    BY <1>2, BlocksInvariant, PTL DEF BlocksSpec
<1> QED BY <1>3 DEF Step, LineageLostByReturn
=============================================================================
