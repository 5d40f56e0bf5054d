------------------------------ MODULE Bundles ------------------------------
(* The spend bundles a mempool may be given, and what admission computes     *)
(* once about each of them before any pool is locked.                        *)
(*                                                                           *)
(* A bundle is a name.  Everything derived from its bytes by CLVM validation *)
(* (an external crate) is a constant function of that name: the coins it     *)
(* spends and creates, its fee, its virtual cost, its absolute timelocks and *)
(* the (coin, solution hash) pairs that are eligible for deduplication.      *)
EXTENDS Integers, FiniteSets, FiniteSetsExt

CONSTANTS
    Bundles,        \* the bundles that clients ever submit
    Coins,          \* the coin ids those bundles spend or create
    Genesis,        \* the coins that exist on chain before any bundle does
    Removals,       \* bundle -> the coins it spends
    Additions,      \* bundle -> the coins it creates
    Fee,            \* bundle -> MempoolItem.fee
    VirtualCost,    \* bundle -> MempoolItem.virtual_cost
    NumSpends,      \* bundle -> MempoolItem.num_spends
    DedupKeys,      \* bundle -> its (coin, solution) pairs; {} when ineligible
    BeforeHeight,   \* bundle -> assert_before_height, or Unlimited
    BeforeSeconds,  \* bundle -> assert_before_seconds, or Unlimited
    AssertHeight,   \* bundle -> assert_height, 0 for none
    AssertSeconds,  \* bundle -> assert_seconds, 0 for none
    Solutions,      \* the distinguishable solutions of a coin spend
    FpcScale,       \* config::FPC_SCALE
    MaxU64          \* u64::MAX, at which the accumulators saturate

\* An absent deadline (None in the code): later than every height and time.
Unlimited == MaxU64

\* The bundles are finitely many.
ASSUME BundlesFinite == IsFiniteSet(Bundles)

\* Every derived quantity has its Rust type; a bundle spends at least a coin.
ASSUME BundleData ==
    /\ MaxU64 \in Nat
    /\ FpcScale \in Nat \ {0}
    /\ Genesis \subseteq Coins
    /\ Removals \in [Bundles -> (SUBSET Coins) \ {{}}]
    /\ Additions \in [Bundles -> SUBSET Coins]
    /\ Fee \in [Bundles -> 0..MaxU64]
    /\ VirtualCost \in [Bundles -> 0..MaxU64]
    /\ NumSpends \in [Bundles -> 0..MaxU64]
    /\ DedupKeys \in [Bundles -> SUBSET (Coins \X Solutions)]
    /\ BeforeHeight \in [Bundles -> 0..MaxU64]
    /\ BeforeSeconds \in [Bundles -> 0..MaxU64]
    /\ AssertHeight \in [Bundles -> 0..MaxU64]
    /\ AssertSeconds \in [Bundles -> 0..MaxU64]

\* A coin id hashes the id of the coin whose spend created it, so following
\* creators can never come back to its start: bundles can be ranked so that
\* the creator of a coin ranks below every spender of it.
ASSUME NoHashCycle ==
    \E rank \in [Bundles -> 0..Cardinality(Bundles)] :
        \A p, b \in Bundles :
            Additions[p] \cap Removals[b] # {} => rank[p] < rank[b]

\* For the same reason two bundles that create the same coin both spend the
\* coin it descends from.
ASSUME CreatedByOneSpend ==
    \A p, b \in Bundles :
        Additions[p] \cap Additions[b] # {} => Removals[p] \cap Removals[b] # {}

\* No bundle creates a coin that was there before it.
ASSUME GenesisFirst == \A b \in Bundles : Additions[b] \cap Genesis = {}

-----------------------------------------------------------------------------
\* Sum of f over the finite set S, as the size of a set: b stands for f[b]
\* numbered units.  (A recursive sum could not be reasoned about in proofs.)
Units(f, S) == UNION {{b} \X (1..f[b]) : b \in S}
Total(f, S) == Cardinality(Units(f, S))

\* The fees of all the bundles fit in a u64 (fees are paid in coins, whose
\* total supply does).
ASSUME FeesFit == Total(Fee, Bundles) <= MaxU64

\* u64::saturating_add, saturating_sub and saturating_mul.
SatAdd(m, n) == IF m + n > MaxU64 THEN MaxU64 ELSE m + n
SatSub(m, n) == IF m < n THEN 0 ELSE m - n
SatMul(m, n) == IF m * n > MaxU64 THEN MaxU64 ELSE m * n

\* A plain u64 sum in a release build.  (A debug build panics instead.)
Wrapped(n) == n % (MaxU64 + 1)

\* The largest of a set of naturals, 0 for the empty set (unwrap_or(0)).
Highest(S) == Max(S \cup {0})

\* compute_fpc_scaled: the fee rate, scaled and truncated.
FeePerCost(fee, cost) == IF cost = 0 THEN 0 ELSE (fee * FpcScale) \div cost
OwnFeeRate(b) == FeePerCost(Fee[b], VirtualCost[b])

\* The coins a set of bundles spends, and creates.
SpentBy(S) == UNION {Removals[b] : b \in S}
CreatedBy(S) == UNION {Additions[b] : b \in S}

\* The coins that exist unspent on a chain that holds the given bundles.
Unspent(confirmed) == (Genesis \cup CreatedBy(confirmed)) \ SpentBy(confirmed)

\* Past one of its deadlines: refused by admission, dropped at a new block.
IsExpired(b, height, seconds) ==
    BeforeHeight[b] <= height \/ BeforeSeconds[b] <= seconds

\* ADM-006: timelocks that can never be met together, and timelocks that are
\* not met yet, as seen by a caller at the given height and time.
IsImpossible(b) ==
    \/ AssertHeight[b] > 0 /\ BeforeHeight[b] <= AssertHeight[b]
    \/ AssertSeconds[b] > 0 /\ BeforeSeconds[b] <= AssertSeconds[b]

IsTimelocked(b, height, seconds) ==
    AssertHeight[b] > height \/ AssertSeconds[b] > seconds

\* No two of the bundles spend the same coin, but by spends that the block
\* builder can merge because their solutions are identical.
Compatible(S) ==
    \A a, b \in S : a # b =>
        \A c \in Removals[a] \cap Removals[b] :
            \E k \in DedupKeys[a] \cap DedupKeys[b] : k[1] = c

\* Bundles a next block may hold: their coins exist, and none is spent twice.
ValidBlock(confirmed, K, h, s) ==
    /\ SpentBy(K) \subseteq Unspent(confirmed) \cup CreatedBy(K)
    /\ \A b \in K : ~IsExpired(b, h, s) /\ ~IsTimelocked(b, h, s)
    /\ Compatible(K)

\* The least set that contains base and the successors of its members.
Closure(base, Succ(_)) ==
    LET closed == {T \in SUBSET Bundles :
                    base \subseteq T /\ \A t \in T : Succ(t) \subseteq T}
    IN  {b \in Bundles : \A T \in closed : b \in T}
=============================================================================
