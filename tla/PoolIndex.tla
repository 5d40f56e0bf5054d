----------------------------- MODULE PoolIndex -----------------------------
(* The ActivePool structure and its primitives (pools/active.rs): insert,    *)
(* remove, cascade eviction, capacity eviction and descendant scores, each   *)
(* as an operator from a pool value to the pool value(s) it may leave.       *)
(*                                                                           *)
(* A pool value is a record                                                  *)
(*   items        : active bundle -> the mutable part of its MempoolItem     *)
(*   coinIndex    : coin -> the bundle recorded as its spender               *)
(*   mempoolCoins : coin -> the bundle recorded as its creator               *)
(*   dependents   : bundle -> the children recorded for it                   *)
(*   totalCost, totalFees, totalSpends : the running accumulators            *)
(* `dependencies' is not kept apart: it is written and deleted together with *)
(* the item and always equals its depends_on.  Of the dedup maps only the    *)
(* question the other code asks, "is this key borne by an active bundle", is *)
(* kept (HeldKeys).                                                          *)
EXTENDS Bundles

CONSTANTS
    MaxTotalCost,       \* config.max_total_cost
    MaxSpends,          \* config.max_spends_per_block
    ProtectionBlocks    \* config.expiry_protection_blocks

\* The configured limits are below the width of the accumulators.
ASSUME LimitsFit ==
    /\ MaxTotalCost \in Nat /\ MaxTotalCost < MaxU64
    /\ MaxSpends \in Nat /\ MaxSpends < MaxU64
    /\ ProtectionBlocks \in Nat

IsPartialFunction(f, D, R) == DOMAIN f \subseteq D /\ f \in [DOMAIN f -> R]

ItemType == [depends_on : SUBSET Bundles,
             depth : Nat,
             package_fee : Nat,
             package_virtual_cost : Nat,
             descendant_score : Nat]

IsPool(p) ==
    /\ IsPartialFunction(p.items, Bundles, ItemType)
    /\ IsPartialFunction(p.coinIndex, Coins, Bundles)
    /\ IsPartialFunction(p.mempoolCoins, Coins, Bundles)
    /\ IsPartialFunction(p.dependents, Bundles, SUBSET Bundles)
    /\ {p.totalCost, p.totalFees, p.totalSpends} \subseteq 0..MaxU64

EmptyPool == [items |-> [b \in {} |-> {}],
              coinIndex |-> [c \in {} |-> {}],
              mempoolCoins |-> [c \in {} |-> {}],
              dependents |-> [b \in {} |-> {}],
              totalCost |-> 0,
              totalFees |-> 0,
              totalSpends |-> 0]

-----------------------------------------------------------------------------
Active(p) == DOMAIN p.items
Children(p, b) == IF b \in DOMAIN p.dependents THEN p.dependents[b] ELSE {}
Parents(p, b) == IF b \in Active(p) THEN p.items[b].depends_on ELSE {}
Score(p, b) == p.items[b].descendant_score
HeldKeys(p) == UNION {DedupKeys[b] : b \in Active(p)}

PackageFeeRate(item) ==
    FeePerCost(item.package_fee, item.package_virtual_cost)

\* Mutant of Without: the entries are never deleted.
KeepAll(f, D) == f

\* f without the keys in D; f with v under every key in D.
Without(f, D) == [x \in DOMAIN f \ D |-> f[x]]
Assign(f, D, v) == [x \in DOMAIN f \cup D |-> IF x \in D THEN v ELSE f[x]]

-----------------------------------------------------------------------------
\* Mutant of Insert: the creator index leads from a coin id to itself.
InsertMisindexed(p, b, item) ==
    [p EXCEPT !.items = Assign(@, {b}, item),
              !.coinIndex = Assign(@, Removals[b], b),
              !.mempoolCoins =
                [c \in DOMAIN @ \cup Additions[b] |-> c]]

\* ActivePool::insert.  The maps are overwritten, not checked: a coin already
\* indexed for another bundle is re-assigned to b.
Insert(p, b, item) ==
    [items |-> Assign(p.items, {b}, item),
     coinIndex |-> Assign(p.coinIndex, Removals[b], b),
     mempoolCoins |-> Assign(p.mempoolCoins, Additions[b], b),
     dependents |->
        [q \in DOMAIN p.dependents \cup item.depends_on |->
            Children(p, q) \cup {x \in {b} : q \in item.depends_on}],
     totalCost |-> SatAdd(p.totalCost, VirtualCost[b]),
     totalFees |-> SatAdd(p.totalFees, Fee[b]),
     totalSpends |-> SatAdd(p.totalSpends, NumSpends[b])]

\* recompute_descendant_score, given the children that are left: the package
\* rates of the direct children only.
RecomputedScore(p, b, children) ==
    Highest({OwnFeeRate(b)} \cup
            {PackageFeeRate(p.items[c]) : c \in children \cap Active(p)})

\* ActivePool::remove applied to every active member of S, in any order: the
\* order makes no difference to the pool that is left (RemovalsCompose in
\* PoolIndexProofs).  The coin maps lose the coins of each removed bundle
\* whoever they were recorded for.
RemoveAll(p, S) ==
    LET gone == S \cap Active(p)
        kept == Active(p) \ gone
        left(q) == Children(p, q) \ gone
        bereaved == {q \in kept : \E b \in gone : q \in p.items[b].depends_on}
    IN  [items |->
            [b \in kept |->
                IF b \in bereaved
                THEN [p.items[b] EXCEPT
                        !.descendant_score = RecomputedScore(p, b, left(b))]
                ELSE p.items[b]],
         coinIndex |-> Without(p.coinIndex, SpentBy(gone)),
         mempoolCoins |-> Without(p.mempoolCoins, CreatedBy(gone)),
         dependents |->
            [q \in {x \in DOMAIN p.dependents \ gone : left(x) # {}} |-> left(q)],
         totalCost |-> SatSub(p.totalCost, Total(VirtualCost, gone)),
         totalFees |-> SatSub(p.totalFees, Total(Fee, gone)),
         totalSpends |-> SatSub(p.totalSpends, Total(NumSpends, gone))]

\* S and everything recorded below it in the dependents graph.
Descendants(p, S) == Closure(S, LAMBDA b : Children(p, b))

\* Mutants of Cascade: plain removal, as in the callers that do not cascade;
\* the totals are reduced for S alone, not for what goes with it.
Uncascaded(p, S) == RemoveAll(p, S)
CascadeUncounted(p, S) ==
    [RemoveAll(p, Descendants(p, S)) EXCEPT
        !.totalCost = RemoveAll(p, S).totalCost]

\* cascade_evict of every member of S, in any order: they go with everything
\* recorded below them in the dependents graph.
Cascade(p, S) == RemoveAll(p, Descendants(p, S))

\* update_descendant_scores_on_add: the walk goes up from the new item and
\* stops at every ancestor whose score is already as high as the new package
\* rate, whatever lies above it.
RaiseScores(p, b) ==
    LET rate == PackageFeeRate(p.items[b])
        lower == {a \in Active(p) : Score(p, a) < rate}
        raised == Closure(Parents(p, b) \cap lower,
                          LAMBDA a : Parents(p, a) \cap lower)
    IN  [p EXCEPT !.items =
            [a \in Active(p) |->
                IF a \in raised
                THEN [p.items[a] EXCEPT !.descendant_score = rate]
                ELSE p.items[a]]]

-----------------------------------------------------------------------------
\* The prefixes at which a loop stops that takes the members of U in ascending
\* score order, ties in any order, until Enough holds of what it has taken (it
\* does not hold of {}).
LowestFirst(p, U, Enough(_)) ==
    IF ~Enough(U) THEN {U}
    ELSE {E \in SUBSET U :
            /\ Enough(E)
            /\ \A e \in E, u \in U \ E : Score(p, e) <= Score(p, u)
            /\ \E last \in E :
                /\ \A e \in E : Score(p, e) <= Score(p, last)
                /\ ~Enough(E \ {last})}

\* is_expiry_protected.
IsProtected(b, height) ==
    /\ BeforeHeight[b] # Unlimited
    /\ BeforeHeight[b] > height
    /\ BeforeHeight[b] <= SatAdd(height, ProtectionBlocks)

\* Mutant of Fits: the capacity check forgets the newcomer's own cost.
FitsBefore(p, b) == p.totalCost <= MaxTotalCost

Fits(p, b) == SatAdd(p.totalCost, VirtualCost[b]) <= MaxTotalCost

\* Mutant of EvictionPass: the candidates are taken in map order, unsorted.
UnsortedPass(p, b, U) ==
    LET beatable == {u \in U : Score(p, u) < OwnFeeRate(b)}
    IN  {RemoveAll(p, E) :
            E \in {F \in SUBSET beatable : Fits(RemoveAll(p, F), b)}}

\* Mutant of EvictionPass: items that score as high as the new one go, too.
ParPass(p, b, U) ==
    LET beatable == {u \in U : Score(p, u) <= OwnFeeRate(b)}
        MakesRoom(E) == Fits(RemoveAll(p, E), b)
    IN  {RemoveAll(p, E) : E \in LowestFirst(p, beatable, MakesRoom)}

\* One pass of evict_for over the candidates U: the pools it may leave.  Only
\* candidates that score below the new item's own rate are ever removed, one
\* by one and without their dependents.
EvictionPass(p, b, U) ==
    LET beatable == {u \in U : Score(p, u) < OwnFeeRate(b)}
        MakesRoom(E) == Fits(RemoveAll(p, E), b)
    IN  {RemoveAll(p, E) : E \in LowestFirst(p, beatable, MakesRoom)}

\* Mutant of EvictFor: expiry protection is ignored.
UnguardedEvictFor(p, b, height) == EvictionPass(p, b, Active(p))

\* evict_for: first the unprotected items; a protected newcomer that still
\* does not fit, and met no better item, goes on to the protected ones.  The
\* call succeeded iff b fits in the pool it leaves: what was removed before a
\* failure stays removed.
EvictFor(p, b, height) ==
    LET guarded(q) == {a \in Active(q) : IsProtected(a, height)}
        open(q) == Active(q) \ guarded(q)
        SecondPass(q) ==
            IF Fits(q, b) \/ open(q) # {} \/ ~IsProtected(b, height)
            THEN {q}
            ELSE EvictionPass(q, b, guarded(q))
    IN  IF VirtualCost[b] > MaxTotalCost
        THEN {p}
        ELSE UNION {SecondPass(q) : q \in EvictionPass(p, b, open(p))}

\* The capacity step of admission: evict_for is called only when b does not fit.
MakeRoom(p, b, height) == IF Fits(p, b) THEN {p} ELSE EvictFor(p, b, height)

-----------------------------------------------------------------------------
\* The bundles that are recorded as spending one of the coins.
Spenders(p, coins) == {p.coinIndex[c] : c \in coins \cap DOMAIN p.coinIndex}

\* Mutant of AfterBlock: only the spent coins are looked at, not the clock.
AfterSpends(p, coins, h, s) == Cascade(p, Spenders(p, coins))

\* What on_new_block() leaves of the pool: the recorded spenders of the coins
\* the block spent go first, then the expired items, both with dependents.
AfterBlock(p, coins, h, s) ==
    LET unspent == Cascade(p, Spenders(p, coins))
    IN  Cascade(unspent, {b \in Active(unspent) : IsExpired(b, h, s)})

-----------------------------------------------------------------------------
(* What restore() makes of saved items.                                      *)

\* The orders in which the items of S may come out of a saved map, and for
\* every coin of F the last of the items it is indexed for.
Orders(S) ==
    {rank \in [S -> 1..Cardinality(S)] :
        \A a, b \in S : a # b => rank[a] # rank[b]}
Latest(S, F, rank) ==
    [c \in UNION {F[b] : b \in S} |->
        CHOOSE b \in S : /\ c \in F[b]
                         /\ \A a \in S : c \in F[a] => rank[a] <= rank[b]]

\* Mutant of RefilledPool: the items are restored without their spent coins.
RefilledPoolUnindexed(items, rank) ==
    LET saved == DOMAIN items
    IN  [items |-> items,
         coinIndex |-> EmptyPool.coinIndex,
         mempoolCoins |-> Latest(saved, Additions, rank),
         dependents |-> [q \in UNION {items[b].depends_on : b \in saved} |->
                            {b \in saved : q \in items[b].depends_on}],
         totalCost |-> SatAdd(0, Total(VirtualCost, saved)),
         totalFees |-> SatAdd(0, Total(Fee, saved)),
         totalSpends |-> SatAdd(0, Total(NumSpends, saved))]

\* insert() of the saved items one by one into an empty pool.  Their packages,
\* depths and scores are as they were saved; no limit is looked at.
RefilledPool(items, rank) ==
    LET saved == DOMAIN items
    IN  [items |-> items,
         coinIndex |-> Latest(saved, Removals, rank),
         mempoolCoins |-> Latest(saved, Additions, rank),
         dependents |-> [q \in UNION {items[b].depends_on : b \in saved} |->
                            {b \in saved : q \in items[b].depends_on}],
         totalCost |-> SatAdd(0, Total(VirtualCost, saved)),
         totalFees |-> SatAdd(0, Total(Fee, saved)),
         totalSpends |-> SatAdd(0, Total(NumSpends, saved))]

-----------------------------------------------------------------------------
(* What every pool value the code builds is meant to satisfy.                *)

\* The accumulators are the sums they stand for.
Accounts(p) ==
    /\ p.totalCost = Total(VirtualCost, Active(p))
    /\ p.totalFees = Total(Fee, Active(p))
    /\ p.totalSpends = Total(NumSpends, Active(p))

\* The active items respect the configured limits.
WithinLimits(p) ==
    /\ Total(VirtualCost, Active(p)) <= MaxTotalCost
    /\ Total(NumSpends, Active(p)) <= MaxSpends

\* Every index entry leads to an active item it was made for.
Resolves(p) ==
    /\ \A c \in DOMAIN p.coinIndex :
        /\ p.coinIndex[c] \in Active(p)
        /\ c \in Removals[p.coinIndex[c]]
    /\ \A c \in DOMAIN p.mempoolCoins :
        /\ p.mempoolCoins[c] \in Active(p)
        /\ c \in Additions[p.mempoolCoins[c]]
    /\ \A q \in DOMAIN p.dependents : \A b \in p.dependents[q] :
        /\ b \in Active(p)
        /\ q \in p.items[b].depends_on

\* No score is below the item's own rate.
ScoresCoverOwn(p) == \A b \in Active(p) : Score(p, b) >= OwnFeeRate(b)

\* What q lacks of p was displaced for b: first the unprotected items, by their
\* scores in p, and for a protected b alone then protected ones, by their
\* scores once the others are gone.
DisplacedInOrder(p, q, b, height) ==
    LET open == {a \in Active(p) : ~IsProtected(a, height)}
        displaced == Active(p) \ Active(q)
        rest == RemoveAll(p, displaced \cap open)
        Standing(a) == Score(IF a \in open THEN p ELSE rest, a)
    IN  \A d \in displaced :
            /\ d \notin open => IsProtected(b, height)
            /\ Standing(d) < OwnFeeRate(b)
            /\ \A kept \in Active(p) \ displaced :
                kept \in open \/ d \notin open => Standing(d) <= Standing(kept)
=============================================================================
