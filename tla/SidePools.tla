----------------------------- MODULE SidePools -----------------------------
(* The structures beside the active pool, each behind a lock of its own: the *)
(* pending pool of timelocked bundles (pools/pending.rs and phase 2a of      *)
(* submit), the conflict cache (pools/conflict.rs) and the seen cache        *)
(* (pools/seen.rs).                                                          *)
(*                                                                           *)
(*   pending  : [items, coinIndex, cost], the items being a set, since a     *)
(*              pending item never changes                                   *)
(*   conflict : [cache, cost]                                                *)
(*   seen     : the ids in the order they came                               *)
EXTENDS Admission, Sequences, Functions

CONSTANTS
    MaxPendingCount,    \* config.max_pending_count
    MaxPendingCost,     \* config.max_pending_cost
    MaxConflictCount,   \* config.max_conflict_count
    MaxConflictCost,    \* config.max_conflict_cost
    MaxSeen             \* config.max_seen_cache_size

\* The configured limits are below the width of the accumulators.
ASSUME SideLimits ==
    /\ {MaxPendingCount, MaxPendingCost, MaxConflictCount, MaxConflictCost,
        MaxSeen} \subseteq Nat
    /\ MaxPendingCost < MaxU64 /\ MaxConflictCost < MaxU64

IsPending(p) ==
    /\ p.items \subseteq Bundles
    /\ IsPartialFunction(p.coinIndex, Coins, Bundles)
    /\ p.cost \in 0..MaxU64

IsConflictCache(x) == x.cache \subseteq Bundles /\ x.cost \in 0..MaxU64

EmptyPending == [items |-> {}, coinIndex |-> [c \in {} |-> {}], cost |-> 0]
EmptyConflict == [cache |-> {}, cost |-> 0]

-----------------------------------------------------------------------------
(* The pending pool.                                                         *)

PendingConflicts(p, b) ==
    {p.coinIndex[c] : c \in Removals[b] \cap DOMAIN p.coinIndex}

\* Mutant of PendingRemoved: the coin index keeps the removed bundles' coins.
PendingRemovedButIndexed(p, S) ==
    LET gone == S \cap p.items
    IN  [p EXCEPT !.items = @ \ gone,
                  !.cost = SatSub(@, Total(VirtualCost, gone))]

PendingRemoved(p, S) ==
    LET gone == S \cap p.items
    IN  [items |-> p.items \ gone,
         coinIndex |-> Without(p.coinIndex, SpentBy(gone)),
         cost |-> SatSub(p.cost, Total(VirtualCost, gone))]

\* Mutant of PendingInserted: the index leads from a coin to itself.
PendingMisindexed(p, b) ==
    [items |-> p.items \cup {b},
     coinIndex |-> [c \in DOMAIN p.coinIndex \cup Removals[b] |-> c],
     cost |-> SatAdd(p.cost, VirtualCost[b])]

PendingInserted(p, b) ==
    [items |-> p.items \cup {b},
     coinIndex |-> Assign(p.coinIndex, Removals[b], b),
     cost |-> SatAdd(p.cost, VirtualCost[b])]

PendingFits(p, b) ==
    /\ Cardinality(p.items) < MaxPendingCount
    /\ SatAdd(p.cost, VirtualCost[b]) <= MaxPendingCost

\* Mutant of Queued: the limits count what is about to be replaced.
QueuedBeside(p, b) ==
    LET cleared == PendingRemoved(p, PendingConflicts(p, b))
    IN  IF b \in p.items \/ RbfError(b, PendingConflicts(p, b)) # "none" THEN p
        ELSE IF PendingFits(p, b) THEN PendingInserted(cleared, b)
        ELSE cleared

\* Phase 2a under the pending lock.  The replacement rules are those of the
\* active pool; the limits are looked at once the losers are gone, so that a
\* bundle that is then turned away has evicted them for nothing.
Queued(p, b) ==
    LET cleared == PendingRemoved(p, PendingConflicts(p, b))
    IN  IF b \in p.items \/ RbfError(b, PendingConflicts(p, b)) # "none" THEN p
        ELSE IF PendingFits(cleared, b) THEN PendingInserted(cleared, b)
        ELSE cleared

\* Mutant of Mature: a bundle is drained one block too late.
MatureBefore(p, height, seconds) ==
    {b \in p.items : AssertHeight[b] < height /\ AssertSeconds[b] <= seconds}

\* The items that PendingPool::drain hands back.
Mature(p, height, seconds) ==
    {b \in p.items : ~IsTimelocked(b, height, seconds)}

-----------------------------------------------------------------------------
(* The conflict cache and the seen cache.                                    *)

\* Mutant of Cached: a bundle that is cached already is counted again.
CachedTwice(x, b) ==
    IF \/ Cardinality(x.cache) >= MaxConflictCount
       \/ SatAdd(x.cost, VirtualCost[b]) > MaxConflictCost
    THEN x
    ELSE [cache |-> x.cache \cup {b}, cost |-> SatAdd(x.cost, VirtualCost[b])]

\* ConflictCache::insert, with the virtual cost that submit() passes.
Cached(x, b) ==
    IF \/ b \in x.cache
       \/ Cardinality(x.cache) >= MaxConflictCount
       \/ SatAdd(x.cost, VirtualCost[b]) > MaxConflictCost
    THEN x
    ELSE [cache |-> x.cache \cup {b}, cost |-> SatAdd(x.cost, VirtualCost[b])]

\* The cached bundles none of whose coins is recorded as spent in the pool.
Retryable(x, p) ==
    {b \in x.cache : Removals[b] \cap DOMAIN p.coinIndex = {}}

Uncached(x, S) ==
    [cache |-> x.cache \ S,
     cost |-> SatSub(x.cost, Total(VirtualCost, S \cap x.cache))]

\* SeenCache::insert of an id that is not in it: the oldest ids give way, but a
\* size of 0 lets the cache grow without bound.
Seen(s, b) ==
    LET fits == IF MaxSeen > 0 /\ Len(s) >= MaxSeen
                THEN SubSeq(s, Len(s) - MaxSeen + 2, Len(s))
                ELSE s
    IN  Append(fits, b)
=============================================================================
