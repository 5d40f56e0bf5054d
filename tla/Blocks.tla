------------------------------ MODULE Blocks --------------------------------
(* What a block producer and a wallet read off the active pool: the blocks   *)
(* select_for_block() chooses and the fee estimate_min_fee() asks for, in    *)
(* every state the pool's own operations lead to.                            *)
EXTENDS ActivePool, SpendTables

CONSTANTS
    BlockCosts,         \* the max_block_cost that select_for_block is given
    FullMinFeeRate      \* config.full_mempool_min_fpc_scaled

ASSUME BlockData ==
    /\ BlockCosts \subseteq 0..MaxU64
    /\ FullMinFeeRate \in Nat

VARIABLE tables     \* the dedup, singleton and age tables of the pool

-----------------------------------------------------------------------------
\* What a call removes from the pool leaves the tables, and what it inserts
\* enters them after that; restore() inserts everything anew.
TablesFollow ==
    LET left == TablesWithoutAll(tables, Active(pool) \ Active(pool'))
        new == Active(pool') \ Active(pool)
    IN  /\ result' # "Restored"
        /\ \/ new = {} /\ tables' = left
           \/ \E b \in Bundles : new = {b} /\ tables' = TablesWith(left, b, height)

TablesRefilled ==
    \E rank \in Orders(Active(pool)) :
        /\ Restore(rank)
        /\ tables' = RefilledTables(tables.added, rank)

BlocksInit == Init /\ tables = NoTables
BlocksNext == (Next /\ TablesFollow) \/ TablesRefilled
BlocksSpec == BlocksInit /\ [][BlocksNext]_<<vars, tables>>

-----------------------------------------------------------------------------
(* selection/strategies.rs, selection/ordering.rs.                           *)

\* Keys are compared from the left.
Before(k, l) == \E i \in DOMAIN k : k[i] < l[i] /\ \A j \in 1..(i - 1) : k[j] = l[j]

\* Bundles in ascending order of their keys, and of their ids where those are
\* equal.
Rank(b) == CHOOSE i \in DOMAIN IdOrder : IdOrder[i] = b
Sorted(S, key) ==
    LET keys == {Append(key[b], Rank(b)) : b \in S}
        sorted == Ranked(keys, {p \in keys \X keys : Before(p[1], p[2])})
    IN  [n \in DOMAIN sorted |-> IdOrder[sorted[n][Len(sorted[n])]]]

Strategies == {"density", "whale", "compact", "age"}

\* sel_sort.
SortKey(strategy, b) ==
    LET rate == PackageFeeRate(pool.items[b])
        package == pool.items[b].package_fee
        added == tables.added[b]
    IN  CASE strategy = "density" -> <<-rate, -Fee[b], VirtualCost[b], added>>
          [] strategy = "whale" -> <<-package, -rate, VirtualCost[b], added>>
          [] strategy = "compact" -> <<-rate, VirtualCost[b], -Fee[b], added>>
          [] strategy = "age" -> <<added, -rate, -Fee[b]>>

\* SEL-002.
Candidates(h, s) ==
    {b \in Active(pool) : ~IsExpired(b, h, s) /\ ~IsTimelocked(b, h, s)}

\* sel_collect_ancestors: the walk does not go on above a selected item.
AncestorsLeft(b, taken) ==
    Closure(Parents(pool, b) \ taken, LAMBDA a : Parents(pool, a) \ taken)

\* The candidates behind b in the chain of its singleton.
SuccessorsLeft(b, candidates, taken) ==
    LET line == Line(tables.chains, Launcher[b])
    IN  {line[j] : j \in {n \in DOMAIN line :
            \E i \in 1..(n - 1) : line[i] = b}} \cap (candidates \ taken)

\* What a bundle and those it brings along add to a total.
Added(f, b, ancestors, successors) ==
    f[b] + Total(f, ancestors) + Total(f, successors)

\* Mutants of Addable: successors are free; the last unit of the budget is
\* never used.
AddableForFree(acc, b, ancestors, successors, candidates, budget) ==
    /\ b \notin acc.taken
    /\ ancestors \subseteq candidates
    /\ acc.cost + Added(VirtualCost, b, ancestors, {}) <= budget
    /\ acc.spends + Added(NumSpends, b, ancestors, {}) <= MaxSpends
    /\ SpentBy({b} \cup ancestors \cup successors) \cap SpentBy(acc.taken) = {}
AddableBelow(acc, b, ancestors, successors, candidates, budget) ==
    /\ b \notin acc.taken
    /\ ancestors \subseteq candidates
    /\ acc.cost + Added(VirtualCost, b, ancestors, successors) < budget
    /\ acc.spends + Added(NumSpends, b, ancestors, successors) <= MaxSpends
    /\ SpentBy({b} \cup ancestors \cup successors) \cap SpentBy(acc.taken) = {}

\* b can join the selection with all its ancestors and successors: they are
\* eligible, fit in what is left of the block, and spend no coin it spends.
Addable(acc, b, ancestors, successors, candidates, budget) ==
    /\ b \notin acc.taken
    /\ ancestors \subseteq candidates
    /\ acc.cost + Added(VirtualCost, b, ancestors, successors) <= budget
    /\ acc.spends + Added(NumSpends, b, ancestors, successors) <= MaxSpends
    /\ SpentBy({b} \cup ancestors \cup successors) \cap SpentBy(acc.taken) = {}

\* The selection before a pass, and what becomes of it at b.
NoSelection == [taken |-> {}, fees |-> 0, cost |-> 0, spends |-> 0]
Take(acc, b, candidates, budget) ==
    LET ancestors == AncestorsLeft(b, acc.taken)
        successors == SuccessorsLeft(b, candidates, acc.taken)
    IN  IF Addable(acc, b, ancestors, successors, candidates, budget)
        THEN [taken |-> acc.taken \cup {b} \cup ancestors \cup successors,
              fees |-> acc.fees + Added(Fee, b, ancestors, successors),
              cost |-> acc.cost + Added(VirtualCost, b, ancestors, successors),
              spends |-> acc.spends + Added(NumSpends, b, ancestors, successors)]
        ELSE acc

\* sel_greedy: one pass in the order of a strategy.  The totals count an item
\* twice that is both an ancestor and a successor.
Greedy(candidates, budget, strategy) ==
    LET order == Sorted(candidates, [b \in candidates |-> SortKey(strategy, b)])
        after[n \in 0..Len(order)] ==
            IF n = 0 THEN NoSelection
            ELSE Take(after[n - 1], order[n], candidates, budget)
    IN  after[Len(order)]

\* sel_007_best: a set takes the place of the best one before it by beating it.
Better(best, set) ==
    LET key(s) == <<-s.fees, s.cost, Cardinality(s.taken)>>
    IN  IF Before(key(set), key(best)) THEN set ELSE best

\* sel_compute_layer.
Layers(K) ==
    LET layer[b \in K] ==
            LET up == Parents(pool, b) \cap K
            IN  IF up = {} THEN 0 ELSE 1 + Highest({layer[a] : a \in up})
    IN  layer

\* Mutant of InOrder: by fee rate alone.
InRateOrder(K) == Sorted(K, [b \in K |-> <<-OwnFeeRate(b), tables.added[b]>>])

\* sel_008_topological_order.
InOrder(K) ==
    LET layer == Layers(K)
    IN  Sorted(K, [b \in K |-> <<layer[b], -OwnFeeRate(b), tables.added[b]>>])

SelectForBlock(budget, h, s) ==
    LET set == [strategy \in Strategies |->
                    Greedy(Candidates(h, s), budget, strategy)]
        best == Better(Better(Better(set["density"], set["whale"]),
                              set["compact"]), set["age"])
    IN  InOrder(best.taken)

\* What a producer asks for, which may be some blocks behind.
Block(budget, h) == SelectForBlock(budget, h, seconds)
Heights == 0..(height + 1)

-----------------------------------------------------------------------------
\* estimate_min_fee(), of what b costs: nothing below four fifths of the
\* capacity, a configured rate above, and one more than the lowest rate of the
\* active items when it is used up.
EstimateMinFee(b) ==
    IF VirtualCost[b] = 0 \/ MaxTotalCost = 0 \/ Active(pool) = {} THEN 0
    ELSE IF pool.totalCost * 10 < MaxTotalCost * 8 THEN 0
    ELSE LET lowest == Min({OwnFeeRate(a) : a \in Active(pool)})
             rate == IF pool.totalCost >= MaxTotalCost THEN lowest + 1
                     ELSE FullMinFeeRate
         IN  Min({(VirtualCost[b] * rate) \div FpcScale, MaxU64})

-----------------------------------------------------------------------------
\* The tables are those of the active items: every key of an item is borne by
\* one item that has it and waited for by all the others, once each, and a
\* launcher's chain holds its active spends, once each.  (Admission asks the
\* dedup table alone whether a spend is a duplicate: see HeldKeys.)
TablesFollowItems ==
    LET SpendsOf(l) == {b \in Active(pool) : Launcher[b] = l}
        Holders(k) == {b \in Active(pool) : k \in DedupKeys[b]}
        IsLine(ids, S) == Elements(ids) = S /\ Len(ids) = Cardinality(S)
    IN  /\ DOMAIN tables.bearer = HeldKeys(pool)
        /\ \A k \in HeldKeys(pool) :
            /\ tables.bearer[k] \in Holders(k)
            /\ IsLine(Line(tables.waiters, k), Holders(k) \ {tables.bearer[k]})
        /\ DOMAIN tables.waiters \subseteq HeldKeys(pool)
        /\ DOMAIN tables.chains = {Launcher[b] : b \in Active(pool)} \ {NoLauncher}
        /\ \A l \in DOMAIN tables.chains : IsLine(tables.chains[l], SpendsOf(l))
        /\ DOMAIN tables.added = Active(pool)

\* "The total virtual_cost of returned items MUST NOT exceed max_block_cost",
\* nor the spends the limit: also when the greedy totals are not the sums.
BlocksWithinBudget ==
    \A budget \in BlockCosts, h \in Heights :
        LET K == Elements(Block(budget, h))
        IN  /\ Total(VirtualCost, K) <= budget
            /\ Total(NumSpends, K) <= MaxSpends

\* b was selected because of a spend of the same singleton before it.
Follows(b, K) ==
    LET line == Line(tables.chains, Launcher[b])
    IN  \E i, j \in DOMAIN line : i < j /\ line[i] \in K /\ line[j] = b

\* A coin b spends is gone: what dedup may leave in the pool (module MCDedup).
Outdated(b) == Removals[b] \cap SpentBy(confirmed) # {}

\* "Parents MUST appear before children in the returned vector": before every
\* item of a block come its parents, all of them unless it was taken as the
\* successor of another spend of its singleton, and with them all the coins it
\* spends are there to be spent, unless its twin is on chain already.
BlocksStandAlone ==
    \A budget \in BlockCosts, h \in Heights :
        LET block == Block(budget, h)
            K == Elements(block)
        IN  \A j \in DOMAIN block :
                LET b == block[j]
                    before == {block[i] : i \in 1..(j - 1)}
                IN  /\ Parents(pool, b) \cap K \subseteq before
                    /\ Parents(pool, b) \subseteq before /\ ~Outdated(b) =>
                        Removals[b] \subseteq Unspent(confirmed) \cup CreatedBy(before)
                    /\ ~(Parents(pool, b) \subseteq before) => Follows(b, K)

\* "Singleton lineage: items for same launcher_id are in valid chain order": a
\* spend and its parents stand in their chain in the order of their lineage.
InLineage ==
    \A l \in DOMAIN tables.chains :
        LET line == tables.chains[l]
        IN  \A i, j \in DOMAIN line :
                i < j \/ line[i] \notin Ancestors(line[j])

\* A chain that is in the order of its lineage gets out of it in two ways only,
\* whatever comes, goes and waits: an item comes back whose child has stayed, or
\* the pool is restored in another order.
LineageLostByReturn ==
    [][result' # "Restored" /\ InLineage =>
        \/ InLineage'
        \/ \E b \in Active(pool') \ Active(pool), c \in Active(pool) :
            b \in Parents(pool, c)]_<<vars, tables>>

\* No item is left out for nothing: one that could go into the block with all
\* of its ancestors that are not in it, and is no singleton's spend, would
\* exceed a limit or spend a coin the block spends.
NothingLeftOut ==
    InLineage => \A budget \in BlockCosts, h \in Heights :
        LET candidates == Candidates(h, seconds)
            K == Elements(Block(budget, h))
        IN  \A b \in candidates \ K :
                LET more == (Ancestors(b) \ K) \cup {b}
                IN  Launcher[b] = NoLauncher /\ more \subseteq candidates =>
                    \/ Total(VirtualCost, K \cup more) > budget
                    \/ Total(NumSpends, K \cup more) > MaxSpends
                    \/ SpentBy(more) \cap SpentBy(K) # {}

\* "Round-trip: `restore(snapshot())` produces equivalent mempool state": the
\* same bundle bears the cost of an identical spend after it, and the chains
\* are in the same order.
RestoreKeepsTables ==
    [][result' = "Restored" =>
        /\ tables'.bearer = tables.bearer
        /\ tables'.chains = tables.chains]_<<vars, tables>>

\* The estimate is needed where it claims to be: when the pool is full nothing
\* gets in without a replacement for less, whatever is protected from eviction
\* and however low the scores of the items that are not.
EstimateIsNeeded ==
    [][result' = "Success" =>
        \A b \in Active(pool') \ Active(pool) :
            Conflicts(pool, b) = {} /\ pool.totalCost >= MaxTotalCost =>
                Fee[b] >= EstimateMinFee(b)]_<<vars, tables>>
=============================================================================
