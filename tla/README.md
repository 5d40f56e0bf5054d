# TLA+ models of dig-mempool

`dig-mempool` is a Rust library: a mempool of spend bundles for a coin-set
chain, with replacement by fee, unconfirmed parents (CPFP), timelocked bundles,
a retry cache and block candidate selection. It has no threads and no network of
its own. A node calls it from as many threads as it likes, and every method takes
`&self` and locks what it needs. These modules model what the calls do to
the mempool's state, how calls interleave between locks, and what holds of the
state whatever calls are made. Paths below are relative to the crate
(`src/mempool/submit.rs` is `src/src/mempool/submit.rs` of the repository).

## Inventory

| Part | Code | State | Operations |
|---|---|---|---|
| Active pool | `pools/active.rs` | `items`, `coin_index`, `mempool_coins`, `dependencies`, `dependents`, `dedup_index`, `dedup_waiters`, `singleton_spends`, three accumulators | `insert`, `remove`, `cascade_evict`, `evict_for`, the two score updates |
| Admission | `mempool/submit.rs` | none | `submit`, `submit_with_policy`, `submit_batch` |
| Pending pool | `pools/pending.rs` | timelocked items, coin index, cost | insertion by `submit`, `drain` |
| Conflict cache | `pools/conflict.rs` | losers of replacement, cost | insertion by `submit`, retries at a block, `drain` |
| Seen cache | `pools/seen.rs` | ids, first in first out | insertion by `submit`, `clear` |
| Lifecycle | `mempool/lifecycle.rs` | none | `on_new_block`, `clear`, `remove`, `evict_lowest_percent` |
| Selection | `mempool/selection.rs`, `selection/` | none (reads the active pool) | `select_for_block`, custom strategies |
| Fee estimation | `mempool/fee.rs`, `fee/tracker.rs` | buckets, window | `record_block`, estimates, state export and import |
| Persistence | `mempool/persistence.rs` | none | `snapshot`, `restore` |
| Queries | `mempool/query.rs`, `stats.rs` | none | look-ups, `drain_pending`, `drain_conflict` |
| Extension points | `traits.rs`, `mempool/mod.rs` | the list of hooks | event hooks, admission policies, strategies |
| External | `dig-clvm`, `chia` crates | BLS cache | `validate_spend_bundle` and the types |

How the parts interact: everything is a synchronous call inside `Mempool`.
`submit` reads the seen cache, the three pools and the active pool's coins under
short locks, validates without any lock (but for the BLS cache's), and then
changes the pending pool or the active pool (and, when replacement fails, the
conflict cache) under that pool's write lock. `on_new_block` clears the seen
cache, removes from the active pool, drains the pending pool and collects from
the conflict cache, each under a lock of its own, and hands the collected
bundles to its caller, who is to submit them again. Hooks are called back
synchronously, most of them after the locks are released.

What is hard here:

* four structures with four locks, and calls that look at one and act on another;
* callers that pass a height, a time and coin records they read some time ago;
* indexes and accumulators that are updated piecemeal along cascades, capacity
  evictions and replacements, of which the latter two remove different sets;
* calls that fail after they have removed something;
* scores and package fees that are cached in the items and go stale;
* snapshots read one structure after the other, and a restored pool that is as
  old as its snapshot;
* locks that nest, with writers that queue before readers, and hooks called
  under them;
* blocks assembled from overlapping packages under two budgets, out of a pool
  whose parents may be gone.

What makes the parts correct: the active pool's indexes lead to items that are
there; its accumulators are the sums of its items and below the limits; no coin is
spent twice; what a block spent or expired is gone; cascades leave no child
behind; evictions take the cheapest first. The pending pool and the conflict
cache have exact indexes and costs within limits; a bundle is in one place, and
what is handed back can return. A restored pool has exact indexes, and is clean after
the first block. A selected block keeps its budgets and has parents first. Locks
are taken in one order and no call waits for ever. `PROJECT.json` lists the hazards line by line
with the properties that cover them.

## Modules

* **Bundles**: a bundle is a name; what validation derives from its bytes
  (coins spent and created, fee, virtual cost, deadlines, dedup keys) is a
  constant function of that name, with assumptions for what the code can rely on:
  coin ids are hashes of their parents' ids, so creation is acyclic
  (`NoHashCycle`) and one spend creates a given coin (`CreatedByOneSpend`).
  Saturating and wrapping arithmetic, the timelocks, fee rates, sums (as cardinalities of sets, so that the
  provers can reason about them) and closures.
* **PoolIndex**: the `ActivePool` structure and its primitives as operators from
  a pool value to the pool values it may leave. Map iteration order and
  ties in sorts are the choice among those values. `RemoveAll` stands for a
  series of `remove` calls and `Cascade` for a series of walks; that their order makes
  no difference, to the recomputed scores of the parents either, is proved
  (`RemovalsCompose`, `CascadesCompose`). `RefilledPool` is what `restore` inserts, in
  any order.
* **Admission**: phase 2b of `submit`: parents, depth, cycle check, package fees,
  conflicts, replacement rules, eviction and insertion, in the code's order.
* **ActivePool**: the state machine of the active pool and the chain. Every call
  is one step, as it runs under the write lock. One action per outcome of
  `submit` (`SubmitRefused`, `SubmitFull`, `SubmitVetoed`, `SubmitAdmitted`), and
  `Remove`, `EvictLowestPercent`, `NewBlock`, `Clear`, and `Restore` of a snapshot just
  taken. The chain confirms any
  valid block, mined by anyone, of the modelled bundles. This is also the
  abstract specification that `Mempool` is shown to implement.
* **SidePools**: the pending pool, the conflict cache and the seen cache.
* **Mempool**: the whole mempool, with `submit` split at each lock it releases
  (`CheckSeen`, `CheckActive`, `CheckPending`, `CheckConflict`, `Validate`,
  then `Queue`, or one of `FindAdmitted`, `Refuse`, `GiveUp`, `Admit`) per
  calling thread, and the chain follower's `on_new_block` (`ForgetSeen`,
  `RemoveSpentAndExpired`, `Promote`, `CollectRetries`, `RecordBlock`) and `clear` split
  alike.
  A submission keeps the height, time and coin records of its start. The read
  check and the write check of the seen cache are one step: the second repeats
  the first under the lock that decides.
* **FeeTracker**: the fee estimator as operators on a tracker value. The counters,
  floating-point numbers that decay by a factor at each block, are exact
  fractions over a common unit. Bucket bounds are a constant, as `build_buckets`
  computes them from its configuration alone; it rounds them, so that more than about a
  hundred buckets have equal bounds among them, which the model allows. The binary search is
  there step by step, as a function on pairs of bounds. Bundles without cost are skipped
  (`Counted`), as `record_block` skips them.
* **Restart**: a node around `Mempool` and `FeeTracker`. `snapshot()` is four
  steps, one for each lock (`SaveActive`, `SavePending`, `SaveConflict`,
  `SaveFees`). `Restart` ends every thread where it is, refills the structures
  from the last snapshot that was written as `restore()` does, in any order of the
  saved maps, and leaves the follower about to tell the mempool, in one
  `on_new_block`, what the chain did since. Fees are recorded in the last
  step of `on_new_block` (`FinishBlock`), after the step that collects the retries.
* **SpendTables**: `dedup_index` and `dedup_waiters`, `singleton_spends` and
  `height_added`, and what `insert` and `remove` do to them. `PoolIndex` has the
  rest of these two methods. `RefilledTables` is what `restore` makes of them, item by item
  in the order of a map. Several removals go in the order of the ids, which is as
  good as any (`TableRemovalsCompose`).
* **Blocks**: `ActivePool` with these tables, which follow every one of its steps
  (`TablesFollow`, and `TablesRefilled` for a restore), and the readers of both: `SelectForBlock` with its four greedy
  passes, and `EstimateMinFee`. The id order in which ties end is a constant. The loops
  are recursive functions, so that the provers can reason about them.
* **Locks**: each method as the sequence of its critical sections, a section as
  one lock held throughout and the locks taken one after the other inside. Threads
  acquire, queue and release. `RwLock` is modelled as on Linux: readers wait for
  writers that queued before them, which is what makes nested reading
  dangerous. A panic that poisons a lock is not modelled.
* **MCActivePool**, **MCDedup**, **MCMempool**, **MCRestart**, **MCBlocks**,
  **MCLocks**: the instances TLC checks.
* **PoolIndexProofs**, **AdmissionProofs**, **ActivePoolProofs**, **MempoolProofs**,
  **RestartProofs**, **BlocksProofs**, **LocksProofs**: theorems, each over the module it
  is named after; the first also holds those about `Bundles`. **SequentialProofs**:
  theorems about `Restart` when calls wait for each other.

How they compose: `Bundles` is extended by `PoolIndex`, that by `Admission`, and
`Admission` by `ActivePool` on one side (which `Blocks` extends, with `SpendTables`)
and by `SidePools` and `Mempool` on the other (which `Restart` extends, with
`FeeTracker`). `Mempool` has `ActivePool` as an instance. `Locks` stands by itself: it
has the same calls without their data.

Definitions whose comment starts with "Mutant of" are plausible mistakes in the
definition below them. They are not part of the specifications; replacing the
definition by its mutant must make a property fail.

## Runs

Each is `tlc -config <cfg> <module>`.

| cfg | module | shows |
|---|---|---|
| MCActivePool | MCActivePool | eleven properties of the active pool under every call |
| MCRestart | MCRestart | calls one at a time, snapshots, restarts: between restarts `Mempool` implements `ActivePool`; a bundle is in one place; what is handed back can return; a restored pool is clean once it is told of a block (`NothingStaleOnceTold`); the fee window and estimates are right across restarts |
| MCThreads | MCMempool | two submitters and the follower (blocks, drains, `clear`), interleaved: each structure stays consistent; a block ends what stale heights put in two pools (`PromoteSeparates`); pending bundles give way only to one that outbids them, which is queued if there is room (`PendingGivesWay`) |
| MCBlocks | MCBlocks | dedup and singleton tables stay exact, through restores in any order too; the block selected in each state keeps its budgets, stands alone and leaves nothing out; the fee estimate for a full pool is needed; a chain gets out of order only by the return of a parent (`LineageLostByReturn`) |
| MCLocks | MCLocks | two threads that call anything: documented lock order, no deadlock, and every call returns |
| MCParentsPresent, MCPackageFees, MCScores | MCActivePool | three documented invariants that the code does not keep |
| MCDedup | MCDedup | `NothingStale` fails for identical spends |
| MCRoundTrip | MCBlocks | what the documents say of restored tables, and is not so |
| MCHandedBack, MCSynthetic | MCMempool | two documented promises that fail when calls overlap |

**Bounds.** The family of `MCActivePool` is the smallest one we found with a
parent, a child, a grandchild that spends from both, two replacement candidates
(a stranger to the family, and a descendant that replaces its own ancestor), a
pair of strangers neither of which may replace the other, height and time
deadlines, and room for three of them: every refusal but the
cycle, each eviction order, both passes of `evict_for`, cascades of depth two,
and re-admission after each of them occur. Two blocks suffice for "expires after
next"; a percentage of 50 frees one or several items. Numbers are small, and
`MaxU64` (1000) is out of reach, so that saturation is not exercised by TLC; the
theorems cover it. A restore may run at any time there, in any order of the
items; items that stayed behind without their parent get their edge to it back. `MCThreads` has a replaceable bundle, its replacement, which is
timelocked, a third that competes in the pending pool, a fourth that outbids the third there and fits
in no pool, so that it replaces and is then refused, and a seen cache of one id, so that
ids do fall out. Two threads are enough for the
races between a check and the action that relies on it, as each submission only
races with one change at a time; the theorems cover any number. `clear` runs
in parts beside submissions there, and in one go in `MCRestart`. A view leaves out of
the states of `MCThreads` what was handed back and resubmitted: a history that
only `HandedBackCanReturn` asks for and that no step depends on.

`MCRestart` has three bundles: a parent, a child with a deadline, and a
competitor of the child, which is timelocked first, loses to it, and displaces
its own parent when it comes first, as there is no room for both. One snapshot
before and one after a single restart, with two blocks, put the snapshot, the stop and
the blocks in every order: an item may be confirmed, expire, mature, be evicted or replaced
between being saved and being restored. A second restart meets no state of a
new kind; the theorems cover any number. The window of the estimator is 2, so that it rolls, with six
buckets, of which two and two have equal bounds, a bundle without cost, and a decay of 3/4
instead of 0.998, so that a counter does fall below 1. `MCBlocks` has a chain of three spends of a singleton, of which the
second has a deadline and the first makes a coin for one of three bundles that share an
identical spend and of which one is timelocked, a pool that is full with five units of
cost, block budgets of less than one package and of nearly the pool, and blocks asked for
at any height up to the next (`Heights`). Its view (`WithoutAnswer`) drops the answer of the
last call, which no guard reads and no property but of the step that gives it. `MCLocks` has two threads and four calls:
two calls that overlap can make any pair of lock requests meet, and two more
let one thread call again while the other's call is still going on. Three threads were
not needed for any mutant to fail; the two invariants are proved for any set.

Deadlock checking is on in every run but `MCLocks`, where the system really stops:
every thread has returned and no more calls are allowed. In the others `Submit`,
`SubmitRefused` or another call can always happen.

**Fairness.** Only `Locks` assumes any: weak fairness of every thread's steps
inside a call, which is what a scheduler gives. Nothing obliges a caller to call.
`EveryCallReturns` is claimed for a bounded number of calls, as neither
`std::sync::RwLock` nor this library promises that a waiting thread is not passed
over for ever by new ones. Elsewhere no liveness is claimed; calls may stop forever between
two locks, which is a superset of what threads do.

**Symmetry.** The two threads of `MCThreads` are interchangeable (no property of
that run names one; all are invariants or speak of single steps).

## What the runs found

Seven documented statements are not what the code does (`findings` in
`PROJECT.json` gives the lines):

1. *A present parent whenever the child is*: `evict_for` and `remove` take items
   out without their dependents. The child stays, and is spendable no more.
2. *Package fee is the sum over ancestors*: an ancestor reached through two
   direct parents counts twice.
3. *Descendant score covers every descendant*: it is recomputed from direct
   children only, and not upwards.
4. *Confirmed items are removed*: of two bundles with the same identical
   spend only the one `coin_index` names is.
5. *Handed-back bundles can be resubmitted*: not those submitted between the
   clearing of the seen cache and the return of `on_new_block`.
6. *A child whose parent was evicted in between is rejected with CoinNotFound*:
   not when its caller passed the synthetic record that the same comment offers.
7. *A round trip through a snapshot gives an equivalent state*: the items
   and the accumulators do come back, the tables do not.
   `restore` inserts in the order of a map, so that another bundle may bear the cost of an
   identical spend and a chain may come out in another order.

Met on the way, without a run of their own:

* *Items of one singleton are in valid chain order* (`SPEC.md:1730`): a chain is in order of
  arrival, and a parent that comes back stands behind its child. `LineageLostByReturn` says
  that this and a restore are the only ways. `NothingLeftOut` is claimed for chains
  in order (`InLineage`), as selection may leave out items that fit when they are not.
* *Ancestors are included with the child* (`SEL-003.md:62`): not those of the later spends
  of a singleton, which `sel_greedy` takes along by their place in the chain.
* *The re-check catches the second of two identical submissions* (`ADM-003.md:76`): each
  re-check looks at one pool, so that a bundle may be queued with an old height and admitted
  with a new one. `PromoteSeparates` says that the next block ends this. `InOnePlace`
  is therefore checked for calls made one at a time only.
* *When replacement succeeds the new pending item is admitted* (`POL-005.md:38`): the replaced
  ones are removed before the limits are tested, which may refuse it. `PendingGivesWay`
  says what is kept.
* *A snapshot holds the read locks of all pools* (`LCY-007.md:70`): it takes one after the
  other, and a bundle that moves in between is saved twice, or not at all. A torn snapshot
  restores to consistent pools, which is proved.
* As successors come along without their parents, a block may hold an item whose coin nobody creates.
  `BlocksStandAlone` says that this is the only way, but for items that spend a coin that is
  already spent (finding 4): it exempts these two kinds (`Follows`, `Outdated`), and without
  either exemption it is false.
* The package fees and costs of the parents are added with a plain `sum()`: beyond `u64` a
  debug build panics and a release build wraps. The model wraps (`Wrapped`).
* A submission with the height of an old block may be admitted after its deadline, or
  queued after its time has come. `NothingStale` is about callers that know the current block.
* `POL-009.md` has removals from a chain cascade; `ActivePool::remove` does not.
* Of the bundles with an identical spend selection takes one at most, because
  each lists the coin among its removals, so that the cost they would save is
  never saved; nothing reads `cost_saving` or `effective_virtual_cost`.
* `max_spends_per_block` bounds the pool as well as a block, so that it never
  binds in selection: the whole pool is within it.
* `LCY-005.md` and `traits.rs` have hooks run under the write lock; all but
  `on_conflict_cached` are fired after it is released. Replacement, capacity eviction
  and `remove` fire none.
* All four horizons of the fee estimator count the same, so that an estimate does not
  depend on its target, and a bucket that was observed was always confirmed.

## Proofs

All proofs are checked by TLAPS from the assumptions in `Bundles`, `PoolIndex`,
`Admission`, `ActivePool`, `SidePools`, `Mempool`, `FeeTracker`, `Restart`, `SpendTables`,
`Blocks` and `Locks`, which TLC evaluates on the instances. The assumptions on configuration say that limits are below the width
of the accumulators, and `FeesFit` that all fees together are.

**The active pool** (`ActivePoolProofs`): for every set of bundles, configuration
and history, `TypeOK`, `AccountingExact`, `CapacityRespected`, `IndexesResolve`,
`CycleCheckIdle` and `CascadeLeavesNoChild`; and, under `NoDedup` (no bundle has
a dedup key), `NoDoubleSpend` and `NothingStale`, which finding 4 shows to need it.
The inductive invariant is `IInv`: `PoolInv` (type, exact accounts, limits,
resolving indexes) strengthened by

* `LinksFollowCoins`: recorded parents created coins that the child spends.
  Together with `NoHashCycle` it makes recorded parents rank below their
  children, so that the walk of the cycle check never comes back. It holds for orphans,
  too, which is why the check stays idle although parents come and go;
* `Indexed`, without deduplication: the coin index is complete. Conflict
  detection finds conflicts through the index, so without completeness the
  absence of double spends would not be inductive, nor that of stale items.

`PoolIndexProofs` shows that removal of *any* set of bundles keeps `PoolInv` and
`Indexed`, which covers every caller, with and without cascade, and that
insertion does when the item fits and its coins are free. `AdmissionProofs`
adds that what admission decides before eviction is still true after it. For
`NothingStale` the argument is that a coin an active bundle creates cannot have
been spent on chain: its other creator would have spent a coin of the bundle.

Four theorems are about what gives way to what, from the same invariant:

* `DisplacementTheorem` (`DisplacesLowestFirst`): whatever is displaced for room has the
  lowest score of those that may be, and one below the newcomer's rate. Unprotected
  items are compared by their scores once the replaced ones are gone, protected ones
  by their scores once the unprotected displaced ones are gone too: these may be their
  children, and with the earlier scores the statement is false.
* `ProtectionTheorem` (`ProtectedDisplacedByProtected`), also of submissions that fail.
* `ScoreFloorTheorem`: no score falls below the item's own rate, which is the half
  of finding 3's statement that holds. What is claimed of the fee estimate rests on it.
* `EvictionTheorem` (`EvictionFreesShare`): `evict_lowest_percent` frees its share of the
  cost, or everything unprotected, stops with the victim that makes it up, and takes no item
  for its own sake that scores above one it leaves; its cascades may overshoot.

`RemovalsCompose` and `CascadesCompose` are about the modelling as much as about
the code: `remove` in a loop recomputes the parents' scores at each round, and each
`cascade_evict` of a loop walks the graph that the last one left. For every pool that satisfies
`PoolInv`, the loop leaves what the one step leaves that the model takes for it.

**The mempool** (`MempoolProofs`): for any number of threads and every
interleaving, `TypeOK`, `PendingConsistent`, `ConflictConsistent` and (under
`NoDedup`) `ActiveConsistent`. The argument: the structures' invariants do not
depend on each other, and the lemmas about admission hold for *any* coin records,
height and time, so that the age of what a caller knows does not matter to them. Two more
theorems are about steps, for any number of threads as well:

* `GivesWayTheorem` (`PendingGivesWay`), from the exact index of the pending pool alone.
* `SeparatesTheorem` (`PromoteSeparates`), by the invariant `TimelocksMet`: what is
  active, or about to be admitted, has met its timelocks at the height and time of the
  chain, as what a caller knows is never ahead of it and chains only grow. So a bundle
  that is pending too is among those the block takes out.

**The node** (`RestartProofs`): the same four for any number of snapshots and
restarts, with snapshots taken beside any calls. The inductive invariant adds that each part of a snapshot, on the disk
or in progress, is by itself a state the structure can be in. As the structures'
invariants do not depend on each other, a torn snapshot still restores to a consistent
mempool. That the refilled structures satisfy the invariants without a look at the limits
follows from their being the saved ones: by `Indexed` the active pool's index has one
item per coin, so that the order of insertion makes no difference.

Two more theorems of these modules: `InOnePlace`, when calls wait for each other
(`~Concurrent`), for the mempool alone and for the node; and `WindowHoldsLatest`
without a condition. For the first the invariant is `OneAtATime`: while a call is in
progress no other is, and each step of `submit()` has established that its bundle is
not in the places it has looked at; `SavedApart` says the same of a snapshot's parts.
With overlapping calls the property is false: when a block forgets the first of two
submissions of one bundle, one may be refused and cached for a retry and the other
admitted, once the bundles it conflicted with are gone. For the second the invariant, `WindowInv`,
adds that the saved estimator and a running one each belong to their own history.

**One call at a time** (`SequentialProofs`): what a reader of the crate's documentation
expects of it, proved for every node whose calls wait for each other.

* `NodeRefinesActivePool`: `NodeSpec => ActivePoolBetweenRestarts`. Submissions,
  blocks, snapshots and restarts, lock by lock, implement the single steps of
  `ActivePool`, so that what is shown of its steps holds of the node's calls.
  `Admit`, `Refuse` and `GiveUp` are the three outcomes of a submission and
  `RemoveSpentAndExpired` is the block; all else leaves the abstract state alone. The
  invariant behind it is `InView`: a submission under way still sees the chain, the coins and
  the answers of its validation as they are, and the block being told of follows the
  one the pool was told of last. The lemmas called `Same...` identify the operators of the
  instance with those of the modules it is composed from.
* `NodeNothingStaleTheorem`, under `NoDedup`: the invariant `FreshInv` says how far the
  pool, the snapshot on disk and the one in progress may be behind the chain: by what the
  call in progress will clean up, and by what was confirmed since the snapshot was
  begun. What is admitted spends coins that are unspent on chain, or that an active bundle
  creates, which cannot have been spent (`CreatedUnspent`).
* `NodeHandedBackTheorem`, for callers that do not drain: the seen cache is empty
  whenever a block hands bundles back (`Forgotten`). The drains forget nothing: what
  `drain_conflict` hands back is turned away until the next block.

**The fee estimator** (`RestartProofs`): `BracketTheorem` (`EstimateBracketed`), for
any buckets in order, of equal bounds too, any window, decay and number of restarts: an
estimate is no less than any bucket that a bundle of the latest block reaches, and no more
than the best rate recorded, of the bundles that have a cost. It rests on
`CountInv`, for the estimator that runs and the saved one: a bundle is confirmed at
every horizon as soon as it is observed; a counter that is positive has a recorded
bundle in its bucket, as decay never makes a zero positive; and those of the latest block count
at least a unit each, as they decay only from the next block on. The binary search
of `find_bucket` is shown to end at a bucket that no other starting at or below the rate is
above (`FindBucketIsBest`), by induction on the width of what it has narrowed down to.

**Tables and blocks** (`BlocksProofs`): what `Blocks` claims, for every pool that any history
leads to, any budget and any configuration.

* `TablesTheorem` (`TablesFollowItems`): the inductive invariant is `IInv` with
  `TablesOf`, which says of each line that it has every member of a set once.
  `retain` keeps a line a line (`Ranked` lists a finite set in the order of a
  strict total order), and removals one after the other keep the tables those of the
  bundles that are left. `TableRemovalsCompose`: whichever of several goes last, the
  tables are the same, and a restore in any order keeps the invariant. Who bears a key and who waits are one line, headed by the bearer;
  a member may leave before or after another, as numbers can be listed upwards in one way only
  (`OneUpwardList`).
* `EstimateTheorem` (`EstimateIsNeeded`): in a full pool a newcomer that replaces nothing
  and has a cost displaces somebody whose score it beats, and by the invariant of
  `ScoreFloorTheorem` that item's own rate too.
* `BudgetTheorem` (`BlocksWithinBudget`): the totals of a greedy pass are never below
  the sums over the items taken. An item that is an ancestor and a successor counts
  twice, which only wastes room.
* `StandAloneTheorem` (`BlocksStandAlone`), for callers that pass records of coins on chain only
  (`"synthetic" \notin Calls`, as in the run). Each step of a pass leaves a selection
  in which an item has its parents with it or follows one in its chain; layers put parents
  first, as recorded parents form no cycle; `Grounded`, an invariant of such
  callers, says that a coin that is not on chain is created by a recorded parent. Finding 6
  shows what a synthetic record does to that. It leaves open whether the coins of the two
  exempted kinds of items are there.
* `SpendableTheorem`: where no bundle is a singleton's and none has a dedup key, with such
  callers, no exemption is needed: a block holds the active parents of all its items
  (`BlocksHoldAncestors`), and each coin that is spent is on chain or created before
  (`BlocksSpendable`).
* `LeftOutTheorem` (`NothingLeftOut`): what a pass refuses it would refuse at its end, as
  totals and spent coins only grow, and where chains are in lineage order the totals
  are exact. It speaks of an item with all of its ancestors that are not in the block: the
  direct parents are not enough, as one may be in the block without its own parents.
* `LineageTheorem` (`LineageLostByReturn`): no call but a restore changes the parents of an
  item that stays (`ParentsStay`), removals keep a chain's order (`ChainsWithoutSet`), an
  arrival stands last, and ancestors become fewer but for what comes back
  (`AncestorsStay`).

Recursive functions (`Greedy`, `Layers`, `TablesWithoutAll`, `find_bucket`) are defined by
`CHOOSE`; that a function with the recursion's property exists is proved for each,
by the least step at which there would be none (`LeastNatural`) in place of the
library's induction, which the provers cannot instantiate.

**The locks** (`LocksProofs`): `LocksInOrder` and `NoDeadlock` for any set of threads,
finite or not, and any number of calls. The inductive invariant `LockInv` ties what a thread holds to its
place in its call; every section of every path goes down the order. If no
call could go on, take one that waits for a lock as far down as any: a writer it queues
behind waits for the same lock, so somebody holds it, and waits for one further down.

**Only model-checked**: `EveryCallReturns`, because liveness and ENABLED are out of the prover's
reach, and the seven counterexamples. Every other property of a passing run is a theorem; some have a hypothesis, which
is stated with the theorem above (`NoDedup`, calls that wait for each other, no drains,
no synthetic records), and the runs check them within it.

## Not modelled, and why

* CLVM validation, signatures, fee and cost computation: external crates; their
  results are constants of a bundle.
* Relative timelocks: `assert_height` and the like are constants; the code
  resolves relative ones against the records passed with each call.
* `cost_saving` and `effective_virtual_cost` of an item, which nothing reads.
* A block selection strategy of the caller's own, and what hooks do: users' code.
* `restore` into a mempool that is in use, but for the active pool: its locks are in
  `Locks`, and `ActivePool` and `Blocks` restore the items that are there. `Restart` calls it
  before anything else, as a node does, and has no dedup and singleton tables: what they
  become is in `Blocks`.
* `snapshot_fee_state` and `restore_fee_state`: the same copies as in a snapshot.
* Panics, hence poisoned locks; `force_insert`, which is for tests.
* `dependencies` of the active pool: always equal to the items' `depends_on`.
* Submission of a bundle under a name whose records lie about the chain: callers
  pass what they read from it, or what the mempool synthesized.

## Plan

Done: `Bundles`, `PoolIndex`, `Admission`, `ActivePool`, `SidePools`, `Mempool`, `FeeTracker`,
`Restart`, `SpendTables`, `Blocks` and `Locks`, the refinement, and a theorem for every
invariant and action property of the passing runs.

Left, in this order:

1. **Timelocks**: resolution of relative timelocks against the records of each call.
2. **PoolWalk**: the recursive walks (cascade, score raising, cycle check) step
   by step, against the closures used here.
