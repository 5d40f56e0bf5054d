----------------------------- MODULE ActivePool -----------------------------
(* The active pool under the calls of one node: every method that changes it *)
(* (submit, remove, evict_lowest_percent, on_new_block, clear, restore),     *)
(* each run to its end under the pool's write lock, against a chain that     *)
(* confirms bundles of its own choice.                                       *)
EXTENDS Admission

CONSTANTS
    MaxHeight,      \* bound: the last block modelled
    MaxSeconds,     \* bound: the last timestamp modelled
    Percents,       \* the arguments evict_lowest_percent is called with
    Calls           \* which optional calls the node makes, out of CallKinds

\* remove(), evict_lowest_percent(), clear(), restore(), submit_with_policy(),
\* and submit() with the records get_mempool_coin_record() synthesizes for
\* unconfirmed coins.
CallKinds == {"remove", "evict", "clear", "restore", "policy", "synthetic"}

ASSUME Environment ==
    /\ MaxHeight \in Nat /\ MaxSeconds \in Nat
    /\ Percents \subseteq 1..100
    /\ Calls \subseteq CallKinds

VARIABLES
    pool,       \* Mempool::pool
    confirmed,  \* the chain: the bundles it holds ...
    height,     \* ... its height ...
    seconds,    \* ... and its timestamp
    result      \* what the last call returned

vars == <<pool, confirmed, height, seconds, result>>
chain == <<confirmed, height, seconds>>

Init ==
    /\ pool = EmptyPool
    /\ confirmed = {}
    /\ height = 0
    /\ seconds = 0
    /\ result = "none"

-----------------------------------------------------------------------------
\* The coin_records a caller may pass for b: those of its coins that are on
\* chain, and, as the documentation of submit() suggests for CPFP, those the
\* mempool itself would create.
CoinRecords(b) ==
    {Removals[b] \cap Unspent(confirmed)} \cup
    {Removals[b] \cap (Unspent(confirmed) \cup DOMAIN pool.mempoolCoins) :
        call \in Calls \cap {"synthetic"}}

\* The answer of a submit() that leaves the active pool alone: the bundle is
\* already there, validation knows no such coin, its timelocks cannot be met, a
\* deadline has passed, it is one for the pending pool (phase 2a, in module
\* SidePools), or phase 2b refuses it.
SubmitError(b, known) ==
    IF b \in Active(pool) THEN "AlreadySeen"
    ELSE IF MissingCoins(pool, b, known) # {} THEN "CoinNotFound"
    ELSE IF IsImpossible(b) THEN "ImpossibleTimelocks"
    ELSE IF IsExpired(b, height, seconds) THEN "Expired"
    ELSE IF IsTimelocked(b, height, seconds) THEN "Pending"
    ELSE AdmissionError(pool, b, known)

SubmitRefused(b) ==
    \E known \in CoinRecords(b) :
        /\ SubmitError(b, known) # "none"
        /\ result' = SubmitError(b, known)
        /\ UNCHANGED <<pool, chain>>

\* submit() gets past every check, evicts, and the bundle still does not fit.
SubmitFull(b) ==
    /\ result' = "MempoolFull"
    /\ \E known \in CoinRecords(b) : SubmitError(b, known) = "none"
    /\ \E prepared \in Prepared(pool, b, height) :
        /\ ~Fits(prepared, b)
        /\ pool' = prepared
    /\ UNCHANGED chain

\* submit_with_policy(): the caller's policy vetoes what would be inserted.
SubmitVetoed(b) ==
    /\ "policy" \in Calls
    /\ result' = "PolicyRejected"
    /\ \E known \in CoinRecords(b) : SubmitError(b, known) = "none"
    /\ \E prepared \in Prepared(pool, b, height) :
        /\ Fits(prepared, b)
        /\ pool' = prepared
    /\ UNCHANGED chain

SubmitAdmitted(b) ==
    /\ result' = "Success"
    /\ \E known \in CoinRecords(b) :
        /\ SubmitError(b, known) = "none"
        /\ \E prepared \in Prepared(pool, b, height) :
            /\ Fits(prepared, b)
            /\ pool' = Admitted(pool, prepared, b, known)
    /\ UNCHANGED chain

\* submit() or submit_with_policy() of b gets past every check.
Submits(b) == SubmitFull(b) \/ SubmitVetoed(b) \/ SubmitAdmitted(b)

-----------------------------------------------------------------------------
\* Mempool::remove(): one item, without its dependents.
Remove(b) ==
    /\ "remove" \in Calls
    /\ pool' = RemoveAll(pool, {b})
    /\ result' = IF b \in Active(pool) THEN "Removed" ELSE "NotFound"
    /\ UNCHANGED chain

\* The cost that evict_lowest_percent() is to free: the share is truncated.
Share(percent) == SatMul(pool.totalCost, percent) \div 100

\* Mutant of PercentVictims: what goes along with a victim is not counted.
PercentVictimsAlone(percent) ==
    LET FreesShare(E) == Total(VirtualCost, E) >= Share(percent)
        open == {b \in Active(pool) : ~IsProtected(b, height)}
    IN  IF Share(percent) = 0 THEN {{}} ELSE LowestFirst(pool, open, FreesShare)

\* evict_lowest_percent(): unprotected items in ascending score order, each
\* with its dependents, until the target share of the total cost is gone.
PercentVictims(percent) ==
    LET FreesShare(E) ==
            Total(VirtualCost, Descendants(pool, E) \cap Active(pool))
                >= Share(percent)
        open == {b \in Active(pool) : ~IsProtected(b, height)}
    IN  IF Share(percent) = 0 THEN {{}} ELSE LowestFirst(pool, open, FreesShare)

EvictLowestPercent(percent) ==
    /\ "evict" \in Calls
    /\ result' = "Evicted"
    /\ \E victims \in PercentVictims(percent) : pool' = Cascade(pool, victims)
    /\ UNCHANGED chain

NewBlock(K, s) ==
    /\ height < MaxHeight
    /\ s >= seconds
    /\ ValidBlock(confirmed, K, height + 1, s)
    /\ pool' = AfterBlock(pool, SpentBy(K), height + 1, s)
    /\ confirmed' = confirmed \cup K
    /\ height' = height + 1
    /\ seconds' = s
    /\ result' = "NewBlock"

\* clear().
Clear ==
    /\ "clear" \in Calls
    /\ pool' = EmptyPool
    /\ result' = "Cleared"
    /\ UNCHANGED chain

\* restore(snapshot()), with nothing in between.  (Module Restart lets time
\* pass between the two.)
Restore(rank) ==
    /\ "restore" \in Calls
    /\ result' = "Restored"
    /\ pool' = RefilledPool(pool.items, rank)
    /\ UNCHANGED chain

Next ==
    \/ \E b \in Bundles : SubmitRefused(b) \/ Submits(b) \/ Remove(b)
    \/ \E percent \in Percents : EvictLowestPercent(percent)
    \/ \E K \in SUBSET (Bundles \ confirmed), s \in 0..MaxSeconds : NewBlock(K, s)
    \/ Clear
    \/ \E rank \in Orders(Active(pool)) : Restore(rank)

Spec == Init /\ [][Next]_vars

-----------------------------------------------------------------------------
\* Type correctness of the pool, of the modelled chain and of the last answer.
Answers == {"none", "Success", "MempoolFull", "PolicyRejected", "Removed",
            "NotFound", "Evicted", "NewBlock", "Cleared", "Restored",
            "AlreadySeen", "CoinNotFound", "ImpossibleTimelocks", "Expired", "Pending",
            "TooManySpends", "DependencyTooDeep", "DependencyCycle",
            "RbfNotSuperset", "RbfFpcNotHigher", "RbfBumpTooLow"}

TypeOK ==
    /\ IsPool(pool)
    /\ confirmed \subseteq Bundles
    /\ height \in Nat
    /\ seconds \in Nat
    /\ result \in Answers

\* The accumulators that insert() and remove() update by saturating addition
\* and subtraction never drift from the sums they stand for, through any
\* sequence of replacements, evictions, cascades and blocks.
AccountingExact == Accounts(pool)

\* "total_cost <= max_total_cost after any operation", and the spend limit,
\* though admission tests the first one before and after evictions that use
\* the same accumulator, and the second one before them.
CapacityRespected == WithinLimits(pool)

\* Whatever an index leads to is an active item with the property it was
\* indexed for, so that the look-ups of conflict resolution, dependency
\* resolution and cascades, which skip or unwrap missing items, never do.
IndexesResolve == Resolves(pool)

\* The mempool never holds two bundles that spend the same coin, except spends
\* that the block builder merges because their solutions are identical.
NoDoubleSpend == Compatible(Active(pool))

\* After a block, and ever since, no active item spends a coin that the chain
\* has seen spent, and none is past its deadline.
NothingStale ==
    \A b \in Active(pool) :
        /\ Removals[b] \cap SpentBy(confirmed) = {}
        /\ ~IsExpired(b, height, seconds)

\* The defensive cycle check never fires: dependencies follow the creation of
\* coins, also when parents are evicted and come back.
CycleCheckIdle == result # "DependencyCycle"

-----------------------------------------------------------------------------
\* A block or a percentage eviction that removes an item removes every child
\* recorded for it in the same step, though two walks of the dependents graph
\* follow each other at a block and the first one changes that graph.
TakesChildrenAlong ==
    result' \in {"NewBlock", "Evicted"} =>
        \A q \in Active(pool) \ Active(pool') :
            Children(pool, q) \cap Active(pool') = {}
CascadeLeavesNoChild == [][TakesChildrenAlong]_vars

\* What a submission displaces for room, whether or not its bundle gets in,
\* once those it replaces are gone with everything below them, scores lower
\* than its own rate and no higher than what is left: "lowest descendant_score
\* first", among the unprotected items by the scores they had and, when none of
\* these is left, among the protected ones by the scores that these evictions
\* have left them.
DisplacesLowestFirst ==
    [][\A b \in Bundles : Submits(b) =>
        DisplacedInOrder(Cascade(pool, Conflicts(pool, b)), pool', b, height)]_vars

\* An item close to its deadline (POL-003) is never displaced for room by a
\* newcomer that is not close to its own, whatever becomes of the newcomer, and
\* a percentage eviction takes it only along with an unprotected item it
\* depends on.
ProtectedDisplacedByProtected ==
    [][\A d \in Active(pool) \ Active(pool') : IsProtected(d, height) =>
        \/ \E b \in Bundles :
            /\ Submits(b)
            /\ \/ IsProtected(b, height)
               \/ d \in Descendants(pool, Conflicts(pool, b))
        \/ /\ result' = "Evicted"
           /\ \E a \in Active(pool) \ Active(pool') :
                ~IsProtected(a, height) /\ d \in Descendants(pool, {a})
        \/ result' \in {"Removed", "NewBlock", "Cleared"}]_vars

\* A percentage eviction frees the share it was asked for unless only protected
\* items are left, however much of it cascades bring along, and stops there:
\* without one of the items it took, and those below that one, the share would
\* not have been free.  What it takes for its own sake scores no higher than
\* any unprotected item it leaves.
EvictionFreesShare ==
    [][\A percent \in Percents : EvictLowestPercent(percent) =>
        LET gone == Active(pool) \ Active(pool')
            open == {b \in Active(pool) : ~IsProtected(b, height)}
        IN  /\ \/ Total(VirtualCost, gone) >= Share(percent)
               \/ open \subseteq gone
            /\ gone = {} \/ \E last \in gone \cap open :
                Total(VirtualCost, gone \ Descendants(pool, {last})) < Share(percent)
            /\ \A d \in gone, kept \in open \ gone :
                \/ Score(pool, d) <= Score(pool, kept)
                \/ \E a \in gone \ {d} : d \in Descendants(pool, {a})]_vars

\* "If B depends on A, A present whenever B present."
ParentsPresent ==
    \A b \in Active(pool) : pool.items[b].depends_on \subseteq Active(pool)

\* "package_fee == sum(ancestor fees) + self fee", each ancestor once.
Ancestors(b) == Closure(Parents(pool, b), LAMBDA q : Parents(pool, q))
PackageFeesExact ==
    \A b \in Active(pool) :
        Ancestors(b) \subseteq Active(pool) =>
            pool.items[b].package_fee = Total(Fee, Ancestors(b) \cup {b})

\* "Descendant score: >= own FPC and >= any descendant's package FPC."
ScoresCoverDescendants ==
    \A b \in Active(pool) : \A a \in Ancestors(b) \cap Active(pool) :
        Score(pool, a) >= PackageFeeRate(pool.items[b])

=============================================================================
