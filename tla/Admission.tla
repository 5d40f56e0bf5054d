----------------------------- MODULE Admission -----------------------------
(* What submit() decides under the active pool's write lock (phase 2b of     *)
(* mempool/submit.rs) and what it leaves in the pool.                        *)
(*                                                                           *)
(* `known' is the set of coins for which the caller passed a coin record.    *)
EXTENDS PoolIndex

CONSTANTS
    MaxDependencyDepth, \* config.max_dependency_depth
    MinRbfFeeBump       \* config.min_rbf_fee_bump

ASSUME AdmissionLimits ==
    /\ MaxDependencyDepth \in Nat
    /\ MinRbfFeeBump \in 0..MaxU64

-----------------------------------------------------------------------------
\* CPF-002: a spent coin with a record is on chain; any other must have been
\* created by an active bundle, which becomes a parent.
CreatedInPool(p, b, known) == (Removals[b] \ known) \cap DOMAIN p.mempoolCoins
MissingCoins(p, b, known) == Removals[b] \ (known \cup DOMAIN p.mempoolCoins)
DependsOn(p, b, known) ==
    {p.mempoolCoins[c] : c \in CreatedInPool(p, b, known)}

Depth(p, deps) ==
    IF deps = {} THEN 0
    ELSE 1 + Highest({p.items[q].depth : q \in deps \cap Active(p)})

\* Mutant of ClosesCycle: the walk starts at the bundle itself.
ClosesCycleFromSelf(p, b, deps) ==
    b \in Closure(deps \cup {b}, LAMBDA q : Parents(p, q))

\* CPF-004: the walk up from the parents comes back to the bundle.
ClosesCycle(p, b, deps) == b \in Closure(deps, LAMBDA q : Parents(p, q))

\* CPF-005: own fee and cost plus the packages of the direct parents, which
\* are summed up without a check before they are added with one.
PackageFee(p, b, deps) ==
    LET packages == [q \in deps \cap Active(p) |-> p.items[q].package_fee]
    IN  SatAdd(Fee[b], Wrapped(Total(packages, DOMAIN packages)))

PackageVirtualCost(p, b, deps) ==
    LET packages == [q \in deps \cap Active(p) |->
                        p.items[q].package_virtual_cost]
    IN  SatAdd(VirtualCost[b], Wrapped(Total(packages, DOMAIN packages)))

NewItem(p, b, known) ==
    LET deps == DependsOn(p, b, known)
    IN  [depends_on |-> deps,
         depth |-> Depth(p, deps),
         package_fee |-> PackageFee(p, b, deps),
         package_virtual_cost |-> PackageVirtualCost(p, b, deps),
         descendant_score |-> OwnFeeRate(b)]

-----------------------------------------------------------------------------
\* CFR-001: the active bundles recorded as spending b's coins, leaving aside
\* the coins whose spend by b is already borne by an active bundle: for those
\* b is a dedup waiter.
Waits(p, b, c) == \E k \in DedupKeys[b] \cap HeldKeys(p) : k[1] = c
Conflicts(p, b) ==
    {p.coinIndex[c] : c \in {x \in Removals[b] \cap DOMAIN p.coinIndex :
                                ~Waits(p, b, x)}}

\* CFR-002, 003 and 004: the first replacement rule that b fails against the
\* conflicting bundles K, which are counted without their dependents.
RbfError(b, K) ==
    IF K = {} THEN "none"
    ELSE IF ~(SpentBy(K) \subseteq Removals[b]) THEN "RbfNotSuperset"
    ELSE IF OwnFeeRate(b) <= FeePerCost(Total(Fee, K), Total(VirtualCost, K))
         THEN "RbfFpcNotHigher"
    ELSE IF Fee[b] < SatAdd(Total(Fee, K), MinRbfFeeBump)
         THEN "RbfBumpTooLow"
    ELSE "none"

RbfErrors == {"RbfNotSuperset", "RbfFpcNotHigher", "RbfBumpTooLow"}

\* The errors phase 2b returns before it changes anything, in the order it
\* looks for them.
AdmissionError(p, b, known) ==
    LET deps == DependsOn(p, b, known)
    IN  IF SatAdd(p.totalSpends, NumSpends[b]) > MaxSpends THEN "TooManySpends"
        ELSE IF MissingCoins(p, b, known) # {} THEN "CoinNotFound"
        ELSE IF Depth(p, deps) > MaxDependencyDepth THEN "DependencyTooDeep"
        ELSE IF ClosesCycle(p, b, deps) THEN "DependencyCycle"
        ELSE RbfError(b, Conflicts(p, b))

\* Mutant of Prepared: the replaced items are left in the pool.
PreparedBeside(p, b, height) == MakeRoom(p, b, height)

\* The pools in which an acceptable b is about to be inserted or is found not
\* to fit: the conflicting bundles are gone with their dependents, and
\* capacity eviction has run.
Prepared(p, b, height) == MakeRoom(Cascade(p, Conflicts(p, b)), b, height)

\* Insertion: the item was built against p, before anything was evicted.
Admitted(p, prepared, b, known) ==
    RaiseScores(Insert(prepared, b, NewItem(p, b, known)), b)
=============================================================================
