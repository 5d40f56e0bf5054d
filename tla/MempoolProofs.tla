--------------------------- MODULE MempoolProofs ---------------------------
(* Theorems about Mempool: whatever the number of threads and however their  *)
(* calls interleave, and however old what a caller knows of the chain is,    *)
(* each of the structures stays consistent.                                  *)
EXTENDS Mempool, AdmissionProofs

-----------------------------------------------------------------------------
(* The side pools, whatever is put in and taken out.                         *)

\* What PendingConsistent says, of any pending pool.
PendingInv(p) ==
    /\ p.items \subseteq Bundles
    /\ p.coinIndex = [c \in DOMAIN p.coinIndex |-> p.coinIndex[c]]
    /\ DOMAIN p.coinIndex = SpentBy(p.items)
    /\ \A b \in p.items : \A c \in Removals[b] : p.coinIndex[c] = b
    /\ p.cost = Total(VirtualCost, p.items)
    /\ p.cost <= MaxPendingCost
    /\ Cardinality(p.items) <= MaxPendingCount

\* What ConflictConsistent says, of any conflict cache.
ConflictInv(x) ==
    /\ x.cache \subseteq Bundles
    /\ x.cost = Total(VirtualCost, x.cache)
    /\ x.cost <= MaxConflictCost
    /\ Cardinality(x.cache) <= MaxConflictCount

\* Sets of bundles are finite, and cost what the prover can count with.
LEMMA BundleSets ==
    ASSUME NEW S \in SUBSET Bundles
    PROVE  /\ IsFiniteSet(S) /\ Cardinality(S) \in Nat
           /\ Total(VirtualCost, S) \in Nat
           /\ \A b \in S : VirtualCost[b] \in Nat
<1>1. IsFiniteSet(S) /\ \A b \in S : VirtualCost[b] \in Nat
    BY BundlesFinite, FS_Subset, DataTypes
<1> QED BY <1>1, TotalNat, FS_CardinalityType

\* The limits of the side pools are naturals.
LEMMA Limits ==
    /\ MaxU64 \in Nat /\ MaxPendingCount \in Nat /\ MaxPendingCost \in Nat
    /\ MaxConflictCount \in Nat /\ MaxConflictCost \in Nat
    /\ MaxPendingCost < MaxU64 /\ MaxConflictCost < MaxU64
BY BundleData, SideLimits

\* The cost of an item that fits a limit is added without clamping.
LEMMA CostAdded ==
    ASSUME NEW S \in SUBSET Bundles, NEW b \in Bundles, b \notin S,
           NEW limit \in Nat, limit < MaxU64,
           SatAdd(Total(VirtualCost, S), VirtualCost[b]) <= limit
    PROVE  SatAdd(Total(VirtualCost, S), VirtualCost[b])
                = Total(VirtualCost, S \cup {b})
<1>1. /\ IsFiniteSet(S) /\ Total(VirtualCost, S) \in Nat
      /\ \A x \in S \cup {b} : VirtualCost[x] \in Nat
    BY BundleSets, DataTypes
<1>2. Total(VirtualCost, S \cup {b}) = Total(VirtualCost, S) + VirtualCost[b]
    BY <1>1, TotalAdd
<1> HIDE DEF Total
<1> QED BY <1>1, <1>2, Limits DEF SatAdd

\* What is removed is accounted for.
LEMMA CostRemoved ==
    ASSUME NEW S \in SUBSET Bundles, NEW G \in SUBSET S
    PROVE  /\ SatSub(Total(VirtualCost, S), Total(VirtualCost, G))
                = Total(VirtualCost, S \ G)
           /\ Total(VirtualCost, S \ G) <= Total(VirtualCost, S)
           /\ Cardinality(S \ G) <= Cardinality(S)
<1>1. /\ IsFiniteSet(S) /\ \A b \in S : VirtualCost[b] \in Nat
      /\ Total(VirtualCost, S) \in Nat /\ Total(VirtualCost, G) \in Nat
    BY BundleSets
<1>2. /\ Total(VirtualCost, G) <= Total(VirtualCost, S)
      /\ Total(VirtualCost, S \ G) = Total(VirtualCost, S) - Total(VirtualCost, G)
    BY <1>1, TotalRemove
<1>3. Cardinality(S \ G) <= Cardinality(S)
    BY <1>1, FS_Subset
<1> HIDE DEF Total
<1> QED BY <1>1, <1>2, <1>3 DEF SatSub

\* Removals, by a replacement, a promotion or a drain.
LEMMA PendingRemovedKeeps ==
    ASSUME NEW p, PendingInv(p), NEW S
    PROVE  PendingInv(PendingRemoved(p, S))
<1> DEFINE gone == S \cap p.items
           q == PendingRemoved(p, S)
<1>1. /\ q.items = p.items \ gone
      /\ q.coinIndex = [c \in DOMAIN p.coinIndex \ SpentBy(gone) |-> p.coinIndex[c]]
      /\ q.cost = SatSub(p.cost, Total(VirtualCost, gone))
    BY DEF PendingRemoved, Without
<1>2. gone \subseteq p.items /\ p.items \subseteq Bundles
    BY DEF PendingInv
<1> HIDE DEF q
<1>3. \A b \in q.items : Removals[b] \cap SpentBy(gone) = {}
    BY <1>1, <1>2 DEF PendingInv, SpentBy
<1>4. DOMAIN q.coinIndex = SpentBy(q.items)
    BY <1>1, <1>3 DEF PendingInv, SpentBy
<1>5. \A b \in q.items : \A c \in Removals[b] : q.coinIndex[c] = b
    BY <1>1, <1>3 DEF PendingInv, SpentBy
<1>6. /\ q.cost = Total(VirtualCost, q.items)
      /\ q.cost <= MaxPendingCost
      /\ Cardinality(q.items) <= MaxPendingCount
    <2>1. /\ q.cost = Total(VirtualCost, p.items \ gone)
          /\ Total(VirtualCost, p.items \ gone) <= Total(VirtualCost, p.items)
          /\ Cardinality(p.items \ gone) <= Cardinality(p.items)
        BY <1>1, <1>2, CostRemoved DEF PendingInv
    <2>2. /\ Total(VirtualCost, p.items \ gone) \in Nat
          /\ Total(VirtualCost, p.items) \in Nat
          /\ Cardinality(p.items \ gone) \in Nat /\ Cardinality(p.items) \in Nat
        BY <1>2, BundleSets
    <2> HIDE DEF Total, gone
    <2> QED BY <1>1, <2>1, <2>2, Limits DEF PendingInv
<1> QED BY <1>1, <1>2, <1>4, <1>5, <1>6 DEF PendingInv, q

\* A queued submission, whether it replaces, is refused or is turned away.
LEMMA QueuedKeeps ==
    ASSUME NEW p, PendingInv(p), NEW b \in Bundles
    PROVE  PendingInv(Queued(p, b))
<1> DEFINE K == PendingConflicts(p, b)
           r == PendingRemoved(p, K)
           q == PendingInserted(r, b)
<1>1. PendingInv(r)
    BY PendingRemovedKeeps
<1>2. ASSUME b \notin p.items, PendingFits(r, b) PROVE PendingInv(q)
    <2>1. r.items \subseteq p.items /\ b \notin r.items /\ r.items \subseteq Bundles
        BY <1>1, <1>2 DEF PendingRemoved, PendingInv
    <2>2. Removals[b] \cap DOMAIN r.coinIndex = {}
        <3> SUFFICES ASSUME NEW c \in Removals[b], c \in DOMAIN r.coinIndex PROVE FALSE
            OBVIOUS
        <3>1. c \in DOMAIN p.coinIndex /\ c \notin SpentBy(K \cap p.items)
            BY DEF PendingRemoved, Without
        <3>2. PICK a \in p.items : c \in Removals[a] /\ p.coinIndex[c] = a
            BY <3>1 DEF PendingInv, SpentBy
        <3> QED BY <3>1, <3>2 DEF PendingConflicts, SpentBy
    <2> HIDE DEF r
    <2>3. /\ q.items = r.items \cup {b}
          /\ DOMAIN q.coinIndex = DOMAIN r.coinIndex \cup Removals[b]
          /\ q.coinIndex = [c \in DOMAIN q.coinIndex |-> q.coinIndex[c]]
          /\ \A c \in DOMAIN q.coinIndex :
                q.coinIndex[c] = IF c \in Removals[b] THEN b ELSE r.coinIndex[c]
          /\ q.cost = SatAdd(r.cost, VirtualCost[b])
        BY DEF PendingInserted, Assign
    <2> HIDE DEF q
    <2>4. DOMAIN q.coinIndex = SpentBy(q.items)
        BY <1>1, <2>3 DEF PendingInv, SpentBy
    <2>5. \A a \in q.items : \A c \in Removals[a] : q.coinIndex[c] = a
        BY <1>1, <2>2, <2>3 DEF PendingInv, SpentBy
    <2>6. q.cost = Total(VirtualCost, q.items) /\ q.cost <= MaxPendingCost
        BY <1>1, <1>2, <2>1, <2>3, CostAdded, Limits DEF PendingFits, PendingInv
    <2>7. Cardinality(q.items) <= MaxPendingCount
        <3>1. Cardinality(q.items) = Cardinality(r.items) + 1
            BY <2>1, <2>3, BundleSets, FS_AddElement
        <3>2. Cardinality(r.items) \in Nat
            BY <2>1, BundleSets
        <3> QED BY <1>2, <3>1, <3>2, Limits DEF PendingFits
    <2> QED BY <2>1, <2>3, <2>4, <2>5, <2>6, <2>7 DEF PendingInv
<1> HIDE DEF q, r
<1>3. Queued(p, b) \in {p, r} \/ (b \notin p.items /\ PendingFits(r, b) /\ Queued(p, b) = q)
    BY DEF Queued, q, r
<1> QED BY <1>1, <1>2, <1>3

\* A bundle cached, or not because it is there or does not fit.
LEMMA CachedKeeps ==
    ASSUME NEW x, ConflictInv(x), NEW b \in Bundles
    PROVE  ConflictInv(Cached(x, b))
<1>1. CASE Cached(x, b) = x
    BY <1>1
<1>2. CASE Cached(x, b) # x
    <2> DEFINE y == Cached(x, b)
    <2>1. /\ b \notin x.cache /\ Cardinality(x.cache) < MaxConflictCount
          /\ SatAdd(x.cost, VirtualCost[b]) <= MaxConflictCost
          /\ y.cache = x.cache \cup {b} /\ y.cost = SatAdd(x.cost, VirtualCost[b])
        <3>1. Cardinality(x.cache) \in Nat
            BY BundleSets DEF ConflictInv
        <3>2. SatAdd(x.cost, VirtualCost[b]) \in Nat
            BY BundleSets, DataTypes DEF ConflictInv, SatAdd
        <3> QED BY <1>2, <3>1, <3>2, Limits DEF Cached
    <2> HIDE DEF y
    <2>2. y.cost = Total(VirtualCost, y.cache) /\ y.cost <= MaxConflictCost
        BY <2>1, CostAdded, Limits DEF ConflictInv
    <2>3. Cardinality(y.cache) = Cardinality(x.cache) + 1
        BY <2>1, BundleSets, FS_AddElement DEF ConflictInv
    <2>4. Cardinality(x.cache) \in Nat
        BY BundleSets DEF ConflictInv
    <2>5. ConflictInv(y)
        BY <2>1, <2>2, <2>3, <2>4, Limits DEF ConflictInv
    <2> QED BY <2>5 DEF y
<1> QED BY <1>1, <1>2

\* Bundles taken out for a retry.
LEMMA UncachedKeeps ==
    ASSUME NEW x, ConflictInv(x), NEW S \in SUBSET x.cache
    PROVE  ConflictInv(Uncached(x, S))
<1> DEFINE y == Uncached(x, S)
<1>1. y.cache = x.cache \ S /\ y.cost = SatSub(x.cost, Total(VirtualCost, S))
    <2>1. S \cap x.cache = S
        OBVIOUS
    <2> QED BY <2>1 DEF Uncached
<1> HIDE DEF y
<1>2. /\ y.cost = Total(VirtualCost, x.cache \ S)
      /\ Total(VirtualCost, x.cache \ S) <= Total(VirtualCost, x.cache)
      /\ Cardinality(x.cache \ S) <= Cardinality(x.cache)
    BY <1>1, CostRemoved DEF ConflictInv
<1>3. /\ Total(VirtualCost, x.cache \ S) \in Nat /\ Total(VirtualCost, x.cache) \in Nat
      /\ Cardinality(x.cache \ S) \in Nat /\ Cardinality(x.cache) \in Nat
    BY BundleSets DEF ConflictInv
<1> HIDE DEF Total
<1>4. ConflictInv(y)
    BY <1>1, <1>2, <1>3, Limits DEF ConflictInv
<1> QED BY <1>4 DEF y

-----------------------------------------------------------------------------
(* The inductive invariant.  The structures do not depend on one another for *)
(* their consistency, and on the calls in progress only for their types:     *)
(* what admission needs of the records, the height and the time of a caller  *)
(* is nothing at all, which is why calls may interleave as they do.          *)
CallsOK ==
    /\ seen \in Seq(Bundles)
    /\ confirmed \subseteq Bundles /\ height \in Nat /\ seconds \in Nat
    /\ submissions \in [Callers -> {Idle} \cup Calling]
    /\ follower \in Following
    /\ returned \subseteq Bundles

StructuresOK ==
    /\ PoolInv(pool)
    /\ NoDedup => Indexed(pool)
    /\ PendingInv(pending)
    /\ ConflictInv(conflict)

IInv == CallsOK /\ StructuresOK

\* Empty side pools are consistent.
LEMMA EmptySides == PendingInv(EmptyPending) /\ ConflictInv(EmptyConflict)
<1>1. Total(VirtualCost, {}) = 0 /\ Cardinality({}) = 0
    <2>1. Units(VirtualCost, {}) = {}
        BY DEF Units
    <2> QED BY <2>1, FS_EmptySet DEF Total
<1>2. SpentBy({}) = {}
    BY DEF SpentBy
<1> HIDE DEF Total
<1> QED BY <1>1, <1>2, Limits DEF EmptyPending, PendingInv, EmptyConflict, ConflictInv

\* The invariant holds of an empty mempool before any call.
LEMMA InitIInv == Init => IInv
<1> SUFFICES ASSUME Init PROVE IInv
    OBVIOUS
<1>1. CallsOK
    BY DEF Init, CallsOK, Following
<1>2. PoolInv(pool) /\ Indexed(pool)
    BY EmptyPoolInv DEF Init, Indexed, EmptyPool, Active
<1>3. PendingInv(pending) /\ ConflictInv(conflict)
    BY EmptySides DEF Init
<1> QED BY <1>1, <1>2, <1>3 DEF IInv, StructuresOK

\* A caller past the start of submit() carries a bundle.
LEMMA InCall ==
    ASSUME CallsOK, NEW t \in Callers, NEW step \in Steps, At(t, step)
    PROVE  submissions[t] \in Calling /\ Bundle(t) \in Bundles
BY DEF CallsOK, At, Idle, Steps, Calling, Bundle

\* Going on and returning keep the calls well typed.
LEMMA CallGoesOn ==
    ASSUME CallsOK, NEW t \in Callers, NEW step \in Steps, At(t, step),
           \/ Returns(t)
           \/ \E next \in Steps : Goes(t, next)
    PROVE  submissions' \in [Callers -> {Idle} \cup Calling]
<1>1. submissions[t] \in Calling
    BY InCall
<1>2. \A next \in Steps : [submissions[t] EXCEPT !.at = next] \in Calling
    BY <1>1 DEF Calling
<1> QED BY <1>2 DEF CallsOK, Returns, Goes

\* Every step of submit() keeps the invariant.
LEMMA SubmitKeeps ==
    ASSUME IInv, NEW t \in Callers, SubmitStep(t)
    PROVE  IInv'
<1> USE DEF IInv, Steps
<1>1. CASE CheckSeen(t)
    <2>1. Bundle(t) \in Bundles
        BY <1>1, InCall DEF CheckSeen
    <2>2. Seen(seen, Bundle(t)) \in Seq(Bundles)
        BY <2>1, SideLimits DEF Seen, CallsOK
    <2>3. submissions' \in [Callers -> {Idle} \cup Calling]
        BY <1>1, CallGoesOn DEF CheckSeen
    <2> QED BY <1>1, <2>2, <2>3 DEF CheckSeen, CallsOK, StructuresOK, chain
<1>2. CASE CheckActive(t) \/ CheckPending(t) \/ CheckConflict(t)
    <2>1. submissions' \in [Callers -> {Idle} \cup Calling]
        BY <1>2, CallGoesOn DEF CheckActive, CheckPending, CheckConflict
    <2> QED BY <1>2, <2>1 DEF CheckActive, CheckPending, CheckConflict, CallsOK,
                              StructuresOK, structures, chain
<1>3. CASE Validate(t)
    <2>1. submissions' \in [Callers -> {Idle} \cup Calling]
        BY <1>3, CallGoesOn DEF Validate
    <2> QED BY <1>3, <2>1 DEF Validate, CallsOK, StructuresOK, structures, chain
<1>4. CASE Queue(t)
    <2>1. submissions' \in [Callers -> {Idle} \cup Calling]
        BY <1>4, CallGoesOn DEF Queue
    <2>2. PendingInv(pending')
        BY <1>4, InCall, QueuedKeeps DEF Queue, StructuresOK
    <2> QED BY <1>4, <2>1, <2>2 DEF Queue, CallsOK, StructuresOK, chain
<1>5. CASE FindAdmitted(t)
    <2>1. submissions' \in [Callers -> {Idle} \cup Calling]
        BY <1>5, CallGoesOn DEF FindAdmitted
    <2> QED BY <1>5, <2>1 DEF FindAdmitted, CallsOK, StructuresOK, structures, chain
<1>6. CASE Refuse(t)
    <2>1. submissions' \in [Callers -> {Idle} \cup Calling]
        BY <1>6, CallGoesOn DEF Refuse, Admitting
    <2>2. ConflictInv(conflict')
        BY <1>6, InCall, CachedKeeps DEF Refuse, Admitting, StructuresOK
    <2> QED BY <1>6, <2>1, <2>2 DEF Refuse, CallsOK, StructuresOK, chain
<1>7. CASE GiveUp(t)
    <2>1. submissions' \in [Callers -> {Idle} \cup Calling]
        BY <1>7, CallGoesOn DEF GiveUp, Admitting
    <2>2. PoolInv(pool') /\ (NoDedup => Indexed(pool'))
        BY <1>7, InCall, PreparedOK DEF GiveUp, Admitting, StructuresOK, Remains
    <2> QED BY <1>7, <2>1, <2>2 DEF GiveUp, CallsOK, StructuresOK, chain
<1>8. CASE Admit(t)
    <2>1. submissions' \in [Callers -> {Idle} \cup Calling]
        BY <1>8, CallGoesOn DEF Admit, Admitting
    <2> DEFINE known == submissions[t].known
               at == submissions[t].height
    <2>2. PICK q \in Prepared(pool, Bundle(t), at) :
            Fits(q, Bundle(t)) /\ pool' = Admitted(pool, q, Bundle(t), known)
        BY <1>8 DEF Admit
    <2>3. /\ Bundle(t) \in Bundles /\ Bundle(t) \notin Active(pool)
          /\ AdmissionError(pool, Bundle(t), known) = "none"
        BY <1>8, InCall DEF Admit, Admitting, Error
    <2> HIDE DEF known, at
    <2>4. PoolInv(pool')
        BY <2>2, <2>3, AdmittedKeeps DEF StructuresOK
    <2>5. NoDedup => Indexed(pool')
        BY <2>2, <2>3, AdmittedIndexed DEF StructuresOK
    <2> QED BY <1>8, <2>1, <2>4, <2>5 DEF Admit, CallsOK, StructuresOK, chain
<1> QED BY <1>1, <1>2, <1>3, <1>4, <1>5, <1>6, <1>7, <1>8 DEF SubmitStep

\* Every step of the chain follower keeps the invariant.
LEMMA FollowerKeeps ==
    ASSUME IInv, FollowerStep
    PROVE  IInv'
<1> USE DEF IInv
<1>1. CASE ForgetSeen
    <2> DEFINE AtBlock == [at : {"clearSeen", "removeSpent"}, spent : SUBSET Coins,
                           before : (SUBSET Bundles) \X Nat \X Nat]
    <2>1. follower' \in Following
        <3>1. follower \in AtBlock
            BY <1>1 DEF ForgetSeen, CallsOK, Following, Idle
        <3>2. [follower EXCEPT !.at = "removeSpent"] \in AtBlock
            BY <3>1
        <3> QED BY <1>1, <3>2 DEF ForgetSeen, Following
    <2>2. seen' \in Seq(Bundles)
        BY <1>1 DEF ForgetSeen
    <2> QED BY <1>1, <2>1, <2>2 DEF ForgetSeen, CallsOK, StructuresOK, chain
<1>2. CASE RemoveSpentAndExpired
    <2> DEFINE r == Cascade(pool, Spenders(pool, follower.spent))
    <2>1. PoolInv(r) /\ (NoDedup => Indexed(r))
        BY RemoveAllKeeps DEF Cascade, Remains, StructuresOK
    <2>2. pool' = Cascade(r, {b \in Active(r) : IsExpired(b, height, seconds)})
        BY <1>2 DEF RemoveSpentAndExpired, AfterBlock
    <2> HIDE DEF r
    <2>3. PoolInv(pool') /\ (NoDedup => Indexed(pool'))
        BY <2>1, <2>2, RemoveAllKeeps DEF Cascade, Remains
    <2> QED BY <1>2, <2>3 DEF RemoveSpentAndExpired, CallsOK, StructuresOK, chain, Following
<1>3. CASE Promote
    <2>1. Mature(pending, height, seconds) \subseteq Bundles
        BY DEF Mature, StructuresOK, PendingInv
    <2>2. PendingInv(pending')
        BY <1>3, PendingRemovedKeeps DEF Promote, StructuresOK
    <2> QED BY <1>3, <2>1, <2>2 DEF Promote, CallsOK, StructuresOK, chain, Following
<1>4. CASE CollectRetries
    <2>1. Retryable(conflict, pool) \subseteq conflict.cache
        BY DEF Retryable
    <2>2. ConflictInv(conflict')
        BY <1>4, <2>1, UncachedKeeps DEF CollectRetries, StructuresOK
    <2>3. follower.promoted \subseteq Bundles
        BY <1>4 DEF CollectRetries, CallsOK, Following, Idle
    <2>4. follower' \in [at : {"record"}, handed : SUBSET Bundles]
        BY <1>4, <2>1, <2>3 DEF CollectRetries, StructuresOK, ConflictInv
    <2> QED BY <1>4, <2>2, <2>4 DEF CollectRetries, CallsOK, StructuresOK, chain, Following
<1>5. CASE ClearPending
    <2>1. PendingInv(EmptyPending)
        BY EmptySides
    <2> QED BY <1>5, <2>1 DEF ClearPending, CallsOK, StructuresOK, chain, Following
<1>6. CASE ClearConflict
    <2>1. ConflictInv(EmptyConflict)
        BY EmptySides
    <2> QED BY <1>6, <2>1 DEF ClearConflict, CallsOK, StructuresOK, chain, Following
<1>7. CASE ClearSeen
    BY <1>7 DEF ClearSeen, CallsOK, StructuresOK, chain, Following
<1>8. CASE RecordBlock
    <2>1. follower.handed \subseteq Bundles
        BY <1>8 DEF RecordBlock, CallsOK, Following, Idle
    <2> QED BY <1>8, <2>1
            DEF RecordBlock, CallsOK, StructuresOK, structures, chain, Following
<1> QED BY <1>1, <1>2, <1>3, <1>4, <1>5, <1>6, <1>7, <1>8 DEF FollowerStep

\* Every step keeps the invariant.
LEMMA NextIInv == IInv /\ [Next]_vars => IInv'
<1> SUFFICES ASSUME IInv, [Next]_vars PROVE IInv'
    OBVIOUS
<1> USE DEF IInv
<1>1. ASSUME NEW t \in Callers, NEW b \in Bundles, Submit(t, b) PROVE IInv'
    <2>1. PICK coins \in Records :
            submissions' = [submissions EXCEPT ![t] =
                [at |-> "seen", bundle |-> b, height |-> height,
                 seconds |-> seconds, known |-> Removals[b] \cap coins,
                 again |-> b \in returned]]
        BY <1>1 DEF Submit
    <2> DEFINE call == [at |-> "seen", bundle |-> b, height |-> height,
                        seconds |-> seconds, known |-> Removals[b] \cap coins,
                        again |-> b \in returned]
    <2>2. call \in Calling
        BY DataTypes DEF Calling, Steps, CallsOK
    <2>3. submissions' = [submissions EXCEPT ![t] = call]
        BY <2>1
    <2> HIDE DEF call
    <2>4. submissions' \in [Callers -> {Idle} \cup Calling]
        BY <2>2, <2>3 DEF CallsOK
    <2> QED BY <1>1, <2>4 DEF Submit, CallsOK, StructuresOK, structures, chain
<1>2. ASSUME NEW t \in Callers, SubmitStep(t) PROVE IInv'
    BY <1>2, SubmitKeeps
<1>3. CASE FollowerStep
    BY <1>3, FollowerKeeps
<1>4. ASSUME NEW K \in SUBSET (Bundles \ confirmed), NEW s \in 0..MaxSeconds,
             BlockConfirmed(K, s)
      PROVE  IInv'
    <2>1. SpentBy(K) \subseteq Coins
        BY DataTypes DEF SpentBy
    <2>2. follower' \in Following
        BY <1>4, <2>1 DEF BlockConfirmed, Following, chain, CallsOK
    <2>3. height' \in Nat /\ seconds' \in Nat
        BY <1>4, MempoolEnvironment DEF BlockConfirmed, CallsOK
    <2> QED BY <1>4, <2>2, <2>3 DEF BlockConfirmed, CallsOK, StructuresOK, structures
<1>5. CASE ClearPool
    <2>1. Indexed(EmptyPool)
        BY DEF Indexed, EmptyPool, Active
    <2> QED BY <1>5, <2>1, EmptyPoolInv DEF ClearPool, CallsOK, StructuresOK, chain, Following
<1>6. CASE DrainPending
    <2>1. PendingInv(pending')
        BY <1>6, PendingRemovedKeeps DEF DrainPending, StructuresOK
    <2>2. Mature(pending, height, seconds) \subseteq Bundles
        BY DEF Mature, StructuresOK, PendingInv
    <2> QED BY <1>6, <2>1, <2>2 DEF DrainPending, CallsOK, StructuresOK, chain
<1>7. CASE DrainConflict
    <2>1. ConflictInv(EmptyConflict)
        BY EmptySides
    <2> QED BY <1>7, <2>1 DEF DrainConflict, CallsOK, StructuresOK, ConflictInv, chain
<1>8. CASE UNCHANGED vars
    BY <1>8 DEF vars, structures, chain, CallsOK, StructuresOK
<1> QED BY <1>1, <1>2, <1>3, <1>4, <1>5, <1>6, <1>7, <1>8 DEF Next

\* Every reachable state satisfies the inductive invariant.
THEOREM InductiveInvariant == Spec => []IInv
<1> QED BY InitIInv, NextIInv, PTL DEF Spec

\* The invariant includes the types.
LEMMA IInvTyped == IInv => TypeOK
<1> SUFFICES ASSUME IInv PROVE TypeOK
    OBVIOUS
<1>1. IsPool(pool)
    BY DEF IInv, StructuresOK, PoolInv
<1>2. IsPending(pending)
    <2>1. SpentBy(pending.items) \subseteq Coins
        BY DataTypes DEF SpentBy, IInv, StructuresOK, PendingInv
    <2>2. \A c \in DOMAIN pending.coinIndex : pending.coinIndex[c] \in Bundles
        BY DEF SpentBy, IInv, StructuresOK, PendingInv
    <2>3. pending.cost \in 0..MaxU64
        BY BundleSets, Limits DEF IInv, StructuresOK, PendingInv
    <2> QED BY <2>1, <2>2, <2>3 DEF IsPending, IsPartialFunction, IInv,
                                    StructuresOK, PendingInv
<1>3. IsConflictCache(conflict)
    BY BundleSets, Limits DEF IsConflictCache, IInv, StructuresOK, ConflictInv
<1> QED BY <1>1, <1>2, <1>3 DEF TypeOK, IInv, CallsOK

\* The structures and the calls in progress keep their types, whatever the
\* number of threads.
THEOREM TypeCorrect == Spec => []TypeOK
<1> QED BY IInvTyped, InductiveInvariant, PTL

\* However calls interleave, the active pool's accumulators, limits and indexes
\* hold, and, without deduplication, no coin is spent twice in it.
THEOREM ActiveTheorem ==
    ASSUME NoDedup
    PROVE  Spec => []ActiveConsistent
<1>1. IInv => ActiveConsistent
    BY NoDedup, IndexedCompatible DEF IInv, StructuresOK, PoolInv, ActiveConsistent
<1> QED BY <1>1, InductiveInvariant, PTL

\* However calls interleave, the pending pool's index holds exactly the coins
\* of its items, and its cost is exact and within the limits.
THEOREM PendingTheorem == Spec => []PendingConsistent
<1>1. IInv => PendingConsistent
    BY DEF IInv, StructuresOK, PendingInv, PendingConsistent
<1> QED BY <1>1, InductiveInvariant, PTL

\* However calls interleave, the conflict cache counts no bundle twice and
\* stays within its limits.
THEOREM ConflictTheorem == Spec => []ConflictConsistent
<1>1. IInv => ConflictConsistent
    BY DEF IInv, StructuresOK, ConflictInv, ConflictConsistent
<1> QED BY <1>1, InductiveInvariant, PTL

-----------------------------------------------------------------------------
(* One call at a time.  No check of submit() looks at two structures under   *)
(* one lock: a bundle is in one place only because nothing happens between   *)
(* the checks, so that what each found is still so when the bundle is put    *)
(* somewhere.                                                                *)

\* What the bundles in the three places and those handed back say of each other.
Apart ==
    /\ Active(pool) \cap pending.items = {}
    /\ Active(pool) \cap conflict.cache = {}
    /\ pending.items \cap conflict.cache = {}
    /\ returned \cap (Active(pool) \cup pending.items \cup conflict.cache) = {}
    /\ follower.at = "retry" =>
        follower.promoted \cap (Active(pool) \cup pending.items \cup conflict.cache) = {}
    /\ follower.at = "record" =>
        follower.handed \cap (Active(pool) \cup pending.items \cup conflict.cache) = {}

\* Nobody else is in a call, and what the checks of this one found still holds.
Alone(t) ==
    /\ follower = Idle
    /\ \A u \in Callers \ {t} : submissions[u] = Idle
    /\ Bundle(t) \notin returned
    /\ submissions[t].at \in {"pending", "conflict", "validate", "queue", "admit"} =>
        Bundle(t) \notin Active(pool)
    /\ submissions[t].at \in {"conflict", "validate", "queue", "admit"} =>
        Bundle(t) \notin pending.items
    /\ submissions[t].at \in {"validate", "queue", "admit"} =>
        Bundle(t) \notin conflict.cache

OneAtATime == Apart /\ \A t \in Callers : submissions[t] # Idle => Alone(t)

\* In the middle of a call its caller is alone.
LEMMA CallerAlone ==
    ASSUME IInv, OneAtATime, NEW t \in Callers, NEW step \in Steps, At(t, step)
    PROVE  /\ Alone(t) /\ submissions[t].at = step
           /\ Bundle(t) \in Bundles
<1>1. submissions[t] # Idle
    BY DEF At, Steps, Idle
<1> QED BY <1>1, InCall DEF OneAtATime, At, IInv

\* When the only call returns, the places alone remain to be looked at.
LEMMA CallReturned ==
    ASSUME IInv, OneAtATime, NEW t \in Callers, NEW step \in Steps, At(t, step),
           Returns(t), UNCHANGED <<follower, returned>>,
           NEW b \in Bundles, b = Bundle(t),
           \/ Active(pool') \subseteq Active(pool) /\ UNCHANGED <<pending, conflict>>
           \/ /\ Active(pool') \subseteq Active(pool) \cup {b}
              /\ UNCHANGED <<pending, conflict>>
              /\ b \notin pending.items /\ b \notin conflict.cache
           \/ /\ pending'.items \subseteq pending.items \cup {b}
              /\ UNCHANGED <<pool, conflict>>
              /\ b \notin Active(pool) /\ b \notin conflict.cache
           \/ /\ conflict'.cache \subseteq conflict.cache \cup {b}
              /\ UNCHANGED <<pool, pending>>
              /\ b \notin Active(pool) /\ b \notin pending.items
    PROVE  OneAtATime'
<1>1. Alone(t)
    BY CallerAlone
<1>2. \A u \in Callers : submissions'[u] = Idle
    BY <1>1 DEF Alone, Returns, IInv, CallsOK
<1>3. Active(pool)' = Active(pool')
    BY DEF Active
<1>4. follower' = Idle /\ b \notin returned
    BY <1>1 DEF Alone
<1>5. Apart'
    <2>1. follower'.at \notin {"retry", "record"}
        BY <1>4 DEF Idle
    <2> QED BY <1>3, <1>4, <2>1 DEF Apart, OneAtATime
<1> QED BY <1>2, <1>5 DEF OneAtATime

\* Going on to the next check, with what this one has found.
LEMMA CallWentOn ==
    ASSUME IInv, OneAtATime, NEW t \in Callers, NEW step \in Steps, At(t, step),
           NEW next \in Steps, Goes(t, next),
           UNCHANGED <<pool, pending, conflict, follower, returned>>,
           next \in {"pending", "conflict", "validate", "queue", "admit"} =>
                Bundle(t) \notin Active(pool),
           next \in {"conflict", "validate", "queue", "admit"} =>
                Bundle(t) \notin pending.items,
           next \in {"validate", "queue", "admit"} => Bundle(t) \notin conflict.cache
    PROVE  OneAtATime'
<1>1. Alone(t)
    BY CallerAlone
<1>2. submissions[t] \in Calling
    BY InCall DEF IInv
<1>3. \A u \in Callers \ {t} : submissions'[u] = Idle
    BY <1>1 DEF Alone, Goes, IInv, CallsOK
<1>4. submissions'[t].at = next /\ Bundle(t)' = Bundle(t)
    BY <1>2 DEF Goes, Bundle, IInv, CallsOK, Calling
<1>5. Apart'
    BY DEF Apart, OneAtATime, Active
<1>6. Alone(t)'
    BY <1>1, <1>3, <1>4 DEF Alone, Active
<1> QED BY <1>3, <1>5, <1>6 DEF OneAtATime

\* Every step of submit() keeps bundles in one place.
LEMMA SubmitKeepsApart ==
    ASSUME IInv, OneAtATime, NEW t \in Callers, SubmitStep(t)
    PROVE  OneAtATime'
<1>1. CASE CheckSeen(t)
    <2>1. "seen" \in Steps /\ "active" \in Steps
        BY DEF Steps
    <2>2. Bundle(t) \in Bundles
        BY <1>1, <2>1, CallerAlone DEF CheckSeen
    <2>3. CASE Returns(t)
        BY <1>1, <2>1, <2>2, <2>3, CallReturned DEF CheckSeen
    <2>4. CASE Goes(t, "active")
        BY <1>1, <2>1, <2>4, CallWentOn DEF CheckSeen
    <2> QED BY <1>1, <2>3, <2>4 DEF CheckSeen
<1>2. CASE CheckActive(t)
    <2>1. "active" \in Steps /\ "pending" \in Steps
        BY DEF Steps
    <2>2. Bundle(t) \in Bundles
        BY <1>2, <2>1, CallerAlone DEF CheckActive
    <2>3. CASE Returns(t)
        BY <1>2, <2>1, <2>2, <2>3, CallReturned DEF CheckActive, structures
    <2>4. CASE Goes(t, "pending") /\ Bundle(t) \notin Active(pool)
        BY <1>2, <2>1, <2>4, CallWentOn DEF CheckActive, structures
    <2> QED BY <1>2, <2>3, <2>4 DEF CheckActive
<1>3. CASE CheckPending(t)
    <2>1. "pending" \in Steps /\ "conflict" \in Steps
        BY DEF Steps
    <2>2. Bundle(t) \in Bundles /\ Bundle(t) \notin Active(pool)
        BY <1>3, <2>1, CallerAlone DEF CheckPending, Alone
    <2>3. CASE Returns(t)
        BY <1>3, <2>1, <2>2, <2>3, CallReturned DEF CheckPending, structures
    <2>4. CASE Goes(t, "conflict") /\ Bundle(t) \notin pending.items
        BY <1>3, <2>1, <2>2, <2>4, CallWentOn DEF CheckPending, structures
    <2> QED BY <1>3, <2>3, <2>4 DEF CheckPending
<1>4. CASE CheckConflict(t)
    <2>1. "conflict" \in Steps /\ "validate" \in Steps
        BY DEF Steps
    <2>2. /\ Bundle(t) \in Bundles /\ Bundle(t) \notin Active(pool)
          /\ Bundle(t) \notin pending.items
        BY <1>4, <2>1, CallerAlone DEF CheckConflict, Alone
    <2>3. CASE Returns(t)
        BY <1>4, <2>1, <2>2, <2>3, CallReturned DEF CheckConflict, structures
    <2>4. CASE Goes(t, "validate") /\ Bundle(t) \notin conflict.cache
        BY <1>4, <2>1, <2>2, <2>4, CallWentOn DEF CheckConflict, structures
    <2> QED BY <1>4, <2>3, <2>4 DEF CheckConflict
<1>5. CASE Validate(t)
    <2>1. {"validate", "queue", "admit"} \subseteq Steps
        BY DEF Steps
    <2>2. /\ Bundle(t) \in Bundles /\ Bundle(t) \notin Active(pool)
          /\ Bundle(t) \notin pending.items /\ Bundle(t) \notin conflict.cache
        BY <1>5, <2>1, CallerAlone DEF Validate, Alone
    <2>3. CASE Returns(t)
        BY <1>5, <2>1, <2>2, <2>3, CallReturned DEF Validate, structures
    <2>4. CASE Goes(t, "queue")
        BY <1>5, <2>1, <2>2, <2>4, CallWentOn DEF Validate, structures
    <2>5. CASE Goes(t, "admit")
        BY <1>5, <2>1, <2>2, <2>5, CallWentOn DEF Validate, structures
    <2> QED BY <1>5, <2>3, <2>4, <2>5 DEF Validate
<1>6. CASE Queue(t)
    <2>1. "queue" \in Steps
        BY DEF Steps
    <2>2. /\ Bundle(t) \in Bundles /\ Bundle(t) \notin Active(pool)
          /\ Bundle(t) \notin conflict.cache
        BY <1>6, <2>1, CallerAlone DEF Queue, Alone
    <2>3. Queued(pending, Bundle(t)).items \subseteq pending.items \cup {Bundle(t)}
        BY DEF Queued, PendingRemoved, PendingInserted
    <2> QED BY <1>6, <2>1, <2>2, <2>3, CallReturned DEF Queue
<1>7. CASE FindAdmitted(t)
    <2>1. "admit" \in Steps
        BY DEF Steps
    <2>2. Bundle(t) \in Bundles
        BY <1>7, <2>1, CallerAlone DEF FindAdmitted
    <2> QED BY <1>7, <2>1, <2>2, CallReturned DEF FindAdmitted, structures
<1>8. CASE Refuse(t)
    <2>1. "admit" \in Steps
        BY DEF Steps
    <2>2. /\ Bundle(t) \in Bundles /\ Bundle(t) \notin Active(pool)
          /\ Bundle(t) \notin pending.items
        BY <1>8, <2>1, CallerAlone DEF Refuse, Admitting, Alone
    <2>3. Cached(conflict, Bundle(t)).cache \subseteq conflict.cache \cup {Bundle(t)}
        BY DEF Cached
    <2>4. conflict'.cache \subseteq conflict.cache \cup {Bundle(t)}
        BY <1>8, <2>3 DEF Refuse
    <2> QED BY <1>8, <2>1, <2>2, <2>4, CallReturned DEF Refuse, Admitting
<1>9. CASE GiveUp(t)
    <2>1. "admit" \in Steps
        BY DEF Steps
    <2>2. Bundle(t) \in Bundles
        BY <1>9, <2>1, CallerAlone DEF GiveUp, Admitting
    <2>3. Active(pool') \subseteq Active(pool)
        BY <1>9, <2>2, PreparedOK DEF GiveUp, Remains, IInv, StructuresOK
    <2> QED BY <1>9, <2>1, <2>2, <2>3, CallReturned DEF GiveUp, Admitting
<1>10. CASE Admit(t)
    <2>1. "admit" \in Steps
        BY DEF Steps
    <2>2. /\ Bundle(t) \in Bundles /\ Bundle(t) \notin pending.items
          /\ Bundle(t) \notin conflict.cache
        BY <1>10, <2>1, CallerAlone DEF Admit, Admitting, Alone
    <2>3. Active(pool') \subseteq Active(pool) \cup {Bundle(t)}
        <3>1. PICK q \in Prepared(pool, Bundle(t), submissions[t].height) :
                pool' = Admitted(pool, q, Bundle(t), submissions[t].known)
            BY <1>10 DEF Admit
        <3>2. Active(q) \subseteq Active(pool)
            BY <2>2, PreparedOK DEF Remains, IInv, StructuresOK
        <3>3. Active(pool') = Active(q) \cup {Bundle(t)}
            BY <3>1, AdmittedActive
        <3> QED BY <3>2, <3>3
    <2> QED BY <1>10, <2>1, <2>2, <2>3, CallReturned DEF Admit, Admitting
<1> QED BY <1>1, <1>2, <1>3, <1>4, <1>5, <1>6, <1>7, <1>8, <1>9, <1>10 DEF SubmitStep

\* Every step of the chain follower keeps bundles in one place.
LEMMA FollowerKeepsApart ==
    ASSUME IInv, OneAtATime, FollowerStep
    PROVE  OneAtATime'
<1>1. follower # Idle /\ UNCHANGED submissions
    BY DEF FollowerStep, ForgetSeen, RemoveSpentAndExpired, Promote, CollectRetries,
           RecordBlock, ClearPending, ClearConflict, ClearSeen, Idle
<1>2. \A t \in Callers : submissions'[t] = Idle
    BY <1>1 DEF OneAtATime, Alone
<1>3. CASE ForgetSeen
    <2>1. follower \in [at : {"clearSeen", "removeSpent"}, spent : SUBSET Coins,
                        before : (SUBSET Bundles) \X Nat \X Nat]
        BY <1>3 DEF ForgetSeen, IInv, CallsOK, Following, Idle
    <2>2. follower'.at \notin {"retry", "record"}
        BY <1>3, <2>1 DEF ForgetSeen
    <2> QED BY <1>2, <1>3, <2>2 DEF ForgetSeen, OneAtATime, Apart, Active
<1>4. CASE RemoveSpentAndExpired
    <2> DEFINE r == Cascade(pool, Spenders(pool, follower.spent))
    <2>1. PoolInv(r) /\ Active(r) \subseteq Active(pool)
        BY RemoveAllKeeps DEF Cascade, IInv, StructuresOK
    <2>2. pool' = Cascade(r, {b \in Active(r) : IsExpired(b, height, seconds)})
        BY <1>4 DEF RemoveSpentAndExpired, AfterBlock
    <2> HIDE DEF r
    <2>3. Active(pool') \subseteq Active(pool)
        BY <2>1, <2>2, RemoveAllKeeps DEF Cascade
    <2>4. follower'.at \notin {"retry", "record"}
        BY <1>4 DEF RemoveSpentAndExpired
    <2> QED BY <1>2, <1>4, <2>3, <2>4 DEF RemoveSpentAndExpired, OneAtATime, Apart, Active
<1>5. CASE Promote
    <2> DEFINE mature == Mature(pending, height, seconds)
    <2>1. mature \subseteq pending.items
        BY DEF Mature
    <2>2. /\ pending'.items = pending.items \ mature
          /\ follower'.promoted = mature /\ follower'.at # "record"
        BY <1>5, <2>1 DEF Promote, PendingRemoved
    <2> HIDE DEF mature
    <2> QED BY <1>2, <1>5, <2>1, <2>2 DEF Promote, OneAtATime, Apart, Active
<1>6. CASE CollectRetries
    <2> DEFINE retries == Retryable(conflict, pool)
    <2>1. retries \subseteq conflict.cache
        BY DEF Retryable
    <2>2. conflict'.cache = conflict.cache \ retries
        BY <1>6 DEF CollectRetries, Uncached
    <2>3. follower'.handed = follower.promoted \cup retries
        BY <1>6 DEF CollectRetries
    <2>4. follower'.at # "retry" /\ follower.at = "retry"
        BY <1>6 DEF CollectRetries
    <2> HIDE DEF retries
    <2> QED BY <1>2, <1>6, <2>1, <2>2, <2>3, <2>4
            DEF CollectRetries, OneAtATime, Apart, Active
<1>7. CASE ClearPending
    BY <1>2, <1>7 DEF ClearPending, EmptyPending, OneAtATime, Apart, Active
<1>8. CASE ClearConflict
    BY <1>2, <1>8 DEF ClearConflict, EmptyConflict, OneAtATime, Apart, Active
<1>9. CASE ClearSeen
    BY <1>2, <1>9 DEF ClearSeen, Idle, OneAtATime, Apart, Active
<1>10. CASE RecordBlock
    <2>1. follower'.at \notin {"retry", "record"} /\ follower.at = "record"
        BY <1>10 DEF RecordBlock, Idle
    <2> QED BY <1>2, <1>10, <2>1
            DEF RecordBlock, structures, OneAtATime, Apart, Active
<1> QED BY <1>3, <1>4, <1>5, <1>6, <1>7, <1>8, <1>9, <1>10 DEF FollowerStep

\* Calls that wait for each other keep bundles in one place.
LEMMA NextOneAtATime ==
    ASSUME ~Concurrent, IInv, OneAtATime, [Next]_vars
    PROVE  OneAtATime'
<1>1. ASSUME NEW t \in Callers, NEW b \in Bundles, Submit(t, b) PROVE OneAtATime'
    <2>1. follower = Idle /\ \A u \in Callers : submissions[u] = Idle
        BY <1>1 DEF Submit, Free
    <2>2. PICK coins \in Records :
            submissions' = [submissions EXCEPT ![t] =
                [at |-> "seen", bundle |-> b, height |-> height,
                 seconds |-> seconds, known |-> Removals[b] \cap coins,
                 again |-> b \in returned]]
        BY <1>1 DEF Submit
    <2>3. submissions'[t].at = "seen" /\ Bundle(t)' = b
        BY <2>2 DEF Bundle, IInv, CallsOK
    <2>4. \A u \in Callers \ {t} : submissions'[u] = Idle
        BY <2>1, <2>2 DEF IInv, CallsOK
    <2>5. Alone(t)'
        BY <1>1, <2>1, <2>3, <2>4 DEF Submit, Alone
    <2>6. Apart'
        BY <1>1 DEF Submit, structures, OneAtATime, Apart, Active
    <2> QED BY <2>4, <2>5, <2>6 DEF OneAtATime
<1>2. ASSUME NEW t \in Callers, SubmitStep(t) PROVE OneAtATime'
    BY <1>2, SubmitKeepsApart
<1>3. CASE FollowerStep
    BY <1>3, FollowerKeepsApart
<1>4. ASSUME NEW K \in SUBSET (Bundles \ confirmed), NEW s \in 0..MaxSeconds,
             BlockConfirmed(K, s)
      PROVE  OneAtATime'
    <2>1. \A t \in Callers : submissions'[t] = Idle
        BY <1>4 DEF BlockConfirmed, Free
    <2>2. follower'.at \notin {"retry", "record"}
        BY <1>4 DEF BlockConfirmed
    <2> QED BY <1>4, <2>1, <2>2 DEF BlockConfirmed, structures, OneAtATime, Apart, Active
<1>5. CASE ClearPool
    <2>1. \A t \in Callers : submissions'[t] = Idle
        BY <1>5 DEF ClearPool, Free
    <2>2. Active(pool') = {} /\ follower'.at \notin {"retry", "record"}
        BY <1>5 DEF ClearPool, EmptyPool, Active
    <2> QED BY <1>5, <2>1, <2>2 DEF ClearPool, OneAtATime, Apart, Active
<1>6. CASE DrainPending
    <2> DEFINE mature == Mature(pending, height, seconds)
    <2>1. \A t \in Callers : submissions'[t] = Idle
        BY <1>6 DEF DrainPending, Free
    <2>2. mature \subseteq pending.items
        BY DEF Mature
    <2>3. pending'.items = pending.items \ mature /\ returned' = returned \cup mature
        BY <1>6, <2>2 DEF DrainPending, PendingRemoved
    <2>4. follower'.at \notin {"retry", "record"}
        BY <1>6 DEF DrainPending, Idle
    <2> HIDE DEF mature
    <2> QED BY <1>6, <2>1, <2>2, <2>3, <2>4 DEF DrainPending, OneAtATime, Apart, Active
<1>7. CASE DrainConflict
    <2>1. \A t \in Callers : submissions'[t] = Idle
        BY <1>7 DEF DrainConflict, Free
    <2>2. follower'.at \notin {"retry", "record"}
        BY <1>7 DEF DrainConflict, Idle
    <2> QED BY <1>7, <2>1, <2>2
            DEF DrainConflict, EmptyConflict, OneAtATime, Apart, Active
<1>8. CASE UNCHANGED vars
    BY <1>8 DEF vars, structures, OneAtATime, Apart, Alone, Bundle, Active
<1> QED BY <1>1, <1>2, <1>3, <1>4, <1>5, <1>6, <1>7, <1>8 DEF Next

\* An empty mempool before any call.
LEMMA InitOneAtATime == Init => OneAtATime
<1> SUFFICES ASSUME Init PROVE OneAtATime
    OBVIOUS
<1>1. Active(pool) = {} /\ pending.items = {} /\ conflict.cache = {} /\ returned = {}
    BY DEF Init, EmptyPool, EmptyPending, EmptyConflict, Active
<1>2. follower.at \notin {"retry", "record"} /\ \A t \in Callers : submissions[t] = Idle
    BY DEF Init, Idle
<1> QED BY <1>1, <1>2 DEF OneAtATime, Apart

\* Calls made one at a time keep every bundle in one place: active, pending,
\* waiting for a retry, or handed back.
THEOREM InOnePlaceTheorem ==
    ASSUME ~Concurrent
    PROVE  Spec => []InOnePlace
<1>1. Init => IInv /\ OneAtATime
    BY InitIInv, InitOneAtATime
<1>2. IInv /\ OneAtATime /\ [Next]_vars => (IInv /\ OneAtATime)'
    BY NextIInv, NextOneAtATime
<1>3. IInv /\ OneAtATime => InOnePlace
    BY DEF OneAtATime, Apart, InOnePlace
<1> QED BY <1>1, <1>2, <1>3, PTL DEF Spec
-----------------------------------------------------------------------------
(* What is queued: who gives way to it, and when it leaves for good.         *)

\* A newcomer that outbids others does so without clamping, as all fees
\* together fit in a u64.
LEMMA OutbidsExactly ==
    ASSUME NEW S \in SUBSET Bundles, NEW b \in Bundles, b \notin S,
           Fee[b] >= SatAdd(Total(Fee, S), MinRbfFeeBump)
    PROVE  Fee[b] >= Total(Fee, S) + MinRbfFeeBump
<1>1. IsFiniteSet(S) /\ IsFiniteSet(S \cup {b}) /\ \A a \in Bundles : Fee[a] \in Nat
    BY BundlesFinite, FS_Subset, DataTypes
<1>2. Total(Fee, S \cup {b}) = Total(Fee, S) + Fee[b]
    BY <1>1, TotalAdd
<1>3. /\ Total(Fee, S \cup {b}) <= Total(Fee, Bundles)
      /\ Total(Fee, S) \in Nat /\ Total(Fee, Bundles) \in Nat
    BY <1>1, BundlesFinite, TotalRemove, TotalNat
<1>4. MaxU64 \in Nat /\ Fee[b] \in Nat /\ MinRbfFeeBump \in 0..MaxU64
    BY <1>1, BundleData, AdmissionLimits
<1> HIDE DEF Total
<1> QED BY <1>2, <1>3, <1>4, FeesFit DEF SatAdd

\* Pending items give way only to a submission that spends all their coins and
\* outbids them, and that is queued unless there is no room for it beside the
\* others: in every state that interleaved calls lead to.
THEOREM GivesWayTheorem == Spec => PendingGivesWay
<1> DEFINE GivesWay(t) ==
        LET lost == pending.items \ pending'.items
            b == Bundle(t)
        IN  lost # {} =>
                /\ SpentBy(lost) \subseteq Removals[b]
                /\ Fee[b] >= Total(Fee, lost) + MinRbfFeeBump
                /\ \/ b \in pending'.items
                   \/ Total(VirtualCost, pending'.items \cup {b}) > MaxPendingCost
           Step == \A t \in Callers : Queue(t) => GivesWay(t)
<1>1. ASSUME IInv, NEW t \in Callers, Queue(t) PROVE GivesWay(t)
    <2> DEFINE b == Bundle(t)
               K == PendingConflicts(pending, b)
               cleared == PendingRemoved(pending, K)
               lost == pending.items \ pending'.items
    <2> SUFFICES ASSUME lost # {}
                 PROVE  /\ SpentBy(lost) \subseteq Removals[b]
                        /\ Fee[b] >= Total(Fee, lost) + MinRbfFeeBump
                        /\ \/ b \in pending'.items
                           \/ Total(VirtualCost, pending'.items \cup {b}) > MaxPendingCost
        OBVIOUS
    <2>1. b \in Bundles /\ PendingInv(pending) /\ pending' = Queued(pending, b)
        BY <1>1, InCall DEF Queue, IInv, StructuresOK, Steps
    <2>2. K \subseteq pending.items /\ pending.items \subseteq Bundles
        BY <2>1 DEF PendingConflicts, PendingInv, SpentBy
    <2>3. cleared.items = pending.items \ K /\ PendingInv(cleared)
        BY <2>1, PendingRemovedKeeps DEF PendingRemoved
    <2>4. /\ b \notin pending.items /\ RbfError(b, K) = "none"
          /\ \/ PendingFits(cleared, b) /\ pending' = PendingInserted(cleared, b)
             \/ ~PendingFits(cleared, b) /\ pending' = cleared
        BY <2>1 DEF Queued
    <2> HIDE DEF cleared, K, b
    <2>5. lost = K /\ pending'.items \in {cleared.items, cleared.items \cup {b}}
        BY <2>2, <2>3, <2>4 DEF PendingInserted
    <2>6. K # {} /\ K \subseteq Bundles /\ b \notin K
        BY <2>2, <2>4, <2>5
    <2>7. /\ SpentBy(K) \subseteq Removals[b]
          /\ ~(Fee[b] < SatAdd(Total(Fee, K), MinRbfFeeBump))
        BY <2>4, <2>6 DEF RbfError
    <2>8. Fee[b] >= Total(Fee, K) + MinRbfFeeBump
        <3>1. SatAdd(Total(Fee, K), MinRbfFeeBump) \in Int /\ Fee[b] \in Int
            <4>1. IsFiniteSet(K) /\ \A a \in K \cup {b} : Fee[a] \in Nat
                BY <2>1, <2>6, BundlesFinite, FS_Subset, DataTypes
            <4>2. Total(Fee, K) \in Nat
                BY <4>1, TotalNat
            <4> QED BY <4>1, <4>2, BundleData, AdmissionLimits DEF SatAdd
        <3>2. Fee[b] >= SatAdd(Total(Fee, K), MinRbfFeeBump)
            BY <2>7, <3>1
        <3> QED BY <2>1, <2>6, <3>2, OutbidsExactly
    <2>9. ASSUME ~PendingFits(cleared, b)
          PROVE  Total(VirtualCost, cleared.items \cup {b}) > MaxPendingCost
        <3>1. Cardinality(cleared.items) < MaxPendingCount
            <4>1. PICK a \in K : TRUE
                BY <2>6
            <4>2. a \in pending.items /\ a \notin cleared.items
                BY <2>2, <2>3, <4>1
            <4>3. cleared.items \cup {a} \subseteq pending.items
                BY <2>3, <4>2
            <4>4. /\ IsFiniteSet(cleared.items) /\ IsFiniteSet(pending.items)
                  /\ Cardinality(cleared.items) \in Nat
                  /\ Cardinality(pending.items) \in Nat
                BY <2>2, <2>3, BundleSets DEF PendingInv
            <4>5. Cardinality(cleared.items \cup {a}) = Cardinality(cleared.items) + 1
                BY <4>2, <4>4, FS_AddElement
            <4>6. Cardinality(cleared.items \cup {a}) <= Cardinality(pending.items)
                BY <4>3, <4>4, FS_Subset
            <4> QED BY <2>1, <4>4, <4>5, <4>6, Limits DEF PendingInv
        <3>2. /\ IsFiniteSet(cleared.items) /\ b \notin cleared.items
              /\ Total(VirtualCost, cleared.items) \in Nat
              /\ \A a \in cleared.items \cup {b} : VirtualCost[a] \in Nat
            BY <2>1, <2>3, <2>4, BundleSets, DataTypes DEF PendingInv
        <3>3. Total(VirtualCost, cleared.items \cup {b})
                = cleared.cost + VirtualCost[b]
            <4>1. cleared.cost = Total(VirtualCost, cleared.items)
                BY <2>3 DEF PendingInv
            <4>2. Total(VirtualCost, cleared.items \cup {b})
                    = Total(VirtualCost, cleared.items) + VirtualCost[b]
                <5> DEFINE rest == cleared.items
                <5>1. /\ IsFiniteSet(rest) /\ b \notin rest
                      /\ \A a \in rest \cup {b} : VirtualCost[a] \in Nat
                    BY <3>2
                <5> HIDE DEF rest
                <5>2. Total(VirtualCost, rest \cup {b}) = Total(VirtualCost, rest) + VirtualCost[b]
                    BY <5>1, TotalAdd
                <5> QED BY <5>2 DEF rest
            <4> HIDE DEF Total
            <4> QED BY <4>1, <4>2
        <3>4. cleared.cost \in Nat /\ VirtualCost[b] \in Nat
            BY <2>3, <3>2 DEF PendingInv
        <3> HIDE DEF Total
        <3> QED BY <1>1, <2>9, <3>1, <3>3, <3>4, Limits DEF PendingFits, SatAdd
    <2>10. b \in pending'.items \/ Total(VirtualCost, pending'.items \cup {b}) > MaxPendingCost
        BY <2>4, <2>9 DEF PendingInserted
    <2> QED BY <2>5, <2>7, <2>8, <2>10 DEF K, b
<1>2. IInv /\ [Next]_vars => [Step]_vars
    BY <1>1
<1> HIDE DEF Step
<1>3. Spec => [][Step]_vars
    BY <1>2, InductiveInvariant, PTL DEF Spec
<1> QED BY <1>3 DEF Step, PendingGivesWay

\* What has been active once is not timelocked any more, at the height and time
\* of the chain: a submission is not ahead of the chain, and only one that has
\* found its own bundle's timelocks met goes on to the active pool.
TimelocksMet ==
    /\ \A b \in Active(pool) : ~IsTimelocked(b, height, seconds)
    /\ \A t \in Callers : submissions[t] # Idle =>
        /\ submissions[t].height <= height /\ submissions[t].seconds <= seconds
        /\ At(t, "admit") =>
            ~IsTimelocked(Bundle(t), submissions[t].height, submissions[t].seconds)

\* A timelock that is met stays met.
LEMMA MetForGood ==
    ASSUME NEW b \in Bundles, NEW h \in Nat, NEW s \in Nat,
           NEW later \in Nat, NEW after \in Nat, h <= later, s <= after,
           ~IsTimelocked(b, h, s)
    PROVE  ~IsTimelocked(b, later, after)
<1>1. AssertHeight[b] \in Nat /\ AssertSeconds[b] \in Nat
    BY BundleData
<1> QED BY <1>1 DEF IsTimelocked

\* A step of a call: what it adds to the pool, if anything, is its own bundle.
LEMMA CallKeepsMet ==
    ASSUME IInv, TimelocksMet, NEW t \in Callers, NEW step \in Steps, At(t, step),
           UNCHANGED chain,
           \/ Active(pool') \subseteq Active(pool)
           \/ step = "admit" /\ Active(pool') \subseteq Active(pool) \cup {Bundle(t)},
           \/ Returns(t)
           \/ \E next \in Steps : Goes(t, next) /\ (next = "admit" =>
                ~IsTimelocked(Bundle(t), submissions[t].height, submissions[t].seconds))
    PROVE  TimelocksMet'
<1>1. submissions[t] \in Calling /\ submissions[t] # Idle /\ Bundle(t) \in Bundles
    BY InCall DEF IInv, At, Steps, Idle
<1>2. /\ height \in Nat /\ seconds \in Nat
      /\ submissions[t].height \in Nat /\ submissions[t].seconds \in Nat
      /\ submissions[t].height <= height /\ submissions[t].seconds <= seconds
    BY <1>1 DEF IInv, CallsOK, Calling, TimelocksMet
<1>3. ASSUME step = "admit" PROVE ~IsTimelocked(Bundle(t), height, seconds)
    BY <1>1, <1>2, <1>3, MetForGood DEF TimelocksMet
<1>4. \A b \in Active(pool') : ~IsTimelocked(b, height', seconds')
    BY <1>3 DEF TimelocksMet, chain
<1>5. \A u \in Callers : submissions'[u] # Idle =>
        /\ submissions'[u].height <= height' /\ submissions'[u].seconds <= seconds'
        /\ submissions'[u].at = "admit" =>
            ~IsTimelocked(submissions'[u].bundle,
                          submissions'[u].height, submissions'[u].seconds)
    <2>1. \A u \in Callers \ {t} : submissions'[u] = submissions[u]
        BY DEF Returns, Goes, IInv, CallsOK
    <2>2. CASE Returns(t)
        <3>1. submissions'[t] = Idle
            BY <2>2 DEF Returns, IInv, CallsOK
        <3> QED BY <2>1, <3>1 DEF TimelocksMet, At, Bundle, chain
    <2>3. ASSUME NEW next \in Steps, Goes(t, next), next = "admit" =>
                ~IsTimelocked(Bundle(t), submissions[t].height, submissions[t].seconds)
          PROVE  /\ submissions'[t].height <= height' /\ submissions'[t].seconds <= seconds'
                 /\ submissions'[t].at = "admit" =>
                    ~IsTimelocked(submissions'[t].bundle,
                                  submissions'[t].height, submissions'[t].seconds)
        <3>1. /\ submissions'[t].at = next
              /\ submissions'[t].bundle = Bundle(t)
              /\ submissions'[t].height = submissions[t].height
              /\ submissions'[t].seconds = submissions[t].seconds
            BY <1>1, <2>3 DEF Goes, Bundle, IInv, CallsOK, Calling
        <3> QED BY <1>2, <2>3, <3>1 DEF chain
    <2> QED BY <2>1, <2>2, <2>3 DEF TimelocksMet, At, Bundle, chain
<1> QED BY <1>4, <1>5 DEF TimelocksMet, At, Bundle, Active

\* Every step of submit() leaves it so.
LEMMA SubmitKeepsMet ==
    ASSUME IInv, TimelocksMet, NEW t \in Callers, SubmitStep(t)
    PROVE  TimelocksMet'
<1>0. {"seen", "active", "pending", "conflict", "validate", "queue", "admit"} \subseteq Steps
    BY DEF Steps
<1>1. CASE CheckSeen(t)
    BY <1>0, <1>1, CallKeepsMet DEF CheckSeen
<1>2. CASE CheckActive(t)
    BY <1>0, <1>2, CallKeepsMet DEF CheckActive, structures
<1>3. CASE CheckPending(t)
    BY <1>0, <1>3, CallKeepsMet DEF CheckPending, structures
<1>4. CASE CheckConflict(t)
    BY <1>0, <1>4, CallKeepsMet DEF CheckConflict, structures
<1>5. CASE Validate(t)
    <2>1. \/ Returns(t)
          \/ Goes(t, "queue")
          \/ Goes(t, "admit") /\ ~IsTimelocked(Bundle(t), submissions[t].height,
                                               submissions[t].seconds)
        BY <1>5 DEF Validate, Bundle
    <2>2. At(t, "validate") /\ UNCHANGED chain /\ pool' = pool
        BY <1>5 DEF Validate, structures
    <2>3. "queue" # "admit"
        OBVIOUS
    <2> QED BY <1>0, <2>1, <2>2, <2>3, CallKeepsMet
<1>6. CASE Queue(t)
    BY <1>0, <1>6, CallKeepsMet DEF Queue
<1>7. CASE FindAdmitted(t)
    BY <1>0, <1>7, CallKeepsMet DEF FindAdmitted, structures
<1>8. CASE Refuse(t)
    BY <1>0, <1>8, CallKeepsMet DEF Refuse, Admitting
<1>9. CASE GiveUp(t)
    <2>1. Bundle(t) \in Bundles
        BY <1>0, <1>9, InCall DEF GiveUp, Admitting, IInv
    <2>2. Active(pool') \subseteq Active(pool)
        BY <1>9, <2>1, PreparedOK DEF GiveUp, Remains, IInv, StructuresOK
    <2> QED BY <1>0, <1>9, <2>2, CallKeepsMet DEF GiveUp, Admitting
<1>10. CASE Admit(t)
    <2>1. Bundle(t) \in Bundles
        BY <1>0, <1>10, InCall DEF Admit, Admitting, IInv
    <2>2. PICK q \in Prepared(pool, Bundle(t), submissions[t].height) :
            pool' = Admitted(pool, q, Bundle(t), submissions[t].known)
        BY <1>10 DEF Admit
    <2>3. Active(q) \subseteq Active(pool)
        BY <2>1, <2>2, PreparedOK DEF Remains, IInv, StructuresOK
    <2>4. Active(pool') = Active(q) \cup {Bundle(t)}
        BY <2>2, AdmittedActive
    <2>5. Active(pool') \subseteq Active(pool) \cup {Bundle(t)}
        BY <2>3, <2>4
    <2>6. At(t, "admit") /\ Returns(t) /\ UNCHANGED chain
        BY <1>10 DEF Admit, Admitting
    <2> QED BY <1>0, <2>5, <2>6, CallKeepsMet
<1> QED BY <1>1, <1>2, <1>3, <1>4, <1>5, <1>6, <1>7, <1>8, <1>9, <1>10 DEF SubmitStep

\* Every step leaves it so.
LEMMA NextTimelocksMet ==
    ASSUME IInv, TimelocksMet, [Next]_vars
    PROVE  TimelocksMet'
<1>1. ASSUME NEW t \in Callers, NEW b \in Bundles, Submit(t, b) PROVE TimelocksMet'
    <2>1. /\ submissions'[t].at = "seen"
          /\ submissions'[t].height = height /\ submissions'[t].seconds = seconds
          /\ \A u \in Callers \ {t} : submissions'[u] = submissions[u]
        BY <1>1 DEF Submit, IInv, CallsOK
    <2>2. height \in Nat /\ seconds \in Nat
        BY DEF IInv, CallsOK
    <2> QED BY <1>1, <2>1, <2>2
            DEF Submit, structures, chain, TimelocksMet, At, Bundle, Active
<1>2. ASSUME NEW t \in Callers, SubmitStep(t) PROVE TimelocksMet'
    BY <1>2, SubmitKeepsMet
<1>3. ASSUME UNCHANGED <<submissions, chain>>, Active(pool') \subseteq Active(pool)
      PROVE  TimelocksMet'
    BY <1>3 DEF TimelocksMet, At, Bundle, Active, chain
<1>4. CASE FollowerStep
    <2>1. CASE RemoveSpentAndExpired
        <3> DEFINE r == Cascade(pool, Spenders(pool, follower.spent))
        <3>1. PoolInv(r) /\ Active(r) \subseteq Active(pool)
            BY RemoveAllKeeps DEF Cascade, IInv, StructuresOK
        <3>2. pool' = Cascade(r, {b \in Active(r) : IsExpired(b, height, seconds)})
            BY <2>1 DEF RemoveSpentAndExpired, AfterBlock
        <3> HIDE DEF r
        <3>3. Active(pool') \subseteq Active(pool)
            BY <3>1, <3>2, RemoveAllKeeps DEF Cascade
        <3> QED BY <1>3, <2>1, <3>3 DEF RemoveSpentAndExpired
    <2>2. CASE ForgetSeen \/ Promote \/ CollectRetries \/ RecordBlock
                \/ ClearPending \/ ClearConflict \/ ClearSeen
        BY <1>3, <2>2 DEF ForgetSeen, Promote, CollectRetries, RecordBlock,
                          ClearPending, ClearConflict, ClearSeen, structures
    <2> QED BY <1>4, <2>1, <2>2 DEF FollowerStep
<1>5. ASSUME NEW K \in SUBSET (Bundles \ confirmed), NEW s \in 0..MaxSeconds,
             BlockConfirmed(K, s)
      PROVE  TimelocksMet'
    <2>1. /\ height \in Nat /\ seconds \in Nat /\ s \in Nat
          /\ height' = height + 1 /\ seconds' = s /\ seconds <= s
          /\ pool' = pool /\ submissions' = submissions
        BY <1>5, MempoolEnvironment DEF BlockConfirmed, structures, IInv, CallsOK
    <2>2. \A b \in Active(pool) : ~IsTimelocked(b, height', seconds')
        <3>1. Active(pool) \subseteq Bundles
            BY PoolTypes DEF IInv, StructuresOK, PoolInv
        <3>2. height <= height' /\ seconds <= seconds' /\ height' \in Nat /\ seconds' \in Nat
            BY <2>1
        <3> QED BY <2>1, <3>1, <3>2, MetForGood DEF TimelocksMet
    <2>3. \A t \in Callers : submissions[t] # Idle =>
            submissions[t].height <= height' /\ submissions[t].seconds <= seconds'
        <3>1. \A t \in Callers : submissions[t] # Idle =>
                submissions[t].height \in Nat /\ submissions[t].seconds \in Nat
            BY DEF IInv, CallsOK, Calling
        <3> QED BY <2>1, <3>1 DEF TimelocksMet
    <2> QED BY <2>1, <2>2, <2>3 DEF TimelocksMet, At, Bundle, Active
<1>6. CASE ClearPool
    BY <1>3, <1>6 DEF ClearPool, EmptyPool, Active
<1>7. CASE DrainPending \/ DrainConflict
    BY <1>3, <1>7 DEF DrainPending, DrainConflict
<1>8. CASE UNCHANGED vars
    BY <1>3, <1>8 DEF vars, structures
<1> QED BY <1>1, <1>2, <1>4, <1>5, <1>6, <1>7, <1>8 DEF Next

\* However old the heights and times that callers pass, a block that promotes
\* what has matured leaves no bundle both active and pending.
THEOREM SeparatesTheorem == Spec => PromoteSeparates
<1> DEFINE Step == Promote => Active(pool') \cap pending'.items = {}
<1>1. Init => IInv /\ TimelocksMet
    BY InitIInv DEF Init, TimelocksMet, EmptyPool, Active
<1>2. IInv /\ TimelocksMet /\ [Next]_vars => (IInv /\ TimelocksMet)'
    BY NextIInv, NextTimelocksMet
<1>3. IInv /\ TimelocksMet /\ [Next]_vars => [Step]_vars
    <2> SUFFICES ASSUME TimelocksMet, Promote
                 PROVE  Active(pool') \cap pending'.items = {}
        OBVIOUS
    <2>1. Active(pool') = Active(pool)
        BY DEF Promote, Active
    <2>2. pending'.items = pending.items \ Mature(pending, height, seconds)
        BY DEF Promote, PendingRemoved, Mature
    <2> QED BY <2>1, <2>2 DEF Mature, TimelocksMet
<1> HIDE DEF Step
<1>4. Spec => [][Step]_vars
    BY <1>1, <1>2, <1>3, PTL DEF Spec
<1> QED BY <1>4 DEF Step, PromoteSeparates
=============================================================================
