-------------------------- MODULE ActivePoolProofs --------------------------
(* Theorems about ActivePool, for every set of bundles, configuration and    *)
(* length of history.                                                        *)
EXTENDS ActivePool, AdmissionProofs

-----------------------------------------------------------------------------
(* The inductive invariant: PoolInv adds to the checked invariants that the  *)
(* recorded parents of an item created coins it spends, without which the    *)
(* cycle check could not be shown to be idle; without deduplication, the coin *)
(* index is complete as well, on which conflict detection depends.  No score *)
(* is below the item's own rate: what eviction compares is at least that.    *)
IInv ==
    /\ PoolInv(pool)
    /\ ScoresCoverOwn(pool)
    /\ confirmed \subseteq Bundles
    /\ height \in Nat
    /\ seconds \in Nat
    /\ result \in Answers \ {"DependencyCycle"}
    /\ NoDedup => Indexed(pool)

\* The invariant holds of an empty mempool on a chain without bundles.
LEMMA InitIInv == Init => IInv
BY EmptyPoolInv DEF Init, IInv, Answers, Indexed, EmptyPool, Active, ScoresCoverOwn

\* Every call keeps the invariant.
LEMMA NextIInv == IInv /\ [Next]_vars => IInv'
<1> SUFFICES ASSUME IInv, [Next]_vars PROVE IInv'
    OBVIOUS
<1> USE DEF IInv
<1>1. ASSUME NEW b \in Bundles, SubmitRefused(b) PROVE IInv'
    <2>1. PICK known \in CoinRecords(b) : result' = SubmitError(b, known)
        BY <1>1 DEF SubmitRefused
    <2>2. SubmitError(b, known) # "DependencyCycle"
        BY NoCycle DEF SubmitError, AdmissionError, RbfError
    <2>3. SubmitError(b, known) = "none" \/ SubmitError(b, known) \in Answers
        BY DEF SubmitError, AdmissionError, RbfError, Answers
    <2>4. result' \in Answers
        BY <2>1, <2>3 DEF Answers
    <2> QED BY <1>1, <2>1, <2>2, <2>4 DEF SubmitRefused, chain
<1>2. ASSUME NEW b \in Bundles, SubmitFull(b) PROVE IInv'
    <2>1. PoolInv(pool') /\ ScoresCoverOwn(pool') /\ (NoDedup => Indexed(pool'))
        BY <1>2, PreparedOK DEF SubmitFull, Remains
    <2> QED BY <1>2, <2>1 DEF SubmitFull, chain, Answers
<1>3. ASSUME NEW b \in Bundles, SubmitVetoed(b) PROVE IInv'
    <2>1. PoolInv(pool') /\ ScoresCoverOwn(pool') /\ (NoDedup => Indexed(pool'))
        BY <1>3, PreparedOK DEF SubmitVetoed, Remains
    <2> QED BY <1>3, <2>1 DEF SubmitVetoed, chain, Answers
<1>4. ASSUME NEW b \in Bundles, SubmitAdmitted(b) PROVE IInv'
    <2>1. PICK known \in CoinRecords(b) :
            /\ SubmitError(b, known) = "none"
            /\ \E prepared \in Prepared(pool, b, height) :
                /\ Fits(prepared, b)
                /\ pool' = Admitted(pool, prepared, b, known)
        BY <1>4 DEF SubmitAdmitted
    <2>2. b \notin Active(pool) /\ AdmissionError(pool, b, known) = "none"
        BY <2>1 DEF SubmitError
    <2>3. PoolInv(pool') /\ ScoresCoverOwn(pool')
        BY <2>1, <2>2, AdmittedKeeps, AdmittedCoversOwn
    <2>4. NoDedup => Indexed(pool')
        BY <2>1, <2>2, AdmittedIndexed
    <2> QED BY <1>4, <2>3, <2>4 DEF SubmitAdmitted, chain, Answers
<1>5. ASSUME NEW b \in Bundles, Remove(b) PROVE IInv'
    <2>1. PoolInv(pool') /\ ScoresCoverOwn(pool') /\ (NoDedup => Indexed(pool'))
        BY <1>5, RemoveAllKeeps DEF Remove, Remains
    <2> QED BY <1>5, <2>1 DEF Remove, chain, Answers
<1>6. ASSUME NEW percent \in Percents, EvictLowestPercent(percent) PROVE IInv'
    <2>1. PoolInv(pool') /\ ScoresCoverOwn(pool') /\ (NoDedup => Indexed(pool'))
        BY <1>6, RemoveAllKeeps DEF EvictLowestPercent, Cascade, Remains
    <2> QED BY <1>6, <2>1 DEF EvictLowestPercent, chain, Answers
<1>7. ASSUME NEW K \in SUBSET (Bundles \ confirmed), NEW s \in 0..MaxSeconds,
             NewBlock(K, s)
      PROVE  IInv'
    <2> DEFINE r == Cascade(pool, Spenders(pool, SpentBy(K)))
    <2>1. PoolInv(r) /\ ScoresCoverOwn(r) /\ (NoDedup => Indexed(r))
        BY RemoveAllKeeps DEF Cascade, Remains
    <2> HIDE DEF r
    <2>2. PoolInv(pool') /\ ScoresCoverOwn(pool') /\ (NoDedup => Indexed(pool'))
        BY <1>7, <2>1, RemoveAllKeeps DEF NewBlock, AfterBlock, Cascade, Remains, r
    <2>3. height' \in Nat /\ seconds' \in Nat
        BY <1>7, Environment DEF NewBlock
    <2> QED BY <1>7, <2>2, <2>3 DEF NewBlock, Answers
<1>8. CASE Clear
    <2>1. Indexed(EmptyPool)
        BY DEF Indexed, EmptyPool, Active
    <2>2. ScoresCoverOwn(EmptyPool)
        BY DEF ScoresCoverOwn, EmptyPool, Active
    <2> QED BY <1>8, <2>1, <2>2, EmptyPoolInv DEF Clear, chain, Answers
<1>9. ASSUME NEW rank \in Orders(Active(pool)), Restore(rank) PROVE IInv'
    <2>1. pool' = RefilledPool(pool.items, rank)
        BY <1>9 DEF Restore
    <2>2. PoolInv(pool') /\ (NoDedup => Indexed(pool'))
        BY <2>1, RefilledPoolOK, RefilledIndexes
    <2>3. ScoresCoverOwn(pool')
        <3>1. pool'.items = pool.items
            BY <2>1, RefilledParts
        <3> QED BY <3>1 DEF ScoresCoverOwn, Active, Score
    <2> QED BY <1>9, <2>2, <2>3 DEF Restore, chain, Answers
<1>10. CASE UNCHANGED vars
    BY <1>10 DEF vars
<1> QED BY <1>1, <1>2, <1>3, <1>4, <1>5, <1>6, <1>7, <1>8, <1>9, <1>10
        DEF Next, Submits

\* Every reachable state satisfies the inductive invariant.
THEOREM InductiveInvariant == Spec => []IInv
<1> QED BY InitIInv, NextIInv, PTL DEF Spec

\* The pool keeps its type: whatever calls are made, in whatever order, every
\* map stays a map between bundles and coins, and the accumulators u64s.
THEOREM TypeCorrect == Spec => []TypeOK
<1>1. IInv => TypeOK
    BY DEF IInv, TypeOK, PoolInv
<1> QED BY <1>1, InductiveInvariant, PTL

\* The accumulators of ActivePool are the sums they stand for, so that no
\* saturating subtraction in remove() ever clamps.
THEOREM AccountingTheorem == Spec => []AccountingExact
<1>1. IInv => AccountingExact
    BY DEF IInv, AccountingExact, PoolInv
<1> QED BY <1>1, InductiveInvariant, PTL

\* The pool never holds more virtual cost or more spends than configured.
THEOREM CapacityTheorem == Spec => []CapacityRespected
<1>1. IInv => CapacityRespected
    BY DEF IInv, CapacityRespected, PoolInv
<1> QED BY <1>1, InductiveInvariant, PTL

\* No index of the pool ever dangles.
THEOREM IndexTheorem == Spec => []IndexesResolve
<1>1. IInv => IndexesResolve
    BY DEF IInv, IndexesResolve, PoolInv
<1> QED BY <1>1, InductiveInvariant, PTL

\* submit() never answers DependencyCycle: CPF-004 is defensive.
THEOREM CycleTheorem == Spec => []CycleCheckIdle
<1>1. IInv => CycleCheckIdle
    BY DEF IInv, CycleCheckIdle
<1> QED BY <1>1, InductiveInvariant, PTL

\* A mempool without deduplication never holds two bundles that spend the same
\* coin, whatever was replaced, evicted, orphaned or confirmed before.
THEOREM NoDoubleSpendTheorem ==
    ASSUME NoDedup
    PROVE  Spec => []NoDoubleSpend
<1>1. IInv => NoDoubleSpend
    BY NoDedup, IndexedCompatible DEF IInv, NoDoubleSpend
<1> QED BY <1>1, InductiveInvariant, PTL

-----------------------------------------------------------------------------
(* Cascades.                                                                 *)

\* A cascade takes everything recorded below what it takes, and leaves the
\* children of all others as they were, but for those it took.
LEMMA CascadeEffect ==
    ASSUME NEW p, IsPool(p), NEW S
    PROVE  LET r == Cascade(p, S)
           IN  /\ \A q \in Active(p) \ Active(r) : Children(p, q) \cap Active(r) = {}
               /\ \A q \in Active(r), b \in Active(r) :
                    b \in Children(p, q) => b \in Children(r, q)
<1> DEFINE D == Descendants(p, S)
           r == Cascade(p, S)
           gone == D \cap Active(p)
<1>1. Active(r) = Active(p) \ gone
    BY RemoveAllEffect DEF Cascade
<1>2. \A q \in D : \A b \in Children(p, q) \cap Bundles : b \in D
    BY DEF Descendants, Closure
<1>3. Active(p) \subseteq Bundles
    BY PoolTypes
<1>4. \A q \in Active(r), b \in Active(r) :
        b \in Children(p, q) => b \in Children(r, q)
    <2> SUFFICES ASSUME NEW q \in Active(r), NEW b \in Active(r), b \in Children(p, q)
                 PROVE  b \in Children(r, q)
        OBVIOUS
    <2>1. q \notin gone /\ b \notin gone /\ q \in DOMAIN p.dependents
        BY <1>1 DEF Children
    <2> HIDE DEF D
    <2>2. r = RemoveAll(p, D)
        BY DEF Cascade, D
    <2>3. q \in DOMAIN r.dependents /\ r.dependents[q] = Children(p, q) \ gone
        BY <2>1, <2>2 DEF RemoveAll
    <2> QED BY <2>1, <2>3 DEF Children
<1> HIDE DEF D
<1> QED BY <1>1, <1>2, <1>3, <1>4

\* Blocks and percentage evictions never leave a child of what they remove.
THEOREM CascadeTheorem == Spec => CascadeLeavesNoChild
<1>1. IInv /\ [Next]_vars => [TakesChildrenAlong]_vars
    <2> SUFFICES ASSUME IInv, Next, result' \in {"NewBlock", "Evicted"},
                        NEW q \in Active(pool) \ Active(pool')
                 PROVE  Children(pool, q) \cap Active(pool') = {}
        BY DEF TakesChildrenAlong
    <2>1. IsPool(pool)
        BY DEF IInv, PoolInv
    <2>2. ASSUME NEW percent \in Percents, EvictLowestPercent(percent)
          PROVE  Children(pool, q) \cap Active(pool') = {}
        BY <2>1, <2>2, CascadeEffect DEF EvictLowestPercent
    <2>3. ASSUME NEW K \in SUBSET (Bundles \ confirmed), NEW s \in 0..MaxSeconds,
                 NewBlock(K, s)
          PROVE  Children(pool, q) \cap Active(pool') = {}
        <3> DEFINE r == Cascade(pool, Spenders(pool, SpentBy(K)))
                   late == {b \in Active(r) : IsExpired(b, height + 1, s)}
        <3>1. pool' = Cascade(r, late)
            BY <2>3 DEF NewBlock, AfterBlock
        <3>2. PoolInv(r) /\ IsPool(r)
            BY RemoveAllKeeps DEF IInv, Cascade, PoolInv
        <3>3. Active(pool') \subseteq Active(r)
            <4> HIDE DEF r, late
            <4> QED BY <3>1, <3>2, RemoveAllKeeps DEF Cascade
        <3>4. CASE q \notin Active(r)
            BY <2>1, <3>3, <3>4, CascadeEffect
        <3>5. CASE q \in Active(r)
            <4>1. Children(r, q) \cap Active(pool') = {}
                BY <3>1, <3>2, <3>5, CascadeEffect
            <4>2. \A b \in Active(r) : b \in Children(pool, q) => b \in Children(r, q)
                BY <2>1, <3>5, CascadeEffect
            <4> QED BY <3>3, <4>1, <4>2
        <3> QED BY <3>4, <3>5
    <2>4. \A b \in Bundles : ~(SubmitRefused(b) \/ Submits(b) \/ Remove(b))
        <3> SUFFICES ASSUME NEW b \in Bundles, SubmitRefused(b) PROVE FALSE
            BY DEF Submits, SubmitFull, SubmitVetoed, SubmitAdmitted, Remove
        <3>1. PICK known \in CoinRecords(b) :
                result' = SubmitError(b, known) /\ SubmitError(b, known) # "none"
            BY DEF SubmitRefused
        <3> QED BY <3>1 DEF SubmitError, AdmissionError, RbfError
    <2>5. ~Clear /\ \A rank \in Orders(Active(pool)) : ~Restore(rank)
        BY DEF Clear, Restore
    <2> QED BY <2>2, <2>3, <2>4, <2>5 DEF Next
<1> QED BY <1>1, InductiveInvariant, PTL DEF Spec, CascadeLeavesNoChild

-----------------------------------------------------------------------------
(* Displacement.                                                             *)

\* What sort of step a submission that got past every check is.
Submission(b) ==
    /\ b \in Bundles \ Active(pool)
    /\ \E prepared \in Prepared(pool, b, height) :
        \/ /\ result' = "Success" /\ Fits(prepared, b)
           /\ Active(pool') = Active(prepared) \cup {b}
        \/ result' \in {"MempoolFull", "PolicyRejected"} /\ pool' = prepared

LEMMA SubmitsIsSubmission ==
    ASSUME IInv, NEW b \in Bundles, Submits(b)
    PROVE  Submission(b)
<1>1. CASE SubmitAdmitted(b)
    <2>1. PICK known \in CoinRecords(b), prepared \in Prepared(pool, b, height) :
            /\ SubmitError(b, known) = "none"
            /\ Fits(prepared, b)
            /\ pool' = Admitted(pool, prepared, b, known)
        BY <1>1 DEF SubmitAdmitted
    <2>2. b \notin Active(pool)
        BY <2>1 DEF SubmitError
    <2> QED BY <1>1, <2>1, <2>2, AdmittedActive DEF SubmitAdmitted, Submission
<1>2. CASE SubmitFull(b) \/ SubmitVetoed(b)
    <2>1. PICK prepared \in Prepared(pool, b, height) : pool' = prepared
        BY <1>2 DEF SubmitFull, SubmitVetoed
    <2>2. PICK known \in CoinRecords(b) : SubmitError(b, known) = "none"
        BY <1>2 DEF SubmitFull, SubmitVetoed
    <2>3. b \notin Active(pool)
        BY <2>2 DEF SubmitError
    <2> QED BY <1>2, <2>1, <2>3 DEF SubmitFull, SubmitVetoed, Submission
<1> QED BY <1>1, <1>2 DEF Submits

\* No other call answers Success.
LEMMA SuccessIsSubmission ==
    ASSUME IInv, Next, result' = "Success"
    PROVE  \E b \in Bundles : Submission(b)
<1>1. ASSUME NEW b \in Bundles, SubmitRefused(b) PROVE FALSE
    <2>1. PICK known \in CoinRecords(b) :
            result' = SubmitError(b, known) /\ SubmitError(b, known) # "none"
        BY <1>1 DEF SubmitRefused
    <2> QED BY <2>1 DEF SubmitError, AdmissionError, RbfError
<1>2. ASSUME NEW b \in Bundles, Remove(b) PROVE FALSE
    BY <1>2 DEF Remove
<1>3. ASSUME NEW percent \in Percents, EvictLowestPercent(percent) PROVE FALSE
    BY <1>3 DEF EvictLowestPercent
<1>4. ASSUME NEW K \in SUBSET (Bundles \ confirmed), NEW s \in 0..MaxSeconds,
             NewBlock(K, s)
      PROVE  FALSE
    BY <1>4 DEF NewBlock
<1>5. ~Clear /\ \A rank \in Orders(Active(pool)) : ~Restore(rank)
    BY DEF Clear, Restore
<1> QED BY <1>1, <1>2, <1>3, <1>4, <1>5, SubmitsIsSubmission DEF Next

\* What a submission displaces beyond the bundles it replaces and those below
\* them, it displaces in order.
LEMMA SubmissionInOrder ==
    ASSUME IInv, NEW b, Submission(b)
    PROVE  /\ b \in Bundles \ Active(pool)
           /\ Active(pool') \ Active(pool) = IF result' = "Success" THEN {b} ELSE {}
           /\ Active(Cascade(pool, Conflicts(pool, b)))
                = Active(pool) \ Descendants(pool, Conflicts(pool, b))
           /\ DisplacedInOrder(Cascade(pool, Conflicts(pool, b)), pool', b, height)
<1> DEFINE left == Cascade(pool, Conflicts(pool, b))
<1>1. PICK prepared \in Prepared(pool, b, height) :
        \/ result' = "Success" /\ Active(pool') = Active(prepared) \cup {b}
        \/ result' \in {"MempoolFull", "PolicyRejected"} /\ pool' = prepared
    BY DEF Submission
<1>2. b \in Bundles /\ b \notin Active(pool)
    BY DEF Submission
<1>3. PoolInv(left) /\ Active(left) = Active(pool) \ Descendants(pool, Conflicts(pool, b))
    BY RemoveAllKeeps DEF IInv, Cascade
<1>4. prepared \in MakeRoom(left, b, height)
    BY <1>1 DEF Prepared
<1> HIDE DEF left
<1>5. DisplacedInOrder(left, prepared, b, height)
    BY <1>2, <1>3, <1>4, MakeRoomInOrder
<1>6. Active(prepared) \subseteq Active(pool)
    BY <1>2, PreparedOK DEF IInv, Remains
<1>7. Active(left) \ Active(pool') = Active(left) \ Active(prepared)
    BY <1>1, <1>2, <1>3
<1>8. DisplacedInOrder(left, pool', b, height)
    BY <1>5, <1>7 DEF DisplacedInOrder
<1> QED BY <1>1, <1>2, <1>3, <1>6, <1>8 DEF left

\* A submission displaces the lowest scores first, and only scores below its
\* own rate, whatever becomes of it and in every pool that any history leads to.
THEOREM DisplacementTheorem == Spec => DisplacesLowestFirst
<1> DEFINE InOrder ==
        \A b \in Bundles : Submits(b) =>
            DisplacedInOrder(Cascade(pool, Conflicts(pool, b)), pool', b, height)
<1>1. IInv /\ [Next]_vars => [InOrder]_vars
    BY SubmitsIsSubmission, SubmissionInOrder
<1> HIDE DEF InOrder
<1>2. Spec => [][InOrder]_vars
    BY <1>1, InductiveInvariant, PTL DEF Spec
<1> QED BY <1>2 DEF DisplacesLowestFirst, InOrder

\* What is recorded below a set is recorded below one of its members.
LEMMA DescendantsOfOne ==
    ASSUME NEW p, IsPool(p), NEW S \in SUBSET Bundles
    PROVE  \A d \in Descendants(p, S) : \E a \in S : d \in Descendants(p, {a})
<1> DEFINE below == {d \in Bundles : \E a \in S : d \in Descendants(p, {a})}
<1>1. \A a \in S : a \in Descendants(p, {a})
    BY DEF Descendants, Closure
<1>2. \A a \in S : \A t \in Descendants(p, {a}) : Children(p, t) \subseteq Descendants(p, {a})
    <2> SUFFICES ASSUME NEW a \in S, NEW t \in Descendants(p, {a}), NEW c \in Children(p, t)
                 PROVE  c \in Descendants(p, {a})
        OBVIOUS
    <2>1. t \in Bundles /\ c \in Bundles
        BY PoolTypes DEF Descendants, Closure
    <2> QED BY <2>1 DEF Descendants, Closure
<1>3. \A t \in below : Children(p, t) \subseteq below
    <2> SUFFICES ASSUME NEW t \in below, NEW c \in Children(p, t) PROVE c \in below
        OBVIOUS
    <2>1. PICK a \in S : t \in Descendants(p, {a})
        OBVIOUS
    <2>2. c \in Descendants(p, {a}) /\ c \in Bundles
        BY <1>2, <2>1, PoolTypes
    <2> QED BY <2>2
<1>4. S \subseteq below /\ below \in SUBSET Bundles
    BY <1>1
<1>5. Descendants(p, S) \subseteq below
    <2> HIDE DEF below
    <2> QED BY <1>3, <1>4 DEF Descendants, Closure
<1> QED BY <1>5

\* What goes in a percentage eviction: unprotected items, lowest scores first,
\* and what is below them.
LEMMA EvictedAre ==
    ASSUME IInv, NEW percent \in Percents, EvictLowestPercent(percent)
    PROVE  LET gone == Active(pool) \ Active(pool')
               open == {b \in Active(pool) : ~IsProtected(b, height)}
               Freed(V) == Total(VirtualCost, Descendants(pool, V) \cap Active(pool))
           IN  \E V \in SUBSET open :
                /\ gone = Descendants(pool, V) \cap Active(pool)
                /\ V \subseteq gone
                /\ \/ V = {} /\ Share(percent) = 0
                   \/ V = open /\ ~(Freed(V) >= Share(percent))
                   \/ /\ Freed(V) >= Share(percent)
                      /\ \A e \in V, u \in open \ V : Score(pool, e) <= Score(pool, u)
                      /\ \E last \in V : ~(Freed(V \ {last}) >= Share(percent))
<1> DEFINE open == {b \in Active(pool) : ~IsProtected(b, height)}
           Freed(V) == Total(VirtualCost, Descendants(pool, V) \cap Active(pool))
           Frees(V) == Freed(V) >= Share(percent)
<1>1. PICK V \in PercentVictims(percent) : pool' = Cascade(pool, V)
    BY DEF EvictLowestPercent
<1>2. IF Share(percent) = 0 THEN V = {} ELSE V \in LowestFirst(pool, open, LAMBDA E : Frees(E))
    BY <1>1 DEF PercentVictims
<1> HIDE DEF Frees
<1>3. /\ V \in SUBSET open
      /\ \/ V = {} /\ Share(percent) = 0
         \/ V = open /\ ~Frees(V)
         \/ /\ Frees(V)
            /\ \A e \in V, u \in open \ V : Score(pool, e) <= Score(pool, u)
            /\ \E last \in V : ~Frees(V \ {last})
    BY <1>2 DEF LowestFirst
<1>4. Active(pool') = Active(pool) \ (Descendants(pool, V) \cap Active(pool))
    BY <1>1, RemoveAllEffect DEF Cascade, IInv, PoolInv
<1>5. V \subseteq Descendants(pool, V)
    <2>1. V \subseteq Bundles
        BY <1>3, PoolTypes DEF IInv, PoolInv
    <2> QED BY <2>1 DEF Descendants, Closure
<1> QED BY <1>3, <1>4, <1>5 DEF Frees

\* An item close to its deadline makes room only for one that is close to its
\* own, whether or not that one gets in (POL-003), and nothing but a block, its
\* removal by name or an item above it takes it otherwise.
THEOREM ProtectionTheorem == Spec => ProtectedDisplacedByProtected
<1> DEFINE Guarded ==
        \A d \in Active(pool) \ Active(pool') : IsProtected(d, height) =>
            \/ \E b \in Bundles :
                /\ Submits(b)
                /\ \/ IsProtected(b, height)
                   \/ d \in Descendants(pool, Conflicts(pool, b))
            \/ /\ result' = "Evicted"
               /\ \E a \in Active(pool) \ Active(pool') :
                    ~IsProtected(a, height) /\ d \in Descendants(pool, {a})
            \/ result' \in {"Removed", "NewBlock", "Cleared"}
<1>1. IInv /\ [Next]_vars => [Guarded]_vars
    <2> SUFFICES ASSUME IInv, Next,
                        NEW d \in Active(pool) \ Active(pool'), IsProtected(d, height)
                 PROVE  \/ \E b \in Bundles :
                            /\ Submits(b)
                            /\ \/ IsProtected(b, height)
                               \/ d \in Descendants(pool, Conflicts(pool, b))
                        \/ /\ result' = "Evicted"
                           /\ \E a \in Active(pool) \ Active(pool') :
                                ~IsProtected(a, height) /\ d \in Descendants(pool, {a})
                        \/ result' \in {"Removed", "NewBlock", "Cleared"}
        OBVIOUS
    <2>1. ASSUME NEW b \in Bundles, Submits(b)
          PROVE  IsProtected(b, height) \/ d \in Descendants(pool, Conflicts(pool, b))
        <3> DEFINE left == Cascade(pool, Conflicts(pool, b))
        <3>1. /\ Active(left) = Active(pool) \ Descendants(pool, Conflicts(pool, b))
              /\ DisplacedInOrder(left, pool', b, height)
            BY <2>1, SubmitsIsSubmission, SubmissionInOrder
        <3>2. d \in Active(left) => IsProtected(b, height)
            BY <3>1 DEF DisplacedInOrder
        <3> QED BY <3>1, <3>2
    <2>2. ASSUME NEW percent \in Percents, EvictLowestPercent(percent)
          PROVE  \E a \in Active(pool) \ Active(pool') :
                    ~IsProtected(a, height) /\ d \in Descendants(pool, {a})
        <3>1. PICK V \in SUBSET {b \in Active(pool) : ~IsProtected(b, height)} :
                /\ Active(pool) \ Active(pool') = Descendants(pool, V) \cap Active(pool)
                /\ V \subseteq Active(pool) \ Active(pool')
            BY <2>2, EvictedAre
        <3>2. IsPool(pool) /\ V \in SUBSET Bundles
            BY <3>1, PoolTypes DEF IInv, PoolInv
        <3>3. PICK a \in V : d \in Descendants(pool, {a})
            BY <3>1, <3>2, DescendantsOfOne
        <3> QED BY <3>1, <3>3
    <2>3. ASSUME NEW b \in Bundles, Remove(b) PROVE result' = "Removed"
        <3>1. Active(pool') = Active(pool) \ {b}
            BY <2>3, RemoveAllKeeps DEF Remove, IInv
        <3> QED BY <2>3, <3>1 DEF Remove
    <2>4. ASSUME NEW b \in Bundles, SubmitRefused(b) PROVE FALSE
        BY <2>4 DEF SubmitRefused
    <2>5. ASSUME NEW rank \in Orders(Active(pool)), Restore(rank) PROVE FALSE
        BY <2>5, RefilledParts DEF Restore, Active
    <2> QED BY <2>1, <2>2, <2>3, <2>4, <2>5
            DEF Next, EvictLowestPercent, NewBlock, Clear
<1> HIDE DEF Guarded
<1>2. Spec => [][Guarded]_vars
    BY <1>1, InductiveInvariant, PTL DEF Spec
<1> QED BY <1>2 DEF ProtectedDisplacedByProtected, Guarded

\* What a set and those below it cost grows with the set.
LEMMA FreedMonotone ==
    ASSUME IInv, NEW S \in SUBSET Active(pool), NEW T \in SUBSET S
    PROVE  /\ Total(VirtualCost, S) \in Nat /\ Total(VirtualCost, T) \in Nat
           /\ Total(VirtualCost, T) <= Total(VirtualCost, S)
<1>1. IsFiniteSet(S) /\ IsFiniteSet(T) /\ \A b \in S : VirtualCost[b] \in Nat
    BY PoolTypes, FS_Subset, DataTypes DEF IInv, PoolInv
<1> QED BY <1>1, TotalNat, TotalRemove

\* A percentage eviction stops as soon as it has freed its share, and frees it
\* unless it runs out of unprotected items.
THEOREM EvictionTheorem == Spec => EvictionFreesShare
<1> DEFINE gone == Active(pool) \ Active(pool')
           open == {b \in Active(pool) : ~IsProtected(b, height)}
           FreesShare ==
                \A percent \in Percents : EvictLowestPercent(percent) =>
                    /\ \/ Total(VirtualCost, gone) >= Share(percent)
                       \/ open \subseteq gone
                    /\ gone = {} \/ \E last \in gone \cap open :
                        Total(VirtualCost, gone \ Descendants(pool, {last}))
                            < Share(percent)
                    /\ \A d \in gone, kept \in open \ gone :
                        \/ Score(pool, d) <= Score(pool, kept)
                        \/ \E a \in gone \ {d} : d \in Descendants(pool, {a})
<1>1. IInv /\ [Next]_vars => [FreesShare]_vars
    <2> SUFFICES ASSUME IInv, NEW percent \in Percents, EvictLowestPercent(percent)
                 PROVE  /\ \/ Total(VirtualCost, gone) >= Share(percent)
                           \/ open \subseteq gone
                        /\ gone = {} \/ \E last \in gone \cap open :
                            Total(VirtualCost, gone \ Descendants(pool, {last}))
                                < Share(percent)
                        /\ \A d \in gone, kept \in open \ gone :
                            \/ Score(pool, d) <= Score(pool, kept)
                            \/ \E a \in gone \ {d} : d \in Descendants(pool, {a})
        OBVIOUS
    <2> DEFINE Freed(V) == Total(VirtualCost, Descendants(pool, V) \cap Active(pool))
    <2>1. PICK V \in SUBSET open :
            /\ gone = Descendants(pool, V) \cap Active(pool)
            /\ V \subseteq gone
            /\ \/ V = {} /\ Share(percent) = 0
               \/ V = open /\ ~(Freed(V) >= Share(percent))
               \/ /\ Freed(V) >= Share(percent)
                  /\ \A e \in V, u \in open \ V : Score(pool, e) <= Score(pool, u)
                  /\ \E last \in V : ~(Freed(V \ {last}) >= Share(percent))
        BY EvictedAre
    <2>2. IsPool(pool) /\ open \in SUBSET Bundles /\ V \in SUBSET Bundles
        BY PoolTypes DEF IInv, PoolInv
    <2>3. \A d \in gone : \E a \in V : d \in Descendants(pool, {a})
        BY <2>1, <2>2, DescendantsOfOne
    <2>4. Share(percent) \in Nat
        <3>1. pool.totalCost \in Nat /\ MaxU64 \in Nat /\ percent \in Nat
            BY BundleData, Environment DEF IInv, PoolInv, IsPool
        <3> DEFINE n == pool.totalCost * percent
        <3>2. n \in Nat
            BY <3>1
        <3> HIDE DEF n
        <3>3. (IF n > MaxU64 THEN MaxU64 ELSE n) \div 100 \in Nat
            BY <3>1, <3>2
        <3> QED BY <3>3 DEF Share, SatMul, n
    <2>5. gone = {} \/ V # {}
        BY <2>3
    <2>6. Total(VirtualCost, gone) = Freed(V)
        BY <2>1
    <2>7. ASSUME NEW last \in V, NEW U \in SUBSET V, V \subseteq U \cup {last},
                 ~(Freed(U) >= Share(percent))
          PROVE  Total(VirtualCost, gone \ Descendants(pool, {last})) < Share(percent)
        <3> DEFINE rest == gone \ Descendants(pool, {last})
                   S == Descendants(pool, U) \cap Active(pool)
        <3>1. \A d \in rest : d \in Descendants(pool, U)
            <4> SUFFICES ASSUME NEW d \in rest PROVE d \in Descendants(pool, U)
                OBVIOUS
            <4>1. PICK a \in V : d \in Descendants(pool, {a})
                BY <2>3
            <4>2. a \in U /\ d \in Bundles
                BY <4>1, <2>7 DEF Descendants, Closure
            <4> QED BY <4>1, <4>2 DEF Descendants, Closure
        <3>2. rest \in SUBSET S /\ S \in SUBSET Active(pool)
            BY <3>1
        <3>3. /\ Total(VirtualCost, S) \in Nat /\ Total(VirtualCost, rest) \in Nat
              /\ Total(VirtualCost, rest) <= Total(VirtualCost, S)
            <4> HIDE DEF S, rest
            <4> QED BY <3>2, FreedMonotone
        <3>4. ~(Total(VirtualCost, S) >= Share(percent))
            BY <2>7
        <3> HIDE DEF S
        <3> QED BY <2>4, <3>3, <3>4
    <2>8. \A d \in gone, kept \in open \ gone :
            \/ Score(pool, d) <= Score(pool, kept)
            \/ \E a \in gone \ {d} : d \in Descendants(pool, {a})
        <3> SUFFICES ASSUME NEW d \in gone, NEW kept \in open \ gone, d \in V
                     PROVE  Score(pool, d) <= Score(pool, kept)
            BY <2>1, <2>3
        <3> QED BY <2>1
    <2>9. gone = {} \/ \E last \in gone \cap open :
            Total(VirtualCost, gone \ Descendants(pool, {last})) < Share(percent)
        <3>1. CASE V = {}
            BY <2>5, <3>1
        <3>2. CASE V # {} /\ ~(Freed(V) >= Share(percent))
            <4>1. PICK last \in V : TRUE
                BY <3>2
            <4> HIDE DEF gone, open, Freed
            <4> QED BY <2>1, <2>7, <3>2, <4>1
        <3>3. CASE \E last \in V : ~(Freed(V \ {last}) >= Share(percent))
            <4>1. PICK last \in V : ~(Freed(V \ {last}) >= Share(percent))
                BY <3>3
            <4>2. V \ {last} \in SUBSET V /\ V \subseteq (V \ {last}) \cup {last}
                OBVIOUS
            <4> HIDE DEF gone, open, Freed
            <4> QED BY <2>1, <2>7, <4>1, <4>2
        <3> HIDE DEF gone, open, Freed
        <3> QED BY <2>1, <3>1, <3>2, <3>3
    <2>10. Total(VirtualCost, gone) >= Share(percent) \/ open \subseteq gone
        <3>1. CASE V = {} /\ Share(percent) = 0
            <4>1. gone \in SUBSET Active(pool)
                OBVIOUS
            <4>2. Total(VirtualCost, gone) \in Nat
                <5> HIDE DEF gone
                <5> QED BY <4>1, FreedMonotone
            <4> QED BY <3>1, <4>2
        <3> HIDE DEF gone, open, Freed
        <3> QED BY <2>1, <2>6, <3>1
    <2> QED BY <2>8, <2>9, <2>10
<1> HIDE DEF FreesShare
<1>2. Spec => [][FreesShare]_vars
    BY <1>1, InductiveInvariant, PTL DEF Spec
<1> QED BY <1>2 DEF EvictionFreesShare, FreesShare

\* The half of "descendant score: >= own FPC and >= any descendant's package
\* FPC" that holds: no removal, recomputation or raise leaves a score below
\* the item's own rate.
THEOREM ScoreFloorTheorem == Spec => []ScoresCoverOwn(pool)
<1>1. IInv => ScoresCoverOwn(pool)
    BY DEF IInv
<1> QED BY <1>1, InductiveInvariant, PTL

\* A bundle that replaces nothing and has a cost gets into a full pool only at
\* the cost of an item with a lower rate.
LEMMA FullPoolIsBeaten ==
    ASSUME IInv, NEW b, Submission(b), result' = "Success",
           Conflicts(pool, b) = {}, pool.totalCost >= MaxTotalCost, VirtualCost[b] # 0
    PROVE  \E d \in Active(pool) : OwnFeeRate(d) < OwnFeeRate(b)
<1> DEFINE left == Cascade(pool, {})
           open == {a \in Active(left) : ~IsProtected(a, height)}
           rest == RemoveAll(left, (Active(left) \ Active(pool')) \cap open)
<1>1. PICK prepared \in Prepared(pool, b, height) :
        Fits(prepared, b) /\ Active(pool') = Active(prepared) \cup {b}
    BY DEF Submission
<1>2. b \in Bundles /\ b \notin Active(pool)
    BY DEF Submission
<1>3. Descendants(pool, {}) = {}
    <2>1. {} \in SUBSET Bundles
        OBVIOUS
    <2> QED BY <2>1 DEF Descendants, Closure
<1>4. PoolInv(left) /\ ScoresCoverOwn(left) /\ Active(left) = Active(pool)
    <2>1. left = RemoveAll(pool, {})
        BY <1>3 DEF Cascade
    <2> HIDE DEF left
    <2>2. Active(left) = Active(pool) \ {} /\ Remains(pool, left)
        BY <2>1, RemoveAllKeeps DEF IInv
    <2> QED BY <2>2 DEF IInv, Remains
<1>5. DisplacedInOrder(left, pool', b, height)
    BY SubmissionInOrder
<1> HIDE DEF left
<1>6. PoolInv(prepared) /\ Active(prepared) \subseteq Active(pool)
    BY <1>2, PreparedOK DEF IInv, Remains
<1>7. Active(prepared) # Active(pool)
    <2>1. pool.totalCost = Total(VirtualCost, Active(pool))
          /\ prepared.totalCost = Total(VirtualCost, Active(prepared))
        BY <1>6 DEF IInv, PoolInv, Accounts
    <2>2. prepared.totalCost \in Nat /\ VirtualCost[b] \in Nat /\ MaxU64 \in Nat
          /\ MaxTotalCost \in Nat /\ MaxTotalCost < MaxU64
        BY <1>2, <1>6, DataTypes, LimitsFit DEF PoolInv, IsPool
    <2>3. prepared.totalCost < MaxTotalCost
        BY <1>1, <2>2 DEF Fits, SatAdd
    <2> QED BY <2>1, <2>2, <2>3
<1>8. PICK d \in Active(left) : d \notin Active(pool')
    BY <1>1, <1>2, <1>4, <1>6, <1>7
<1>9. d \in Bundles /\ PoolInv(rest) /\ ScoresCoverOwn(rest)
      /\ (d \notin open => d \in Active(rest))
    <2>1. Active(left) \subseteq Bundles
        BY <1>4, PoolTypes DEF PoolInv
    <2> HIDE DEF open
    <2> QED BY <1>4, <1>8, <2>1, RemoveAllKeeps DEF Remains
<1>10. Score(IF d \in open THEN left ELSE rest, d) < OwnFeeRate(b)
    BY <1>5, <1>8 DEF DisplacedInOrder
<1> HIDE DEF open, rest
<1>11. /\ d \in open => Score(left, d) >= OwnFeeRate(d) /\ Score(left, d) \in Nat
       /\ d \notin open => Score(rest, d) >= OwnFeeRate(d) /\ Score(rest, d) \in Nat
    BY <1>4, <1>8, <1>9, PoolTypes DEF PoolInv, ScoresCoverOwn, Score, ItemType
<1>12. OwnFeeRate(d) \in Nat /\ OwnFeeRate(b) \in Nat
    BY <1>2, <1>9, DataTypes
<1> QED BY <1>4, <1>10, <1>11, <1>12

-----------------------------------------------------------------------------
(* Nothing stale, in a mempool without deduplication.                        *)

\* The chain has only spent coins that existed, and nothing active is stale.
Fresh ==
    /\ SpentBy(confirmed) \subseteq Genesis \cup CreatedBy(confirmed)
    /\ NothingStale

\* The coins that active bundles create have not been spent on chain: whoever
\* created them there as well would have spent a coin of the active bundle.
LEMMA CreatedCoinsFresh ==
    ASSUME IInv, Fresh
    PROVE  DOMAIN pool.mempoolCoins \cap SpentBy(confirmed) = {}
<1> SUFFICES ASSUME NEW c \in DOMAIN pool.mempoolCoins, c \in SpentBy(confirmed)
             PROVE  FALSE
    OBVIOUS
<1>1. PICK q \in Active(pool) : c \in Additions[q]
    BY DEF IInv, PoolInv, Resolves
<1>2. q \in Bundles /\ confirmed \subseteq Bundles
    BY PoolTypes DEF IInv, PoolInv
<1>3. PICK k \in confirmed : c \in Additions[k]
    BY <1>1, <1>2, GenesisFirst DEF Fresh, CreatedBy
<1>4. Removals[k] \cap Removals[q] # {}
    BY <1>1, <1>2, <1>3, CreatedByOneSpend
<1> QED BY <1>1, <1>3, <1>4 DEF Fresh, NothingStale, SpentBy

\* What a call that submits b passes and finds is unspent on chain.
LEMMA AdmittedFresh ==
    ASSUME IInv, Fresh, NEW b \in Bundles, NEW known \in CoinRecords(b),
           SubmitError(b, known) = "none"
    PROVE  Removals[b] \cap SpentBy(confirmed) = {} /\ ~IsExpired(b, height, seconds)
<1>1. Removals[b] \subseteq known \cup DOMAIN pool.mempoolCoins
    BY DEF SubmitError, MissingCoins
<1>2. known \subseteq Unspent(confirmed) \cup DOMAIN pool.mempoolCoins
    BY DEF CoinRecords
<1>3. Unspent(confirmed) \cap SpentBy(confirmed) = {}
    BY DEF Unspent
<1>4. ~IsExpired(b, height, seconds)
    BY DEF SubmitError
<1> QED BY <1>1, <1>2, <1>3, <1>4, CreatedCoinsFresh

\* A block leaves nothing stale: whatever spends a coin it spent is indexed
\* for that coin.
LEMMA BlockFresh ==
    ASSUME NoDedup, IInv, Fresh, NEW K \in SUBSET (Bundles \ confirmed),
           NEW s \in 0..MaxSeconds, NewBlock(K, s)
    PROVE  Fresh'
<1> DEFINE spenders == Spenders(pool, SpentBy(K))
           r == Cascade(pool, spenders)
           late == {b \in Active(r) : IsExpired(b, height + 1, s)}
<1>1. pool' = Cascade(r, late) /\ confirmed' = confirmed \cup K
      /\ height' = height + 1 /\ seconds' = s
    BY DEF NewBlock, AfterBlock
<1>2. PoolInv(r) /\ Active(r) = Active(pool) \ Descendants(pool, spenders)
    BY RemoveAllKeeps DEF IInv, Cascade
<1>3. Active(pool') = Active(r) \ Descendants(r, late)
    BY <1>1, <1>2, RemoveAllKeeps DEF Cascade
<1>4. Active(pool) \subseteq Bundles
    BY PoolTypes DEF IInv, PoolInv
<1>5. SpentBy(confirmed') = SpentBy(confirmed) \cup SpentBy(K)
      /\ CreatedBy(confirmed') = CreatedBy(confirmed) \cup CreatedBy(K)
    BY <1>1 DEF SpentBy, CreatedBy
<1>6. SpentBy(confirmed') \subseteq Genesis \cup CreatedBy(confirmed')
    BY <1>5 DEF NewBlock, ValidBlock, Unspent, Fresh
<1>7. ASSUME NEW b \in Active(pool')
      PROVE  Removals[b] \cap SpentBy(confirmed') = {}
    <2>1. b \in Active(pool) /\ b \in Bundles /\ b \notin Descendants(pool, spenders)
        BY <1>2, <1>3, <1>4
    <2>2. b \notin spenders
        BY <2>1 DEF Descendants, Closure
    <2>3. \A c \in Removals[b] : c \in DOMAIN pool.coinIndex /\ pool.coinIndex[c] = b
        BY <2>1, NoDedup DEF IInv, Indexed
    <2>4. Removals[b] \cap SpentBy(K) = {}
        BY <2>2, <2>3 DEF Spenders
    <2>5. Removals[b] \cap SpentBy(confirmed) = {}
        BY <2>1 DEF Fresh, NothingStale
    <2> QED BY <1>5, <2>4, <2>5
<1>8. ASSUME NEW b \in Active(pool') PROVE ~IsExpired(b, height', seconds')
    <2>1. b \in Active(r) /\ b \in Bundles /\ b \notin Descendants(r, late)
        BY <1>2, <1>3, <1>4
    <2>2. b \notin late
        BY <2>1 DEF Descendants, Closure
    <2> QED BY <1>1, <2>1, <2>2
<1> HIDE DEF r
<1> QED BY <1>6, <1>7, <1>8 DEF Fresh, NothingStale

\* Every call keeps everything fresh.
LEMMA NextFresh ==
    ASSUME NoDedup
    PROVE  IInv /\ Fresh /\ [Next]_vars => Fresh'
<1> SUFFICES ASSUME IInv, Fresh, [Next]_vars PROVE Fresh'
    OBVIOUS
<1>1. ASSUME UNCHANGED chain, Active(pool') \subseteq Active(pool) PROVE Fresh'
    BY <1>1 DEF Fresh, NothingStale, chain
<1>2. ASSUME NEW b \in Bundles, SubmitRefused(b) PROVE Fresh'
    BY <1>1, <1>2 DEF SubmitRefused
<1>3. ASSUME NEW b \in Bundles, SubmitFull(b) PROVE Fresh'
    BY <1>1, <1>3, PreparedOK DEF SubmitFull, Remains, IInv
<1>4. ASSUME NEW b \in Bundles, SubmitVetoed(b) PROVE Fresh'
    BY <1>1, <1>4, PreparedOK DEF SubmitVetoed, Remains, IInv
<1>5. ASSUME NEW b \in Bundles, SubmitAdmitted(b) PROVE Fresh'
    <2>1. PICK known \in CoinRecords(b), q \in Prepared(pool, b, height) :
            SubmitError(b, known) = "none" /\ pool' = Admitted(pool, q, b, known)
        BY <1>5 DEF SubmitAdmitted
    <2>2. IsPool(q) /\ Active(q) \subseteq Active(pool)
        BY PreparedOK DEF Remains, IInv, PoolInv
    <2>3. b \notin Active(q) /\ NewItem(pool, b, known) \in ItemType
        BY <2>1, <2>2, NewItemOK DEF SubmitError, IInv
    <2>4. Active(pool') = Active(q) \cup {b}
        BY <2>1, <2>2, <2>3, InsertEffect DEF Admitted, InsertedInto
    <2>5. Removals[b] \cap SpentBy(confirmed) = {} /\ ~IsExpired(b, height, seconds)
        BY <2>1, AdmittedFresh
    <2>6. UNCHANGED chain
        BY <1>5 DEF SubmitAdmitted
    <2> QED BY <2>2, <2>4, <2>5, <2>6 DEF Fresh, NothingStale, chain
<1>6. ASSUME NEW b \in Bundles, Remove(b) PROVE Fresh'
    BY <1>1, <1>6, RemoveAllKeeps DEF Remove, IInv
<1>7. ASSUME NEW percent \in Percents, EvictLowestPercent(percent) PROVE Fresh'
    BY <1>1, <1>7, RemoveAllKeeps DEF EvictLowestPercent, Cascade, IInv
<1>8. ASSUME NEW K \in SUBSET (Bundles \ confirmed), NEW s \in 0..MaxSeconds,
             NewBlock(K, s)
      PROVE  Fresh'
    BY <1>8, NoDedup, BlockFresh
<1>9. CASE Clear
    <2>1. Active(pool') = {}
        BY <1>9 DEF Clear, EmptyPool, Active
    <2> QED BY <1>1, <1>9, <2>1 DEF Clear
<1>10. ASSUME NEW rank \in Orders(Active(pool)), Restore(rank) PROVE Fresh'
    BY <1>1, <1>10, RefilledParts DEF Restore, Active
<1>11. CASE UNCHANGED vars
    BY <1>1, <1>11 DEF vars, chain
<1> QED BY <1>2, <1>3, <1>4, <1>5, <1>6, <1>7, <1>8, <1>9, <1>10, <1>11
        DEF Next, Submits

\* A mempool without deduplication never keeps a bundle that can no longer be
\* put in a block because a coin of it is spent or a deadline of it has passed.
THEOREM NothingStaleTheorem ==
    ASSUME NoDedup
    PROVE  Spec => []NothingStale
<1>1. Init => Fresh
    BY DEF Init, Fresh, NothingStale, SpentBy, EmptyPool, Active
<1>2. IInv /\ Fresh /\ [Next]_vars => Fresh'
    BY NoDedup, NextFresh
<1>3. Fresh => NothingStale
    BY DEF Fresh
<1> QED BY <1>1, <1>2, <1>3, InductiveInvariant, PTL DEF Spec
=============================================================================
