--------------------------- MODULE RestartProofs ---------------------------
(* Theorems about Restart: a snapshot that was taken part by part and is     *)
(* restored at any later time, in any order of its items, leaves the         *)
(* structures as consistent as those it was read from.                       *)
EXTENDS Restart, MempoolProofs

\* The active pool as the invariant of Mempool has it.
PoolOK(p) == PoolInv(p) /\ (NoDedup => Indexed(p))

-----------------------------------------------------------------------------
(* What insert() builds out of the items of a consistent structure.          *)

\* The pending pool comes out as it was, ...
LEMMA RefilledPendingOK ==
    ASSUME NEW p, PendingInv(p), NEW rank \in Orders(p.items)
    PROVE  LET q == RefilledPending(p.items, rank)
           IN  PendingInv(q) /\ q.coinIndex = p.coinIndex /\ q.cost = p.cost
<1> DEFINE q == RefilledPending(p.items, rank)
<1>1. /\ q.items = p.items
      /\ q.coinIndex = Latest(p.items, Removals, rank)
      /\ q.cost = SatAdd(0, Total(VirtualCost, p.items))
    BY DEF RefilledPending
<1> HIDE DEF q
<1>2. p.items \in SUBSET Bundles
    BY DEF PendingInv
<1>3. q.cost = p.cost
    BY <1>1, <1>2, SumUnclamped, BundleSets, Limits DEF PendingInv
<1>4. DOMAIN q.coinIndex = DOMAIN p.coinIndex
    BY <1>1 DEF Latest, PendingInv, SpentBy
<1>5. \A c \in DOMAIN p.coinIndex : q.coinIndex[c] = p.coinIndex[c]
    <2>1. DOMAIN p.coinIndex = UNION {Removals[b] : b \in p.items}
        BY DEF PendingInv, SpentBy
    <2> QED BY <1>1, <1>2, <2>1, LatestExists DEF PendingInv
<1>6. q.coinIndex = p.coinIndex
    <2>1. /\ p.coinIndex = [c \in DOMAIN p.coinIndex |-> p.coinIndex[c]]
          /\ q.coinIndex = [c \in DOMAIN q.coinIndex |-> q.coinIndex[c]]
        BY <1>1 DEF PendingInv, Latest
    <2> QED BY <1>4, <1>5, <2>1
<1>7. PendingInv(q)
    BY <1>1, <1>3, <1>6 DEF PendingInv
<1> QED BY <1>3, <1>6, <1>7 DEF q

\* ... and so does the conflict cache.
LEMMA RefilledConflictOK ==
    ASSUME NEW x, ConflictInv(x)
    PROVE  LET y == RefilledConflict(x.cache)
           IN  ConflictInv(y) /\ y.cost = x.cost
<1>1. x.cost \in 0..MaxU64
    BY BundleSets, Limits DEF ConflictInv
<1>2. SatAdd(0, Total(VirtualCost, x.cache)) = x.cost
    BY <1>1, SumUnclamped DEF ConflictInv
<1> HIDE DEF Total
<1> QED BY <1>2 DEF RefilledConflict, ConflictInv

-----------------------------------------------------------------------------
(* The inductive invariant.  What a snapshot has read of a structure was     *)
(* read under its lock, so that it is the content of a consistent one.       *)

PoolPart(items) == \E p : PoolOK(p) /\ p.items = items
PendingPart(items) == \E p : PendingInv(p) /\ p.items = items
ConflictPart(cache) == \E x : ConflictInv(x) /\ x.cache = cache

SavedOK ==
    /\ saver.at \in {"pending", "conflict", "fees"} => PoolPart(saver.items)
    /\ saver.at \in {"conflict", "fees"} => PendingPart(saver.pending)
    /\ saver.at = "fees" => ConflictPart(saver.conflict)
    /\ PoolPart(disk.items)
    /\ PendingPart(disk.pending)
    /\ ConflictPart(disk.conflict)

NodeInv == IInv /\ SavedOK

\* It holds of a new node.
LEMMA InitNodeInv == NodeInit => NodeInv
<1> SUFFICES ASSUME NodeInit PROVE NodeInv
    OBVIOUS
<1>1. IInv
    BY InitIInv DEF NodeInit
<1>2. PoolPart(disk.items)
    <2>1. PoolOK(pool) /\ pool.items = disk.items
        BY <1>1 DEF NodeInit, Init, NoSnapshot, IInv, StructuresOK, PoolOK
    <2> QED BY <2>1 DEF PoolPart
<1>3. PendingPart(disk.pending) /\ ConflictPart(disk.conflict)
    <2>1. EmptyPending.items = disk.pending /\ EmptyConflict.cache = disk.conflict
        BY DEF NodeInit, NoSnapshot, EmptyPending, EmptyConflict
    <2> QED BY <2>1, EmptySides DEF PendingPart, ConflictPart
<1>4. saver.at = "idle"
    BY DEF NodeInit, Idle
<1> QED BY <1>1, <1>2, <1>3, <1>4 DEF NodeInv, SavedOK

\* Every step but a restart is a step of the Mempool, or none of it.
LEMMA CallsAreNext ==
    ASSUME [NodeNext]_nodeVars, ~Restart
    PROVE  [Next]_vars
<1>1. ASSUME NEW K \in SUBSET (Bundles \ confirmed), NEW s \in 0..MaxSeconds,
             TellBlock(K, s)
      PROVE  Next
    BY <1>1 DEF TellBlock, Next
<1>2. CASE FinishBlock
    BY <1>2 DEF FinishBlock, Next, FollowerStep
<1>3. CASE OtherCall
    BY <1>3 DEF OtherCall, Next, FollowerStep
<1>4. CASE SaveActive \/ SavePending \/ SaveConflict \/ SaveFees
    BY <1>4 DEF SaveActive, SavePending, SaveConflict, SaveFees
<1>5. CASE UNCHANGED nodeVars
    BY <1>5 DEF nodeVars
<1> QED BY <1>1, <1>2, <1>3, <1>4, <1>5 DEF NodeNext

\* A restart rebuilds the structures from consistent ones.
LEMMA RestartKeeps ==
    ASSUME NodeInv, Restart
    PROVE  NodeInv'
<1>1. PoolInv(pool') /\ (NoDedup => Indexed(pool'))
    <2>1. PICK p : PoolOK(p) /\ p.items = disk.items
        BY DEF NodeInv, SavedOK, PoolPart
    <2>2. PICK rank \in Orders(Active(p)) : pool' = RefilledPool(p.items, rank)
        BY <2>1 DEF Restart, Active
    <2> QED BY <2>1, <2>2, RefilledPoolOK, RefilledIndexes DEF PoolOK
<1>2. PendingInv(pending')
    <2>1. PICK p : PendingInv(p) /\ p.items = disk.pending
        BY DEF NodeInv, SavedOK, PendingPart
    <2>2. PICK rank \in Orders(p.items) : pending' = RefilledPending(p.items, rank)
        BY <2>1 DEF Restart
    <2> QED BY <2>1, <2>2, RefilledPendingOK
<1>3. ConflictInv(conflict')
    <2>1. PICK x : ConflictInv(x) /\ x.cache = disk.conflict
        BY DEF NodeInv, SavedOK, ConflictPart
    <2>2. conflict' = RefilledConflict(x.cache)
        BY <2>1 DEF Restart
    <2> QED BY <2>1, <2>2, RefilledConflictOK
<1>4. CallsOK'
    <2>1. SpentBy(CaughtUpOn) \subseteq Coins
        BY DataTypes DEF SpentBy, CaughtUpOn, NodeInv, IInv, CallsOK
    <2>2. follower' \in Following
        BY <2>1 DEF Restart, Following, chain, NodeInv, IInv, CallsOK
    <2>3. seen' \in Seq(Bundles)
        BY DEF Restart
    <2>4. confirmed' \subseteq Bundles /\ height' \in Nat /\ seconds' \in Nat
        BY DEF Restart, chain, NodeInv, IInv, CallsOK
    <2>5. /\ submissions' \in [Callers -> {Idle} \cup Calling]
          /\ returned' \subseteq Bundles
        BY DEF Restart
    <2> QED BY <2>2, <2>3, <2>4, <2>5 DEF CallsOK
<1>5. SavedOK'
    <2>1. saver'.at = "idle" /\ disk' = disk
        BY DEF Restart, Idle
    <2> QED BY <2>1 DEF NodeInv, SavedOK
<1> QED BY <1>1, <1>2, <1>3, <1>4, <1>5 DEF NodeInv, IInv, StructuresOK

\* Every step keeps the invariant.
LEMMA NextNodeInv == NodeInv /\ [NodeNext]_nodeVars => NodeInv'
<1> SUFFICES ASSUME NodeInv, [NodeNext]_nodeVars, ~Restart PROVE NodeInv'
    BY RestartKeeps
<1>1. IInv'
    BY CallsAreNext, NextIInv DEF NodeInv
<1>2. ASSUME UNCHANGED <<saver, disk>> PROVE SavedOK'
    BY <1>2 DEF NodeInv, SavedOK
<1>3. CASE SaveActive
    <2>1. PoolPart(pool.items)
        BY DEF PoolPart, PoolOK, NodeInv, IInv, StructuresOK
    <2>2. saver'.at = "pending" /\ saver'.items = pool.items /\ disk' = disk
        BY <1>3 DEF SaveActive
    <2> QED BY <1>1, <2>1, <2>2 DEF NodeInv, SavedOK
<1>4. CASE SavePending
    <2>1. PendingPart(pending.items)
        BY DEF PendingPart, NodeInv, IInv, StructuresOK
    <2>2. /\ saver.at = "pending" /\ saver'.at = "conflict"
          /\ saver'.items = saver.items /\ saver'.pending = pending.items
          /\ disk' = disk
        BY <1>4 DEF SavePending
    <2> QED BY <1>1, <2>1, <2>2 DEF NodeInv, SavedOK
<1>5. CASE SaveConflict
    <2>1. ConflictPart(conflict.cache)
        BY DEF ConflictPart, NodeInv, IInv, StructuresOK
    <2>2. /\ saver.at = "conflict" /\ saver'.at = "fees"
          /\ saver'.items = saver.items /\ saver'.pending = saver.pending
          /\ saver'.conflict = conflict.cache /\ disk' = disk
        BY <1>5 DEF SaveConflict
    <2> QED BY <1>1, <2>1, <2>2 DEF NodeInv, SavedOK
<1>6. CASE SaveFees
    <2>1. /\ saver.at = "fees" /\ saver'.at = "idle"
          /\ disk'.items = saver.items /\ disk'.pending = saver.pending
          /\ disk'.conflict = saver.conflict
        BY <1>6 DEF SaveFees, Idle
    <2> QED BY <1>1, <2>1 DEF NodeInv, SavedOK
<1>7. ASSUME NEW K \in SUBSET (Bundles \ confirmed), NEW s \in 0..MaxSeconds,
             TellBlock(K, s)
      PROVE  NodeInv'
    BY <1>1, <1>2, <1>7 DEF TellBlock, Beside, saving, NodeInv
<1>8. CASE FinishBlock \/ OtherCall
    BY <1>1, <1>2, <1>8 DEF FinishBlock, OtherCall, Beside, saving, NodeInv
<1>9. CASE UNCHANGED nodeVars
    BY <1>1, <1>2, <1>9 DEF nodeVars, saving, NodeInv
<1> QED BY <1>3, <1>4, <1>5, <1>6, <1>7, <1>8, <1>9 DEF NodeNext

\* Every reachable state of a node satisfies the inductive invariant.
THEOREM NodeInvariant == NodeSpec => []NodeInv
<1> QED BY InitNodeInv, NextNodeInv, PTL DEF NodeSpec

-----------------------------------------------------------------------------
\* A restart keeps the types of the structures and of the calls in progress.
THEOREM NodeTypeCorrect == NodeSpec => []TypeOK
<1>1. NodeInv => TypeOK
    BY IInvTyped DEF NodeInv
<1> QED BY <1>1, NodeInvariant, PTL

\* The structures stay consistent through every number of restarts, from
\* snapshots taken while any number of threads are at work: the active pool
\* (without deduplication), ...
THEOREM NodeActiveTheorem ==
    ASSUME NoDedup
    PROVE  NodeSpec => []ActiveConsistent
<1>1. NodeInv => ActiveConsistent
    BY NoDedup, IndexedCompatible
       DEF NodeInv, IInv, StructuresOK, PoolInv, ActiveConsistent
<1> QED BY <1>1, NodeInvariant, PTL

\* ... the pending pool, ...
THEOREM NodePendingTheorem == NodeSpec => []PendingConsistent
<1>1. NodeInv => PendingConsistent
    BY DEF NodeInv, IInv, StructuresOK, PendingInv, PendingConsistent
<1> QED BY <1>1, NodeInvariant, PTL

\* ... and the conflict cache.
THEOREM NodeConflictTheorem == NodeSpec => []ConflictConsistent
<1>1. NodeInv => ConflictConsistent
    BY DEF NodeInv, IInv, StructuresOK, ConflictInv, ConflictConsistent
<1> QED BY <1>1, NodeInvariant, PTL

-----------------------------------------------------------------------------
(* One call at a time, snapshots among them.  What the parts of a snapshot   *)
(* say of each other is what the structures said when they were read, since  *)
(* nothing but the snapshot moves in between.                                *)

SavedApart ==
    /\ saver.at \in {"pending", "conflict", "fees"} => DOMAIN saver.items = Active(pool)
    /\ saver.at \in {"conflict", "fees"} => saver.pending = pending.items
    /\ saver.at = "fees" => saver.conflict = conflict.cache
    /\ DOMAIN disk.items \cap disk.pending = {}
    /\ DOMAIN disk.items \cap disk.conflict = {}
    /\ disk.pending \cap disk.conflict = {}

\* Every step of a node whose calls wait for each other keeps bundles in one
\* place, in the structures and on the disk.
LEMMA NextSavedApart ==
    ASSUME ~Concurrent, IInv, OneAtATime, SavedApart, [NodeNext]_nodeVars
    PROVE  OneAtATime' /\ SavedApart'
<1>1. CASE Restart
    <2>1. /\ Active(pool') = DOMAIN disk.items
          /\ pending'.items = disk.pending /\ conflict'.cache = disk.conflict
        BY <1>1 DEF Restart, RefilledPool, RefilledPending, RefilledConflict, Active
    <2>2. /\ \A t \in Callers : submissions'[t] = Idle
          /\ follower'.at = "clearSeen" /\ returned' = {}
        BY <1>1 DEF Restart
    <2>3. saver'.at = "idle" /\ disk' = disk
        BY <1>1 DEF Restart, Idle
    <2>4. OneAtATime'
        BY <2>1, <2>2 DEF OneAtATime, Apart, SavedApart, Active
    <2> QED BY <2>3, <2>4 DEF SavedApart
<1>2. ASSUME ~Restart PROVE OneAtATime'
    BY <1>2, CallsAreNext, NextOneAtATime
<1>3. CASE SaveActive
    <2>1. saver'.at = "pending" /\ saver'.items = pool.items
        BY <1>3 DEF SaveActive
    <2>2. SavedApart'
        BY <1>3, <2>1 DEF SaveActive, SavedApart, vars, structures, Active
    <2> QED BY <1>1, <1>2, <2>2
<1>4. CASE SavePending
    <2>1. /\ saver.at = "pending" /\ saver'.at = "conflict"
          /\ saver'.items = saver.items /\ saver'.pending = pending.items
        BY <1>4 DEF SavePending
    <2>2. SavedApart'
        BY <1>4, <2>1 DEF SavePending, SavedApart, vars, structures, Active
    <2> QED BY <1>1, <1>2, <2>2
<1>5. CASE SaveConflict
    <2>1. /\ saver.at = "conflict" /\ saver'.at = "fees"
          /\ saver'.items = saver.items /\ saver'.pending = saver.pending
          /\ saver'.conflict = conflict.cache
        BY <1>5 DEF SaveConflict
    <2>2. SavedApart'
        BY <1>5, <2>1 DEF SaveConflict, SavedApart, vars, structures, Active
    <2> QED BY <1>1, <1>2, <2>2
<1>6. CASE SaveFees
    <2>1. /\ saver.at = "fees" /\ saver'.at = "idle"
          /\ disk'.items = saver.items /\ disk'.pending = saver.pending
          /\ disk'.conflict = saver.conflict
        BY <1>6 DEF SaveFees, Idle
    <2>2. SavedApart'
        BY <2>1 DEF SavedApart, OneAtATime, Apart
    <2> QED BY <1>1, <1>2, <2>2
<1>7. ASSUME Beside PROVE SavedApart'
    BY <1>7 DEF Beside, saving, SavedApart, Idle
<1>8. CASE UNCHANGED nodeVars
    BY <1>1, <1>2, <1>8 DEF nodeVars, vars, structures, saving, SavedApart, Active
<1>9. ASSUME NEW K \in SUBSET (Bundles \ confirmed), NEW s \in 0..MaxSeconds,
             TellBlock(K, s)
      PROVE  OneAtATime' /\ SavedApart'
    BY <1>1, <1>2, <1>7, <1>9 DEF TellBlock
<1>10. CASE FinishBlock \/ OtherCall
    BY <1>1, <1>2, <1>7, <1>10 DEF FinishBlock, OtherCall
<1> QED BY <1>1, <1>3, <1>4, <1>5, <1>6, <1>8, <1>9, <1>10 DEF NodeNext

\* So all the states that such a node reaches keep them there.
LEMMA NodeOneAtATime ==
    ASSUME ~Concurrent
    PROVE  NodeSpec => [](OneAtATime /\ SavedApart)
<1>1. NodeInit => IInv /\ OneAtATime /\ SavedApart
    <2> SUFFICES ASSUME NodeInit PROVE IInv /\ OneAtATime /\ SavedApart
        OBVIOUS
    <2>1. saver.at = "idle" /\ disk.pending = {} /\ disk.conflict = {}
        BY DEF NodeInit, Idle, NoSnapshot
    <2> QED BY <2>1, InitIInv, InitOneAtATime DEF NodeInit, SavedApart
<1>2. NodeInv /\ OneAtATime /\ SavedApart /\ [NodeNext]_nodeVars
        => (OneAtATime /\ SavedApart)'
    BY NextSavedApart DEF NodeInv
<1> QED BY <1>1, <1>2, NodeInvariant, PTL DEF NodeSpec

\* A node whose calls wait for each other keeps every bundle in one place, also
\* across restarts, whatever was confirmed since the snapshot it restores.
THEOREM NodeInOnePlaceTheorem ==
    ASSUME ~Concurrent
    PROVE  NodeSpec => []InOnePlace
<1>1. NodeSpec => [](OneAtATime /\ SavedApart)
    BY NodeOneAtATime
<1>2. OneAtATime => InOnePlace
    BY DEF OneAtATime, Apart, InOnePlace
<1> QED BY <1>1, <1>2, PTL

-----------------------------------------------------------------------------
(* The window of the fee estimator.                                          *)

BlockRecords == [height : Nat, bundles : SUBSET Bundles]
SummaryOf(entry) == Summary(entry.height, Counted(entry.bundles))
Summaries == {SummaryOf(entry) : entry \in BlockRecords}
Kept(told) == Min({told, Max({Window, 1})})

\* What WindowHoldsLatest says, of any estimator and the blocks behind it.
HoldsLatest(f, told) ==
    /\ told \in Seq(BlockRecords)
    /\ f.history \in Seq(Summaries)
    /\ Len(f.history) = Kept(Len(told))
    /\ \A i \in 1..Kept(Len(told)) :
        f.history[i] = SummaryOf(told[Len(told) - Kept(Len(told)) + i])

\* All that was told is kept as long as it fits the window, and one entry
\* whatever the window.
LEMMA KeptIs ==
    ASSUME NEW n \in Nat
    PROVE  \/ n <= 1 /\ Kept(n) = n
           \/ n <= Window /\ Kept(n) = n
           \/ n > Window /\ n > 1 /\ Window >= 1 /\ Kept(n) = Window
           \/ n > 1 /\ Window = 0 /\ Kept(n) = 1
<1>1. Window \in Nat
    BY TrackerConstants
<1>2. Max({Window, 1}) = IF Window >= 1 THEN Window ELSE 1
    BY <1>1 DEF Max
<1>3. ASSUME NEW m \in Nat PROVE Min({n, m}) = IF n <= m THEN n ELSE m
    BY <1>3 DEF Min
<1> QED BY <1>1, <1>2, <1>3 DEF Kept

\* One more block: the oldest gives way exactly when the window is full.
LEMMA RecordedHoldsLatest ==
    ASSUME NEW t, NEW told, HoldsLatest(t, told), NEW entry \in BlockRecords
    PROVE  HoldsLatest(Recorded(t, entry.height, entry.bundles), Append(told, entry))
<1> DEFINE h == t.history
           n == Len(told)
           k == Kept(n)
           new == Append(Rolled(h), SummaryOf(entry))
           told2 == Append(told, entry)
           k2 == Kept(n + 1)
<1>1. /\ told \in Seq(BlockRecords) /\ h \in Seq(Summaries)
      /\ n \in Nat /\ Len(h) = k /\ k \in Nat
      /\ \A i \in 1..k : h[i] = SummaryOf(told[n - k + i])
    BY DEF HoldsLatest
<1>2. /\ told2 \in Seq(BlockRecords) /\ Len(told2) = n + 1 /\ told2[n + 1] = entry
      /\ \A i \in 1..n : told2[i] = told[i]
    BY <1>1
<1>3. Window \in Nat
    BY TrackerConstants
<1>4. SummaryOf(entry) \in Summaries
    BY DEF Summaries
<1>5. /\ k <= n
      /\ \/ Rolled(h) = h /\ k = n /\ k2 = n + 1
         \/ Rolled(h) = Tail(h) /\ k2 = k /\ k >= 1
    <2>1. h # <<>> <=> k > 0
        BY <1>1
    <2>2. Rolled(h) = IF k >= Window /\ k > 0 THEN Tail(h) ELSE h
        BY <1>1, <2>1 DEF Rolled
    <2> HIDE DEF h
    <2> QED BY <1>1, <1>3, <2>2, KeptIs
<1> HIDE DEF k, k2, n
<1>6. new \in Seq(Summaries) /\ Len(new) = k2
      /\ \A i \in 1..k2 : new[i] = SummaryOf(told2[n + 1 - k2 + i])
    <2>1. CASE Rolled(h) = h /\ k = n /\ k2 = n + 1
        <3>1. new \in Seq(Summaries) /\ Len(new) = n + 1
            BY <1>1, <1>4, <2>1
        <3>2. ASSUME NEW i \in 1..n PROVE new[i] = SummaryOf(told2[i])
            BY <1>1, <1>2, <1>4, <2>1
        <3>3. new[n + 1] = SummaryOf(told2[n + 1])
            BY <1>1, <1>2, <1>4, <2>1
        <3> HIDE DEF new, told2, h
        <3>4. ASSUME NEW i \in 1..k2 PROVE new[i] = SummaryOf(told2[n + 1 - k2 + i])
            <4>1. i \in 1..n \/ i = n + 1
                BY <1>1, <2>1
            <4>2. n + 1 - k2 + i = i
                BY <1>1, <2>1
            <4> QED BY <3>2, <3>3, <4>1, <4>2
        <3> QED BY <2>1, <3>1, <3>4
    <2>2. CASE Rolled(h) = Tail(h) /\ k2 = k /\ k >= 1
        <3>1. /\ Tail(h) \in Seq(Summaries) /\ Len(Tail(h)) = k - 1
              /\ \A i \in 1..(k - 1) : Tail(h)[i] = h[i + 1]
            BY <1>1, <2>2
        <3>2. new \in Seq(Summaries) /\ Len(new) = k
            BY <1>1, <1>4, <2>2, <3>1
        <3>3. \A i \in 1..(k - 1) : new[i] = h[i + 1]
            BY <1>1, <1>4, <2>2, <3>1
        <3>4. new[k] = SummaryOf(entry)
            BY <1>1, <1>4, <2>2, <3>1
        <3> HIDE DEF new, told2, h
        <3>5. ASSUME NEW i \in 1..(k - 1) PROVE new[i] = SummaryOf(told2[n + 1 - k + i])
            <4>1. i + 1 \in 1..k /\ n - k + (i + 1) \in 1..n
                  /\ n - k + (i + 1) = n + 1 - k + i
                BY <1>1, <1>5, <2>2
            <4> QED BY <1>1, <1>2, <3>3, <4>1
        <3>6. n + 1 - k + k = n + 1
            BY <1>1
        <3>7. \A i \in 1..k : i \in 1..(k - 1) \/ i = k
            BY <1>1
        <3> QED BY <1>2, <2>2, <3>2, <3>4, <3>5, <3>6, <3>7
    <2> QED BY <1>5, <2>1, <2>2
<1>7. Recorded(t, entry.height, entry.bundles).history = new
    BY DEF Recorded, SummaryOf
<1> HIDE DEF new, told2
<1>8. Kept(Len(told2)) = k2
    BY <1>2 DEF k2
<1>9. ASSUME NEW f, f.history = new PROVE HoldsLatest(f, told2)
    <2>1. \A i \in 1..Kept(Len(told2)) :
            new[i] = SummaryOf(told2[Len(told2) - Kept(Len(told2)) + i])
        <3> SUFFICES ASSUME NEW i \in 1..k2
                     PROVE  new[i] = SummaryOf(told2[Len(told2) - k2 + i])
            BY <1>8, Zenon
        <3>1. Len(told2) - k2 + i = n + 1 - k2 + i
            BY <1>1, <1>2, <1>5
        <3> QED BY <1>6, <3>1
    <2>2. Len(new) = Kept(Len(told2))
        BY <1>6, <1>8
    <2> QED BY <1>2, <1>6, <1>9, <2>1, <2>2 DEF HoldsLatest
<1> QED BY <1>7, <1>9 DEF told2

\* The estimator in memory and the one on the disk hold the latest of the blocks
\* behind them, and the block that is being told of is one.
WindowInv ==
    /\ block \subseteq Bundles
    /\ HoldsLatest(fees, recorded)
    /\ HoldsLatest(disk.fees, disk.recorded)

\* A new estimator holds nothing.
LEMMA NewHoldsLatest == HoldsLatest(NewTracker, <<>>)
<1>1. Kept(0) = 0
    <2>1. 0 \in Nat
        OBVIOUS
    <2> QED BY <2>1, KeptIs
<1>2. NewTracker.history = <<>>
    BY DEF NewTracker
<1>3. Len(<<>>) = 0 /\ <<>> \in Seq(BlockRecords) /\ <<>> \in Seq(Summaries)
    OBVIOUS
<1> HIDE DEF Kept
<1> QED BY <1>1, <1>2, <1>3 DEF HoldsLatest

\* Every step of a node keeps the windows.
LEMMA NextWindowInv ==
    ASSUME NodeInv, WindowInv, [NodeNext]_nodeVars
    PROVE  WindowInv'
<1>1. confirmed \subseteq Bundles /\ height \in Nat
    BY DEF NodeInv, IInv, CallsOK
<1>2. ASSUME NEW K \in SUBSET (Bundles \ confirmed), NEW s \in 0..MaxSeconds,
             TellBlock(K, s)
      PROVE  WindowInv'
    BY <1>2 DEF TellBlock, Beside, estimator, saving, WindowInv
<1>3. CASE FinishBlock
    <2> DEFINE entry == [height |-> height, bundles |-> block]
    <2>1. entry \in BlockRecords
        BY <1>1 DEF BlockRecords, WindowInv
    <2>2. /\ fees' = Recorded(fees, entry.height, entry.bundles)
          /\ recorded' = Append(recorded, entry)
          /\ block' = {} /\ disk' = disk
        BY <1>3 DEF FinishBlock, Beside, saving
    <2> HIDE DEF entry
    <2> QED BY <2>1, <2>2, RecordedHoldsLatest DEF WindowInv
<1>4. CASE OtherCall
    BY <1>4 DEF OtherCall, Beside, estimator, saving, WindowInv
<1>5. CASE SaveActive \/ SavePending \/ SaveConflict
    BY <1>5 DEF SaveActive, SavePending, SaveConflict, estimator, WindowInv
<1>6. CASE SaveFees
    <2>1. /\ disk'.fees = fees /\ disk'.recorded = recorded
          /\ UNCHANGED <<fees, recorded, block>>
        BY <1>6 DEF SaveFees, estimator
    <2> QED BY <2>1 DEF WindowInv
<1>7. CASE Restart
    BY <1>1, <1>7 DEF Restart, CaughtUpOn, WindowInv
<1>8. CASE UNCHANGED nodeVars
    BY <1>8 DEF nodeVars, estimator, saving, WindowInv
<1> QED BY <1>2, <1>3, <1>4, <1>5, <1>6, <1>7, <1>8 DEF NodeNext

\* Whatever the window's size, also 0, and however often the node restarts, the
\* estimator holds exactly the latest blocks it was told of, in their order.
THEOREM WindowTheorem == NodeSpec => []WindowHoldsLatest
<1>1. NodeInit => WindowInv
    BY NewHoldsLatest DEF NodeInit, NoSnapshot, WindowInv
<1>2. NodeInv /\ WindowInv /\ [NodeNext]_nodeVars => WindowInv'
    BY NextWindowInv
<1>3. WindowInv => WindowHoldsLatest
    BY DEF WindowInv, HoldsLatest, Kept, SummaryOf, WindowHoldsLatest
<1> QED BY <1>1, <1>2, <1>3, NodeInvariant, PTL DEF NodeSpec

-----------------------------------------------------------------------------
(* What the fee estimator answers.                                           *)

\* What the counters of an estimator say of the blocks behind it.  A bundle that
\* counts does so as confirmed after one block, so that all the horizons agree with
\* the number of observations.
CountsWhatWasTold(f, told) ==
    /\ f.unit \in Nat \ {0}
    /\ \A i \in Buckets :
        /\ f.observed[i] \in Nat
        /\ \A h \in Horizons : f.confirmed[i][h] = f.observed[i]
        /\ f.observed[i] > 0 =>
            \E k \in DOMAIN told : \E b \in Counted(told[k].bundles) :
                FindBucket(OwnFeeRate(b)) = i
    /\ told # <<>> =>
        \A b \in Counted(told[Len(told)].bundles) :
            f.observed[FindBucket(OwnFeeRate(b))] >= f.unit

\* The estimator in memory and the one on the disk count what they were told.
CountInv ==
    /\ CountsWhatWasTold(fees, recorded)
    /\ CountsWhatWasTold(disk.fees, disk.recorded)

\* The middle of two buckets, rounded up, lies above the lower one.
LEMMA MiddleBetween ==
    ASSUME NEW lo \in Nat, NEW hi \in Nat, lo < hi
    PROVE  (lo + hi + 1) \div 2 \in (lo + 1)..hi
OBVIOUS

\* i is the last bucket of lo..hi that starts at the rate or below it, or lo.
IsFloor(rate, lo, hi, i) ==
    /\ i \in lo..hi
    /\ i # lo => BucketLower[i] <= rate
    /\ \A j \in lo..hi : BucketLower[j] <= rate => j <= i

\* The bounds of the buckets, as far as the proofs need them.
LEMMA BoundsInOrder ==
    /\ \A i \in Buckets : i \in Nat /\ BucketLower[i] \in Nat
    /\ \A i, j \in Buckets : i <= j => BucketLower[i] <= BucketLower[j]
    /\ 1 \in Buckets /\ \A i \in Buckets : BucketLower[1] <= BucketLower[i]
<1>1. \A i \in Buckets : i \in Nat /\ i >= 1 /\ BucketLower[i] \in Nat
    BY TrackerConstants DEF Buckets
<1>2. \A i, j \in Buckets : i < j => BucketLower[i] <= BucketLower[j]
    BY TrackerConstants DEF Buckets
<1>3. 1 \in Buckets
    BY TrackerConstants DEF Buckets
<1> QED BY <1>1, <1>2, <1>3

\* There is such a bucket.
LEMMA FloorExists ==
    ASSUME NEW rate \in Nat, NEW lo \in Buckets, NEW hi \in Buckets, lo <= hi
    PROVE  \E i \in Buckets : IsFloor(rate, lo, hi, i)
<1> DEFINE S == {lo} \cup {i \in lo..hi : BucketLower[i] <= rate}
<1>1. lo \in Nat /\ hi \in Nat /\ lo..hi \subseteq Buckets /\ lo \in lo..hi
    BY TrackerConstants DEF Buckets
<1>2. IsFiniteSet(lo..hi)
    BY <1>1, FS_Interval
<1>3. S \subseteq lo..hi /\ S # {} /\ S \in SUBSET Nat
    BY <1>1
<1>4. IsFiniteSet(S)
    BY <1>2, <1>3, FS_Subset
<1> HIDE DEF S
<1>5. PICK m \in S : \A x \in S : x <= m
    BY <1>3, <1>4, FiniteSetHasMax
<1>6. IsFloor(rate, lo, hi, m)
    BY <1>1, <1>3, <1>5 DEF IsFloor, S
<1> QED BY <1>1, <1>3, <1>5, <1>6

\* One step of the search: the half that is left has the same such bucket.
LEMMA FloorOfHalf ==
    ASSUME NEW rate \in Nat, NEW lo \in Buckets, NEW hi \in Buckets,
           NEW mid \in (lo + 1)..hi, NEW i
    PROVE  /\ mid \in Buckets /\ mid - 1 \in Buckets
           /\ BucketLower[mid] <= rate /\ IsFloor(rate, mid, hi, i)
                => IsFloor(rate, lo, hi, i)
           /\ ~(BucketLower[mid] <= rate) /\ IsFloor(rate, lo, mid - 1, i)
                => IsFloor(rate, lo, hi, i)
<1>1. /\ lo \in Nat /\ hi \in Nat /\ mid \in Nat
      /\ lo..hi \subseteq Buckets /\ mid \in Buckets /\ mid - 1 \in Buckets
      /\ mid \in lo..hi
    BY TrackerConstants DEF Buckets
<1>2. \A j \in Buckets : BucketLower[j] \in Nat
    BY TrackerConstants DEF Buckets
<1>3. ASSUME BucketLower[mid] <= rate, IsFloor(rate, mid, hi, i)
      PROVE  IsFloor(rate, lo, hi, i)
    <2>1. i \in mid..hi /\ i \in lo..hi /\ BucketLower[i] <= rate
        BY <1>1, <1>3 DEF IsFloor
    <2>2. ASSUME NEW j \in lo..hi, BucketLower[j] <= rate PROVE j <= i
        <3>1. CASE j < mid
            BY <1>1, <2>1, <3>1
        <3>2. CASE j >= mid
            BY <1>1, <1>3, <2>2, <3>2 DEF IsFloor
        <3> QED BY <1>1, <3>1, <3>2
    <2> QED BY <2>1, <2>2 DEF IsFloor
<1>4. ASSUME ~(BucketLower[mid] <= rate), IsFloor(rate, lo, mid - 1, i)
      PROVE  IsFloor(rate, lo, hi, i)
    <2>1. i \in lo..(mid - 1) /\ i \in lo..hi
        BY <1>1, <1>4 DEF IsFloor
    <2>2. ASSUME NEW j \in lo..hi, BucketLower[j] <= rate PROVE j <= i
        <3>1. CASE j = mid
            BY <1>4, <2>2, <3>1
        <3>2. CASE j > mid
            <4>1. BucketLower[mid] <= BucketLower[j]
                BY <1>1, <3>2, TrackerConstants DEF Buckets
            <4> QED BY <1>1, <1>2, <1>4, <2>2, <4>1
        <3>3. CASE j < mid
            <4>1. j \in lo..(mid - 1)
                BY <1>1, <3>3
            <4> QED BY <1>4, <2>2, <4>1 DEF IsFloor
        <3> QED BY <1>1, <3>1, <3>2, <3>3
    <2> QED BY <1>4, <2>1, <2>2 DEF IsFloor
<1> QED BY <1>1, <1>3, <1>4

\* The binary search finds one of the best buckets that start at the rate or
\* below it, and the first bucket for lower rates: the search is a function, and
\* whatever function solves its equation is right on every interval, by the
\* interval's length.
LEMMA FindBucketIsBest ==
    ASSUME NEW rate \in Nat
    PROVE  /\ FindBucket(rate) \in Buckets
           /\ FindBucket(rate) # 1 => BucketLower[FindBucket(rate)] <= rate
           /\ \A j \in Buckets : BucketLower[j] <= rate =>
                BucketLower[j] <= BucketLower[FindBucket(rate)]
<1> DEFINE N == Len(BucketLower)
           mid(lo, hi) == (lo + hi + 1) \div 2
           Search(f, lo, hi) ==
                IF lo >= hi THEN lo
                ELSE IF BucketLower[mid(lo, hi)] <= rate THEN f[<<mid(lo, hi), hi>>]
                     ELSE f[<<lo, mid(lo, hi) - 1>>]
           Solves(f) == f = [range \in Buckets \X Buckets |->
                                Search(f, range[1], range[2])]
           found == CHOOSE f : Solves(f)
<1>1. /\ N \in Nat /\ N > 1 /\ Buckets = 1..N /\ Buckets \subseteq Nat
      /\ \A j \in Buckets : BucketLower[j] \in Nat
      /\ 1 \in Buckets /\ N \in Buckets
    BY TrackerConstants DEF Buckets
<1>2. FindBucket(rate) = IF rate <= BucketLower[1] THEN 1 ELSE found[<<1, N>>]
    BY DEF FindBucket
<1>3. \A lo, hi \in Buckets : lo < hi => mid(lo, hi) \in (lo + 1)..hi
    BY <1>1, MiddleBetween
<1> HIDE DEF mid
<1>4. \A lo, hi \in Buckets : lo <= hi =>
        \A i, j : IsFloor(rate, lo, hi, i) /\ IsFloor(rate, lo, hi, j) => i = j
    <2> SUFFICES ASSUME NEW lo \in Buckets, NEW hi \in Buckets, lo <= hi, NEW i, NEW j,
                        IsFloor(rate, lo, hi, i), IsFloor(rate, lo, hi, j)
                 PROVE  i = j
        OBVIOUS
    <2>1. i \in lo..hi /\ j \in lo..hi /\ i \in Nat /\ j \in Nat
        BY <1>1 DEF IsFloor
    <2>2. (i # lo => i <= j) /\ (j # lo => j <= i)
        BY <2>1 DEF IsFloor
    <2> QED BY <1>1, <2>1, <2>2
<1> DEFINE floor(lo, hi) == IF lo >= hi THEN lo ELSE CHOOSE i : IsFloor(rate, lo, hi, i)
<1>5. ASSUME NEW lo \in Buckets, NEW hi \in Buckets, lo <= hi
      PROVE  IsFloor(rate, lo, hi, floor(lo, hi))
    <2>1. CASE lo = hi
        <3>1. floor(lo, hi) = lo
            BY <1>1, <2>1
        <3>2. IsFloor(rate, lo, hi, lo)
            BY <1>1, <2>1 DEF IsFloor
        <3> QED BY <3>1, <3>2
    <2>2. CASE lo # hi
        <3>1. floor(lo, hi) = CHOOSE i : IsFloor(rate, lo, hi, i)
            BY <1>1, <1>5, <2>2
        <3>2. \E i : IsFloor(rate, lo, hi, i)
            BY <1>5, FloorExists
        <3> QED BY <3>1, <3>2
    <2> QED BY <2>1, <2>2
<1>6. \A lo, hi \in Buckets : lo >= hi => floor(lo, hi) = lo
    OBVIOUS
<1> HIDE DEF floor
<1>7. \E f : Solves(f)
    <2> DEFINE f == [range \in Buckets \X Buckets |-> floor(range[1], range[2])]
    <2>1. \A lo, hi \in Buckets : f[<<lo, hi>>] = floor(lo, hi)
        OBVIOUS
    <2> HIDE DEF f
    <2>2. ASSUME NEW lo \in Buckets, NEW hi \in Buckets, ~(lo >= hi)
          PROVE  floor(lo, hi) = Search(f, lo, hi)
        <3> DEFINE m == mid(lo, hi)
        <3>1. lo < hi /\ lo <= hi
            BY <1>1, <2>2
        <3>2. m \in (lo + 1)..hi
            BY <1>3, <3>1
        <3> HIDE DEF m
        <3>3. m \in Buckets /\ m - 1 \in Buckets /\ m <= hi /\ lo <= m - 1
            BY <1>1, <3>2, FloorOfHalf
        <3>4. IsFloor(rate, lo, hi, floor(lo, hi))
            BY <1>5, <3>1
        <3>5. IsFloor(rate, m, hi, floor(m, hi)) /\ IsFloor(rate, lo, m - 1, floor(lo, m - 1))
            BY <1>5, <3>3
        <3>6. Search(f, lo, hi) = IF BucketLower[m] <= rate THEN floor(m, hi)
                                  ELSE floor(lo, m - 1)
            BY <2>1, <2>2, <3>3 DEF m
        <3>7. IsFloor(rate, lo, hi, Search(f, lo, hi))
            BY <3>2, <3>5, <3>6, FloorOfHalf
        <3> HIDE DEF Search
        <3> QED BY <1>4, <3>1, <3>4, <3>7
    <2>3. ASSUME NEW lo \in Buckets, NEW hi \in Buckets
          PROVE  floor(lo, hi) = Search(f, lo, hi)
        <3>1. CASE lo >= hi
            BY <1>6, <3>1
        <3> QED BY <2>2, <3>1
    <2>4. \A range \in Buckets \X Buckets :
            floor(range[1], range[2]) = Search(f, range[1], range[2])
        <3> HIDE DEF Search
        <3> QED BY <2>3
    <2>5. Solves(f)
        <3>1. f = [range \in Buckets \X Buckets |-> floor(range[1], range[2])]
            BY DEF f
        <3> HIDE DEF Search
        <3> QED BY <2>4, <3>1
    <2> QED BY <2>5
<1> HIDE DEF Search
<1>8. Solves(found)
    <2> HIDE DEF Solves
    <2> QED BY <1>7
<1>9. \A lo, hi \in Buckets : found[<<lo, hi>>] = Search(found, lo, hi)
    <2> HIDE DEF found
    <2> QED BY <1>8
<1> HIDE DEF found, Solves
<1> DEFINE Wrong(lo, hi) == lo <= hi /\ ~IsFloor(rate, lo, hi, found[<<lo, hi>>])
           wrong == {n \in Nat : \E lo, hi \in Buckets : hi - lo = n /\ Wrong(lo, hi)}
<1>10. wrong = {}
    <2> SUFFICES ASSUME wrong # {} PROVE FALSE
        OBVIOUS
    <2>1. PICK n \in wrong : \A x \in wrong : n <= x
        <3>1. wrong \in SUBSET Nat
            OBVIOUS
        <3> HIDE DEF wrong
        <3> QED BY <3>1, LeastNatural
    <2>2. PICK lo \in Buckets, hi \in Buckets : hi - lo = n /\ Wrong(lo, hi)
        BY <2>1
    <2>3. lo \in Nat /\ hi \in Nat /\ lo <= hi /\ n \in Nat
        BY <1>1, <2>2
    <2>4. ASSUME NEW x \in Buckets, NEW y \in Buckets, x <= y, y - x < n
          PROVE  IsFloor(rate, x, y, found[<<x, y>>])
        <3>1. y - x \in Nat
            BY <1>1, <2>4
        <3>2. Wrong(x, y) => y - x \in wrong
            BY <3>1
        <3>3. y - x \notin wrong
            <4> HIDE DEF wrong
            <4> QED BY <2>1, <2>3, <2>4, <3>1
        <3> QED BY <2>4, <3>2, <3>3
    <2>5. CASE lo = hi
        <3>1. found[<<lo, hi>>] = lo
            BY <1>9, <2>3, <2>5 DEF Search
        <3>2. IsFloor(rate, lo, hi, lo)
            BY <2>3, <2>5 DEF IsFloor
        <3> QED BY <2>2, <3>1, <3>2
    <2>6. CASE lo # hi
        <3> DEFINE m == mid(lo, hi)
        <3>1. lo < hi
            BY <2>3, <2>6
        <3>2. m \in (lo + 1)..hi
            BY <1>3, <3>1
        <3>3. found[<<lo, hi>>] = IF BucketLower[m] <= rate THEN found[<<m, hi>>]
                                  ELSE found[<<lo, m - 1>>]
            <4>1. ~(lo >= hi)
                BY <2>3, <3>1
            <4> QED BY <1>9, <4>1 DEF Search
        <3> HIDE DEF m
        <3>4. m \in Buckets /\ m - 1 \in Buckets /\ m <= hi /\ lo <= m - 1
            BY <2>3, <3>2, FloorOfHalf
        <3>5. hi - m < n /\ (m - 1) - lo < n
            BY <2>2, <2>3, <3>2
        <3>6. /\ IsFloor(rate, m, hi, found[<<m, hi>>])
              /\ IsFloor(rate, lo, m - 1, found[<<lo, m - 1>>])
            BY <2>4, <3>4, <3>5
        <3>7. IsFloor(rate, lo, hi, found[<<lo, hi>>])
            BY <3>2, <3>3, <3>6, FloorOfHalf
        <3> QED BY <2>2, <3>7
    <2> QED BY <2>5, <2>6
<1>11. IsFloor(rate, 1, N, found[<<1, N>>])
    <2>1. N - 1 \in Nat /\ 1 <= N
        BY <1>1
    <2> QED BY <1>1, <1>10, <2>1
<1>12. CASE rate <= BucketLower[1]
    <2>1. FindBucket(rate) = 1
        BY <1>2, <1>12
    <2>2. \A j \in Buckets : BucketLower[j] <= rate => BucketLower[j] <= BucketLower[1]
        BY <1>1, <1>12
    <2> QED BY <1>1, <2>1, <2>2
<1>13. CASE ~(rate <= BucketLower[1])
    <2> DEFINE i == found[<<1, N>>]
    <2>1. FindBucket(rate) = i
        BY <1>2, <1>13
    <2>2. IsFloor(rate, 1, N, i)
        BY <1>11
    <2> HIDE DEF i
    <2>3. /\ i \in Buckets
          /\ i # 1 => BucketLower[i] <= rate
          /\ \A j \in Buckets : BucketLower[j] <= rate => j <= i
        BY <1>1, <2>2 DEF IsFloor
    <2>4. \A j \in Buckets : j <= i => BucketLower[j] <= BucketLower[i]
        BY <1>1, <2>3, BoundsInOrder
    <2> QED BY <2>1, <2>3, <2>4
<1> QED BY <1>12, <1>13

\* A non-empty set of buckets has a best one, which Max picks.
LEMMA MaxOfBuckets ==
    ASSUME NEW S \in SUBSET Buckets, S # {}
    PROVE  Max(S) \in S /\ \A i \in S : i <= Max(S)
<1>1. Buckets = 1..Len(BucketLower) /\ Len(BucketLower) \in Nat
    BY TrackerConstants DEF Buckets
<1>2. IsFiniteSet(S) /\ S \in SUBSET Nat
    <2>1. IsFiniteSet(Buckets)
        BY <1>1, FS_Interval
    <2>2. IsFiniteSet(S)
        BY <2>1, FS_Subset
    <2> QED BY <1>1, <2>2
<1>3. \E m \in S : \A x \in S : m >= x
    <2>1. PICK m \in S : \A x \in S : x <= m
        BY <1>2, FiniteSetHasMax
    <2> QED BY <1>2, <2>1
<1>4. Max(S) \in S /\ \A x \in S : Max(S) >= x
    BY <1>3 DEF Max
<1> QED BY <1>2, <1>4

\* A product with a positive natural is at least the other factor.
LEMMA ProductAtLeast ==
    ASSUME NEW u \in Nat, NEW c \in Nat
    PROVE  u * c \in Nat /\ (c = 0 => u * c = 0) /\ (c >= 1 => u <= u * c)
<1>1. c >= 1 => u * 1 <= u * c
    BY ProductMonotonic
<1> QED BY <1>1

\* A block is counted.
LEMMA RecordedCounts ==
    ASSUME NEW t, NEW told \in Seq(BlockRecords), CountsWhatWasTold(t, told),
           NEW entry \in BlockRecords
    PROVE  CountsWhatWasTold(Recorded(t, entry.height, entry.bundles),
                             Append(told, entry))
<1> DEFINE K == Counted(entry.bundles)
           unit == t.unit * DecayDen
           In(i) == {b \in K : FindBucket(OwnFeeRate(b)) = i}
           Placed(i) == unit * Cardinality(In(i))
           new == Recorded(t, entry.height, entry.bundles)
           told2 == Append(told, entry)
<1>1. K \subseteq Bundles
    BY DEF BlockRecords, Counted
<1>2. unit \in Nat \ {0}
    <2>1. t.unit \in Nat /\ t.unit >= 1 /\ DecayDen \in Nat /\ DecayDen >= 1
        BY TrackerConstants DEF CountsWhatWasTold
    <2>2. t.unit * DecayDen \in Nat /\ t.unit <= t.unit * DecayDen
        BY <2>1, ProductAtLeast
    <2> QED BY <2>1, <2>2
<1>3. /\ new.unit = unit
      /\ \A i \in Buckets :
            /\ new.observed[i] = t.observed[i] * DecayNum + Placed(i)
            /\ \A h \in Horizons :
                new.confirmed[i][h] = t.confirmed[i][h] * DecayNum + Placed(i)
    BY DEF Recorded
<1>4. \A i : /\ Cardinality(In(i)) \in Nat
             /\ In(i) = {} => Cardinality(In(i)) = 0
             /\ In(i) # {} => Cardinality(In(i)) >= 1
    <2> SUFFICES ASSUME NEW i
                 PROVE  /\ Cardinality(In(i)) \in Nat
                        /\ In(i) = {} => Cardinality(In(i)) = 0
                        /\ In(i) # {} => Cardinality(In(i)) >= 1
        OBVIOUS
    <2>1. IsFiniteSet(In(i))
        BY <1>1, BundlesFinite, FS_Subset
    <2> HIDE DEF In
    <2> QED BY <2>1, FS_CardinalityType, FS_EmptySet
<1>5. \A i : /\ Placed(i) \in Nat
             /\ In(i) = {} => Placed(i) = 0
             /\ In(i) # {} => unit <= Placed(i)
    <2> HIDE DEF unit, In
    <2> QED BY <1>2, <1>4, ProductAtLeast
<1>6. /\ told2 # <<>> /\ Len(told2) \in Nat /\ told2[Len(told2)] = entry
      /\ DOMAIN told \subseteq DOMAIN told2 /\ Len(told2) \in DOMAIN told2
      /\ \A k \in DOMAIN told : told2[k] = told[k]
    OBVIOUS
<1> HIDE DEF Placed, new, told2, unit
<1>7. ASSUME NEW i \in Buckets
      PROVE  /\ new.observed[i] \in Nat
             /\ \A h \in Horizons : new.confirmed[i][h] = new.observed[i]
             /\ new.observed[i] > 0 =>
                  \E k \in DOMAIN told2 : \E b \in Counted(told2[k].bundles) :
                      FindBucket(OwnFeeRate(b)) = i
             /\ In(i) # {} => new.observed[i] >= new.unit
    <2>1. t.observed[i] \in Nat /\ DecayNum \in Nat
        BY TrackerConstants DEF CountsWhatWasTold
    <2>2. /\ t.observed[i] * DecayNum \in Nat
          /\ t.observed[i] = 0 => t.observed[i] * DecayNum = 0
        BY <2>1, ProductAtLeast
    <2>3. new.observed[i] = t.observed[i] * DecayNum + Placed(i)
        BY <1>3
    <2>4. new.observed[i] \in Nat /\ new.observed[i] >= Placed(i)
        BY <1>5, <2>2, <2>3
    <2>5. \A h \in Horizons : new.confirmed[i][h] = new.observed[i]
        BY <1>3 DEF CountsWhatWasTold
    <2>6. ASSUME new.observed[i] > 0
          PROVE  \E k \in DOMAIN told2 : \E b \in Counted(told2[k].bundles) :
                      FindBucket(OwnFeeRate(b)) = i
        <3>1. CASE In(i) # {}
            BY <1>6, <3>1
        <3>2. CASE In(i) = {}
            <4>1. Placed(i) = 0
                BY <1>5, <3>2
            <4>2. t.observed[i] * DecayNum > 0
                BY <2>2, <2>3, <2>6, <4>1
            <4>3. t.observed[i] > 0
                BY <2>1, <2>2, <4>2
            <4>4. PICK k \in DOMAIN told : \E b \in Counted(told[k].bundles) :
                        FindBucket(OwnFeeRate(b)) = i
                BY <4>3 DEF CountsWhatWasTold
            <4> QED BY <1>6, <4>4
        <3> QED BY <3>1, <3>2
    <2>7. In(i) # {} => new.observed[i] >= new.unit
        <3> HIDE DEF In
        <3> QED BY <1>2, <1>3, <1>5, <2>4
    <2> QED BY <2>4, <2>5, <2>6, <2>7
<1>8. ASSUME NEW b \in Counted(told2[Len(told2)].bundles)
      PROVE  new.observed[FindBucket(OwnFeeRate(b))] >= new.unit
    <2>1. b \in K /\ b \in Bundles
        BY <1>1, <1>6
    <2>2. FindBucket(OwnFeeRate(b)) \in Buckets
        BY <2>1, DataTypes, FindBucketIsBest
    <2>3. In(FindBucket(OwnFeeRate(b))) # {}
        BY <2>1
    <2> HIDE DEF In
    <2> QED BY <1>7, <2>2, <2>3
<1>9. new.unit \in Nat \ {0}
    BY <1>2, <1>3
<1> HIDE DEF In
<1>10. CountsWhatWasTold(new, told2)
    BY <1>7, <1>8, <1>9 DEF CountsWhatWasTold
<1> QED BY <1>10 DEF new, told2

\* A new estimator has counted nothing.
LEMMA NewCounts == CountsWhatWasTold(NewTracker, <<>>)
<1>1. /\ NewTracker.unit = 1
      /\ \A i \in Buckets : /\ NewTracker.observed[i] = 0
                            /\ \A h \in Horizons : NewTracker.confirmed[i][h] = 0
    BY DEF NewTracker
<1> QED BY <1>1 DEF CountsWhatWasTold

\* Every step of a node keeps the counts.
LEMMA NextCountInv ==
    ASSUME NodeInv, WindowInv, CountInv, [NodeNext]_nodeVars
    PROVE  CountInv'
<1>1. height \in Nat /\ block \subseteq Bundles
    BY DEF NodeInv, IInv, CallsOK, WindowInv
<1>2. ASSUME NEW K \in SUBSET (Bundles \ confirmed), NEW s \in 0..MaxSeconds,
             TellBlock(K, s)
      PROVE  CountInv'
    BY <1>2 DEF TellBlock, Beside, estimator, saving, CountInv
<1>3. CASE FinishBlock
    <2> DEFINE entry == [height |-> height, bundles |-> block]
    <2>1. entry \in BlockRecords
        BY <1>1 DEF BlockRecords
    <2>2. /\ fees' = Recorded(fees, entry.height, entry.bundles)
          /\ recorded' = Append(recorded, entry)
          /\ disk' = disk
        BY <1>3 DEF FinishBlock, Beside, saving
    <2>3. recorded \in Seq(BlockRecords)
        BY DEF WindowInv, HoldsLatest
    <2> HIDE DEF entry
    <2> QED BY <2>1, <2>2, <2>3, RecordedCounts DEF CountInv
<1>4. CASE OtherCall
    BY <1>4 DEF OtherCall, Beside, estimator, saving, CountInv
<1>5. CASE SaveActive \/ SavePending \/ SaveConflict
    BY <1>5 DEF SaveActive, SavePending, SaveConflict, estimator, CountInv
<1>6. CASE SaveFees
    <2>1. /\ disk'.fees = fees /\ disk'.recorded = recorded
          /\ UNCHANGED <<fees, recorded>>
        BY <1>6 DEF SaveFees, estimator
    <2> QED BY <2>1 DEF CountInv
<1>7. CASE Restart
    BY <1>7 DEF Restart, CountInv
<1>8. CASE UNCHANGED nodeVars
    BY <1>8 DEF nodeVars, estimator, saving, CountInv
<1> QED BY <1>2, <1>3, <1>4, <1>5, <1>6, <1>7, <1>8 DEF NodeNext

\* What the horizons make of an estimator's counts: a bucket that counts at all
\* is as likely as can be, within every number of blocks.
Likely(f, target) ==
    {i \in Buckets :
        /\ f.observed[i] >= f.unit
        /\ f.confirmed[i][HorizonOf(target)] * 100 >= f.observed[i] * 85}

LEMMA LikelyIs ==
    ASSUME NEW f, NEW told, CountsWhatWasTold(f, told), NEW target \in Nat
    PROVE  Likely(f, target) = {i \in Buckets : f.observed[i] >= f.unit}
<1>1. HorizonOf(target) \in Horizons
    BY DEF HorizonOf, Horizons
<1>2. \A i \in Buckets :
        /\ f.confirmed[i][HorizonOf(target)] = f.observed[i]
        /\ f.observed[i] \in Nat
    BY <1>1 DEF CountsWhatWasTold
<1> QED BY <1>2 DEF Likely

\* The bracket of a single estimator.
LEMMA EstimateOf ==
    ASSUME NEW f, NEW told \in Seq(BlockRecords), CountsWhatWasTold(f, told),
           Len(f.history) \in Nat, NEW target \in Nat
    PROVE  /\ EstimateFeeRate(f, target) # NoEstimate =>
                \/ EstimateFeeRate(f, target) = BucketLower[1] \div FpcScale
                \/ \E k \in DOMAIN told : \E b \in Counted(told[k].bundles) :
                    EstimateFeeRate(f, target) * FpcScale <= OwnFeeRate(b)
           /\ told # <<>> /\ Len(f.history) >= Window \div 2 =>
                \A b \in Counted(told[Len(told)].bundles), i \in Buckets :
                    i = 1 \/ BucketLower[i] <= OwnFeeRate(b) =>
                        EstimateFeeRate(f, target) >= BucketLower[i] \div FpcScale
<1> DEFINE likely == Likely(f, target)
           m == Max(likely)
           estimate == EstimateFeeRate(f, target)
<1>1. estimate = IF Len(f.history) < Window \div 2 \/ likely = {} THEN NoEstimate
                 ELSE BucketLower[m] \div FpcScale
    BY DEF EstimateFeeRate, Likely
<1>2. likely = {i \in Buckets : f.observed[i] >= f.unit} /\ likely \in SUBSET Buckets
    BY LikelyIs DEF Likely
<1>3. likely # {} => m \in likely /\ \A i \in likely : i <= m
    BY <1>2, MaxOfBuckets
<1>4. /\ \A i \in Buckets : BucketLower[i] \in Nat /\ i \in Nat
      /\ \A i, j \in Buckets : i <= j => BucketLower[i] <= BucketLower[j]
      /\ FpcScale \in Nat \ {0} /\ Window \in Nat /\ 1 \in Buckets
    BY BoundsInOrder, TrackerConstants, BundleData
<1>5. \A i \in 1..Len(told) : Counted(told[i].bundles) \subseteq Bundles
    <2>1. \A i \in 1..Len(told) : told[i] \in BlockRecords
        OBVIOUS
    <2> QED BY <2>1 DEF BlockRecords, Counted
<1> HIDE DEF likely, m, estimate
<1>6. ASSUME estimate # NoEstimate
      PROVE  \/ estimate = BucketLower[1] \div FpcScale
             \/ \E k \in DOMAIN told : \E b \in Counted(told[k].bundles) :
                    estimate * FpcScale <= OwnFeeRate(b)
    <2>1. likely # {} /\ estimate = BucketLower[m] \div FpcScale
        BY <1>1, <1>6
    <2>2. m \in Buckets /\ f.observed[m] >= f.unit
        BY <1>2, <1>3, <2>1
    <2>3. f.observed[m] > 0
        BY <2>2 DEF CountsWhatWasTold
    <2>4. PICK k \in DOMAIN told : \E b \in Counted(told[k].bundles) :
                FindBucket(OwnFeeRate(b)) = m
        BY <2>2, <2>3 DEF CountsWhatWasTold
    <2>5. PICK b \in Counted(told[k].bundles) : FindBucket(OwnFeeRate(b)) = m
        BY <2>4
    <2>6. b \in Bundles
        BY <1>5, <2>4, <2>5
    <2>7. CASE m = 1
        BY <2>1, <2>7
    <2>8. CASE m # 1
        <3>1. OwnFeeRate(b) \in Nat /\ BucketLower[m] <= OwnFeeRate(b)
            BY <2>5, <2>6, <2>8, DataTypes, FindBucketIsBest
        <3>2. /\ BucketLower[m] \div FpcScale \in Nat
              /\ FpcScale * (BucketLower[m] \div FpcScale) <= BucketLower[m]
            BY <1>4, <2>2, QuotientTimes
        <3>3. estimate * FpcScale = FpcScale * (BucketLower[m] \div FpcScale)
            BY <1>4, <2>1, <3>2
        <3>4. estimate * FpcScale \in Nat
            BY <1>4, <2>1, <3>2
        <3>5. estimate * FpcScale <= OwnFeeRate(b)
            <4> DEFINE x == estimate * FpcScale
                       y == FpcScale * (BucketLower[m] \div FpcScale)
            <4>1. x = y /\ x \in Nat /\ y <= BucketLower[m] /\ BucketLower[m] \in Nat
                BY <1>4, <2>2, <3>2, <3>3, <3>4
            <4> HIDE DEF x, y
            <4>2. x <= OwnFeeRate(b)
                BY <3>1, <4>1
            <4> QED BY <4>2 DEF x
        <3> QED BY <2>4, <2>5, <3>5
    <2> QED BY <2>7, <2>8
<1>7. ASSUME told # <<>>, Len(f.history) >= Window \div 2,
             NEW b \in Counted(told[Len(told)].bundles), NEW i \in Buckets,
             i = 1 \/ BucketLower[i] <= OwnFeeRate(b)
      PROVE  estimate >= BucketLower[i] \div FpcScale
    <2> DEFINE best == FindBucket(OwnFeeRate(b))
    <2>1. b \in Bundles
        <3>1. Len(told) \in 1..Len(told)
            BY <1>7
        <3> QED BY <1>5, <1>7, <3>1
    <2>2. /\ best \in Buckets
          /\ BucketLower[i] <= OwnFeeRate(b) => BucketLower[i] <= BucketLower[best]
        BY <2>1, DataTypes, FindBucketIsBest
    <2>3. f.observed[best] >= f.unit
        BY <1>7 DEF CountsWhatWasTold
    <2> HIDE DEF best
    <2>4. best \in likely
        BY <1>2, <2>2, <2>3
    <2>5. m \in Buckets /\ best <= m
        BY <1>2, <1>3, <2>4
    <2>6. BucketLower[i] <= BucketLower[best]
        BY <1>7, <2>2, BoundsInOrder
    <2>7. BucketLower[i] <= BucketLower[m]
        BY <1>4, <2>2, <2>5, <2>6
    <2>8. BucketLower[i] \div FpcScale <= BucketLower[m] \div FpcScale
        BY <1>4, <2>5, <2>7, QuotientMonotonic
    <2>9. estimate = BucketLower[m] \div FpcScale
        <3>1. ~(Len(f.history) < Window \div 2)
            BY <1>4, <1>7
        <3> QED BY <1>1, <2>4, <3>1
    <2>10. /\ BucketLower[i] \div FpcScale \in Nat
           /\ BucketLower[m] \div FpcScale \in Nat
        BY <1>4, <2>5, QuotientTimes
    <2> QED BY <2>8, <2>9, <2>10
<1> QED BY <1>6, <1>7 DEF estimate

\* Whatever the bounds of the buckets, equal ones included, the window and the
\* decay, and however often the node restarts: an estimate is not below any
\* bucket that a bundle of the latest block reaches, and not above what some
\* recorded bundle paid, of the bundles that have a cost.
THEOREM BracketTheorem == NodeSpec => []EstimateBracketed
<1>1. NodeInit => WindowInv /\ CountInv
    BY NewHoldsLatest, NewCounts DEF NodeInit, NoSnapshot, WindowInv, CountInv
<1>2. NodeInv /\ WindowInv /\ CountInv /\ [NodeNext]_nodeVars
        => WindowInv' /\ CountInv'
    BY NextWindowInv, NextCountInv
<1>3. WindowInv /\ CountInv => EstimateBracketed
    <2> SUFFICES ASSUME WindowInv, CountInv, NEW target \in {1, 2, 3, 10}
                 PROVE  EstimateBracketed!(target)
        BY DEF EstimateBracketed
    <2> DEFINE estimate == EstimateFeeRate(fees, target)
               latest == IF recorded = <<>> THEN {}
                         ELSE Counted(recorded[Len(recorded)].bundles)
    <2>1. recorded \in Seq(BlockRecords) /\ CountsWhatWasTold(fees, recorded)
        BY DEF WindowInv, HoldsLatest, CountInv
    <2>2. Len(fees.history) \in Nat
        BY DEF WindowInv, HoldsLatest
    <2>3. target \in Nat
        OBVIOUS
    <2>4. ASSUME latest # {}, Len(fees.history) >= Window \div 2
          PROVE  \A b \in latest, i \in Buckets :
                    i = 1 \/ BucketLower[i] <= OwnFeeRate(b) =>
                        estimate >= BucketLower[i] \div FpcScale
        <3>1. recorded # <<>> /\ latest = Counted(recorded[Len(recorded)].bundles)
            BY <2>4
        <3> HIDE DEF latest
        <3> QED BY <2>1, <2>2, <2>3, <2>4, <3>1, EstimateOf
    <2>5. estimate # NoEstimate =>
            \/ estimate = BucketLower[1] \div FpcScale
            \/ \E i \in DOMAIN recorded : \E b \in Counted(recorded[i].bundles) :
                estimate * FpcScale <= OwnFeeRate(b)
        BY <2>1, <2>2, <2>3, EstimateOf
    <2> QED BY <2>4, <2>5
<1> QED BY <1>1, <1>2, <1>3, NodeInvariant, PTL DEF NodeSpec
=============================================================================
