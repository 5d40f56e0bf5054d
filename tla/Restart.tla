------------------------------ MODULE Restart -------------------------------
(* The Mempool of a node that takes snapshots, stops at any point and starts *)
(* again from the last snapshot it wrote (mempool/persistence.rs), with the  *)
(* fee estimator, which on_new_block() feeds and a snapshot carries along.   *)
(*                                                                           *)
(* snapshot() reads one structure after the other, each under its own lock;  *)
(* restore() is called before the node makes any other call, and the node    *)
(* then tells the mempool in one on_new_block() what the chain did since the *)
(* snapshot was taken.                                                       *)
EXTENDS Mempool, FeeTracker

CONSTANTS
    MaxSnapshots,   \* bound: snapshots begun between two starts
    MaxRestarts     \* bound: times the node starts again

ASSUME RestartBounds == MaxSnapshots \in Nat /\ MaxRestarts \in Nat

VARIABLES
    fees,       \* Mempool::fee_tracker
    block,      \* the bundles of the block on_new_block() is told of
    recorded,   \* history: the blocks behind fees, oldest first
    saver,      \* the thread inside snapshot(), and what it has read so far
    disk,       \* the last snapshot that was written
    begun,      \* snapshots begun since the node started
    restarts    \* times it started again

estimator == <<fees, recorded>>
saving == <<saver, disk, begun>>
nodeVars == <<vars, estimator, block, saving, restarts>>

\* What a node finds on its disk that has never taken a snapshot.
NoSnapshot == [items |-> EmptyPool.items, told |-> {},
               pending |-> {}, conflict |-> {},
               fees |-> NewTracker, recorded |-> <<>>]

NodeInit ==
    /\ Init
    /\ fees = NewTracker /\ recorded = <<>>
    /\ block = {}
    /\ saver = Idle /\ disk = NoSnapshot /\ begun = 0
    /\ restarts = 0

-----------------------------------------------------------------------------
\* The calls of Mempool, which in one-at-a-time mode wait for a snapshot too.
Beside == (Concurrent \/ saver = Idle) /\ UNCHANGED <<saving, restarts>>

TellBlock(K, s) ==
    /\ BlockConfirmed(K, s)
    /\ block' = K
    /\ Beside
    /\ UNCHANGED estimator

\* Step 5 of on_new_block().
FinishBlock ==
    /\ RecordBlock
    /\ fees' = Recorded(fees, height, block)
    /\ recorded' = Append(recorded, [height |-> height, bundles |-> block])
    /\ block' = {}
    /\ Beside

OtherCall ==
    /\ \/ \E t \in Callers : SubmitStep(t) \/ \E b \in Bundles : Submit(t, b)
       \/ ForgetSeen \/ RemoveSpentAndExpired \/ Promote \/ CollectRetries
       \/ ClearPool \/ ClearPending \/ ClearConflict \/ ClearSeen
       \/ DrainPending \/ DrainConflict
    /\ Beside
    /\ UNCHANGED <<estimator, block>>

-----------------------------------------------------------------------------
(* snapshot().                                                               *)

SaveActive ==
    /\ Free
    /\ saver = Idle
    /\ begun < MaxSnapshots
    /\ saver' = [at |-> "pending", items |-> pool.items, told |-> Told[1]]
    /\ begun' = begun + 1
    /\ UNCHANGED <<vars, estimator, block, disk, restarts>>

SavePending ==
    /\ saver.at = "pending"
    /\ saver' = [at |-> "conflict", items |-> saver.items, told |-> saver.told,
                 pending |-> pending.items]
    /\ UNCHANGED <<vars, estimator, block, disk, begun, restarts>>

SaveConflict ==
    /\ saver.at = "conflict"
    /\ saver' = [at |-> "fees", items |-> saver.items, told |-> saver.told,
                 pending |-> saver.pending, conflict |-> conflict.cache]
    /\ UNCHANGED <<vars, estimator, block, disk, begun, restarts>>

\* The last part is read, and the caller writes the snapshot out.
SaveFees ==
    /\ saver.at = "fees"
    /\ disk' = [items |-> saver.items, told |-> saver.told,
                pending |-> saver.pending, conflict |-> saver.conflict,
                fees |-> fees, recorded |-> recorded]
    /\ saver' = Idle
    /\ UNCHANGED <<vars, estimator, block, begun, restarts>>

-----------------------------------------------------------------------------
(* restore().                                                                *)

RefilledPending(items, rank) ==
    [items |-> items,
     coinIndex |-> Latest(items, Removals, rank),
     cost |-> SatAdd(0, Total(VirtualCost, items))]

RefilledConflict(cache) ==
    [cache |-> cache, cost |-> SatAdd(0, Total(VirtualCost, cache))]

\* The bundles confirmed since the pool was read for the snapshot.
CaughtUpOn == confirmed \ disk.told

\* The process ends, wherever its threads are, and starts again.
Restart ==
    /\ restarts < MaxRestarts
    /\ restarts' = restarts + 1
    /\ \E rank \in Orders(DOMAIN disk.items) :
        pool' = RefilledPool(disk.items, rank)
    /\ \E rank \in Orders(disk.pending) :
        pending' = RefilledPending(disk.pending, rank)
    /\ conflict' = RefilledConflict(disk.conflict)
    /\ seen' = <<>>
    /\ fees' = disk.fees /\ recorded' = disk.recorded
    /\ submissions' = [t \in Callers |-> Idle]
    /\ returned' = {}
    /\ follower' = [at |-> "clearSeen", spent |-> SpentBy(CaughtUpOn),
                    before |-> chain]
    /\ block' = CaughtUpOn
    /\ result' = "none"
    /\ saver' = Idle /\ begun' = 0
    /\ UNCHANGED <<chain, disk>>

-----------------------------------------------------------------------------
NodeNext ==
    \/ \E K \in SUBSET (Bundles \ confirmed), s \in 0..MaxSeconds : TellBlock(K, s)
    \/ FinishBlock
    \/ OtherCall
    \/ SaveActive \/ SavePending \/ SaveConflict \/ SaveFees
    \/ Restart

NodeSpec == NodeInit /\ [][NodeNext]_nodeVars

-----------------------------------------------------------------------------
\* The chain as the mempool has been told of it: a restarted node's pool is as
\* old as the snapshot until the first on_new_block() has cleaned it.
Stale == follower.at \in {"clearSeen", "removeSpent"}

\* LCY-007 leaves it to the caller to bring a restored mempool up to date.  A
\* caller that tells it of what was spent since the snapshot gets there: no
\* active item spends a coin that the chain has seen spent, nor is past its
\* deadline, wherever between the blocks the snapshot was taken and the node
\* stopped.
NothingStaleOnceTold ==
    Stale \/ \A b \in Active(pool) :
                /\ Removals[b] \cap SpentBy(confirmed) = {}
                /\ ~IsExpired(b, height, seconds)

\* The estimator's window holds the most recent blocks it was told of, in their
\* order, across restarts: as many as the window, and never none.
WindowHoldsLatest ==
    LET told == Len(recorded)
        kept == Min({told, Max({Window, 1})})
    IN  /\ Len(fees.history) = kept
        /\ \A i \in 1..kept :
            LET entry == recorded[told - kept + i]
            IN  fees.history[i] = Summary(entry.height, Counted(entry.bundles))

\* An estimate lies between what the latest block's best bundle paid, to the
\* bucket, and the best that any recorded block paid, whatever the decay of the
\* counters and the search for their buckets do in between; and when a bundle of
\* that block counts and half a window of blocks is known, there is an estimate.
EstimateBracketed ==
    \A target \in {1, 2, 3, 10} :
        LET estimate == EstimateFeeRate(fees, target)
            latest == IF recorded = <<>> THEN {}
                      ELSE Counted(recorded[Len(recorded)].bundles)
        IN  /\ estimate # NoEstimate =>
                \/ estimate = BucketLower[1] \div FpcScale
                \/ \E i \in DOMAIN recorded : \E b \in Counted(recorded[i].bundles) :
                    estimate * FpcScale <= OwnFeeRate(b)
            /\ Len(fees.history) >= Window \div 2 =>
                \A b \in latest, i \in Buckets :
                    i = 1 \/ BucketLower[i] <= OwnFeeRate(b) =>
                        estimate >= BucketLower[i] \div FpcScale

\* Between restarts and the catching up, calls made one at a time still have
\* the effects ActivePool gives them in one step each.
CatchUp ==
    /\ follower.at = "removeSpent" /\ follower.before = chain
    /\ pool' = AfterBlock(pool, follower.spent, height, seconds)
ActivePoolBetweenRestarts ==
    Atomic!Init /\ [][Atomic!Next \/ Restart \/ CatchUp]_(Atomic!vars)
=============================================================================
