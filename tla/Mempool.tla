------------------------------ MODULE Mempool ------------------------------
(* The Mempool as its callers see it: several threads inside submit() and    *)
(* one that follows the chain with on_new_block(), clear() and the drains,   *)
(* interleaved wherever the code releases one lock before it takes the next. *)
(* A submission works throughout with the height, the time and the coin      *)
(* records its caller read when it made the call.                            *)
EXTENDS SidePools

CONSTANTS
    Callers,        \* the threads that submit
    Concurrent,     \* FALSE: a call is made only when no other is in progress
    Calls,          \* which optional calls are made, out of CallKinds
    MaxHeight,      \* bound: the last block modelled
    MaxSeconds      \* bound: the last timestamp modelled

\* clear(), drain_pending() and drain_conflict(), submit_with_policy(), and
\* submit() with the records of get_mempool_coin_record() among its own.
CallKinds == {"clear", "drain", "policy", "synthetic"}

ASSUME MempoolEnvironment ==
    /\ Concurrent \in BOOLEAN
    /\ Calls \subseteq CallKinds
    /\ MaxHeight \in Nat /\ MaxSeconds \in Nat

VARIABLES
    pool, pending, conflict, seen,  \* the Mempool's four locked structures
    confirmed, height, seconds,     \* the chain, as its followers know it
    submissions,    \* caller -> the submit() it is in, and how far it got
    follower,       \* the chain follower's call, and how far it got
    returned,       \* bundles handed back, not yet submitted again
    result          \* of calls made one at a time, the last answer that was
                    \* found in the active pool

chain == <<confirmed, height, seconds>>
structures == <<pool, pending, conflict, seen>>
vars == <<structures, chain, submissions, follower, returned, result>>

Idle == [at |-> "idle"]

Init ==
    /\ pool = EmptyPool
    /\ pending = EmptyPending
    /\ conflict = EmptyConflict
    /\ seen = <<>>
    /\ confirmed = {} /\ height = 0 /\ seconds = 0
    /\ submissions = [t \in Callers |-> Idle]
    /\ follower = Idle
    /\ returned = {}
    /\ result = "none"

\* Calls that must not overlap wait for each other.
Free ==
    \/ Concurrent
    \/ follower = Idle /\ \A t \in Callers : submissions[t] = Idle

-----------------------------------------------------------------------------
(* submit(), from lock to lock.                                              *)

At(t, step) == submissions[t].at = step
Bundle(t) == submissions[t].bundle
Goes(t, step) == submissions' = [submissions EXCEPT ![t].at = step]
Returns(t) == submissions' = [submissions EXCEPT ![t] = Idle]

Answers(r) == result' = IF Concurrent THEN "none" ELSE r

\* The coins a caller finds records of: those on chain, and those the mempool
\* would create.
Records == {Unspent(confirmed)} \cup
           {Unspent(confirmed) \cup DOMAIN pool.mempoolCoins :
                call \in Calls \cap {"synthetic"}}

Submit(t, b) ==
    /\ Free
    /\ submissions[t] = Idle
    /\ \E coins \in Records :
        submissions' = [submissions EXCEPT ![t] =
            [at |-> "seen", bundle |-> b, height |-> height,
             seconds |-> seconds, known |-> Removals[b] \cap coins,
             again |-> b \in returned]]
    /\ returned' = returned \ {b}
    /\ UNCHANGED <<structures, chain, follower, result>>

\* Phase 0 under the seen cache's lock: the id is recorded before anything else
\* is known about the bundle, and stays recorded whatever becomes of it.
CheckSeen(t) ==
    /\ At(t, "seen")
    /\ \/ /\ Bundle(t) \in Range(seen)
          /\ Returns(t)
          /\ UNCHANGED seen
       \/ /\ Bundle(t) \notin Range(seen)
          /\ seen' = Seen(seen, Bundle(t))
          /\ Goes(t, "active")
    /\ UNCHANGED <<pool, pending, conflict, chain, follower, returned, result>>

CheckActive(t) ==
    /\ At(t, "active")
    /\ \/ /\ Bundle(t) \in Active(pool)
          /\ Returns(t)
          /\ Answers("AlreadySeen")
       \/ /\ Bundle(t) \notin Active(pool)
          /\ Goes(t, "pending")
          /\ UNCHANGED result
    /\ UNCHANGED <<structures, chain, follower, returned>>

CheckPending(t) ==
    /\ At(t, "pending")
    /\ IF Bundle(t) \in pending.items THEN Returns(t) ELSE Goes(t, "conflict")
    /\ UNCHANGED <<structures, chain, follower, returned, result>>

CheckConflict(t) ==
    /\ At(t, "conflict")
    /\ IF Bundle(t) \in conflict.cache THEN Returns(t) ELSE Goes(t, "validate")
    /\ UNCHANGED <<structures, chain, follower, returned, result>>

\* Phase 1: the coins of the active pool are read once, the rest is lock-free.
Validate(t) ==
    LET call == submissions[t]
        missing == MissingCoins(pool, call.bundle, call.known)
        expired == IsExpired(call.bundle, call.height, call.seconds)
    IN  /\ At(t, "validate")
        /\ \/ /\ missing # {}
              /\ Answers("CoinNotFound")
              /\ Returns(t)
           \/ /\ missing = {} /\ IsImpossible(call.bundle)
              /\ Answers("ImpossibleTimelocks")
              /\ Returns(t)
           \/ /\ missing = {} /\ ~IsImpossible(call.bundle) /\ expired
              /\ Answers("Expired")
              /\ Returns(t)
           \/ /\ missing = {} /\ ~IsImpossible(call.bundle) /\ ~expired
              /\ UNCHANGED result
              /\ IF IsTimelocked(call.bundle, call.height, call.seconds)
                 THEN Goes(t, "queue")
                 ELSE Goes(t, "admit")
        /\ UNCHANGED <<structures, chain, follower, returned>>

\* Phase 2a under the pending pool's lock.
Queue(t) ==
    /\ At(t, "queue")
    /\ pending' = Queued(pending, Bundle(t))
    /\ Returns(t)
    /\ UNCHANGED <<pool, conflict, seen, chain, follower, returned, result>>

\* Phase 2b under the active pool's write lock, one action per outcome.
Admitting(t) == At(t, "admit") /\ Bundle(t) \notin Active(pool)
Error(t) == AdmissionError(pool, Bundle(t), submissions[t].known)

\* Another caller was faster.
FindAdmitted(t) ==
    /\ At(t, "admit")
    /\ Bundle(t) \in Active(pool)
    /\ Returns(t)
    /\ UNCHANGED <<structures, chain, follower, returned, result>>

\* A bundle that loses to the items it conflicts with is kept for a retry.
Refuse(t) ==
    /\ Admitting(t)
    /\ Error(t) # "none"
    /\ Answers(Error(t))
    /\ conflict' = IF Error(t) \in RbfErrors
                   THEN Cached(conflict, Bundle(t))
                   ELSE conflict
    /\ Returns(t)
    /\ UNCHANGED <<pool, pending, seen, chain, follower, returned>>

\* Capacity eviction fails, or the caller's policy vetoes the item.
GiveUp(t) ==
    /\ Admitting(t)
    /\ Error(t) = "none"
    /\ \E prepared \in Prepared(pool, Bundle(t), submissions[t].height) :
        /\ pool' = prepared
        /\ \/ /\ ~Fits(prepared, Bundle(t))
              /\ Answers("MempoolFull")
           \/ /\ Fits(prepared, Bundle(t))
              /\ "policy" \in Calls
              /\ Answers("PolicyRejected")
    /\ Returns(t)
    /\ UNCHANGED <<pending, conflict, seen, chain, follower, returned>>

Admit(t) ==
    /\ Admitting(t)
    /\ Error(t) = "none"
    /\ \E prepared \in Prepared(pool, Bundle(t), submissions[t].height) :
        /\ Fits(prepared, Bundle(t))
        /\ pool' = Admitted(pool, prepared, Bundle(t), submissions[t].known)
    /\ Answers("Success")
    /\ Returns(t)
    /\ UNCHANGED <<pending, conflict, seen, chain, follower, returned>>

-----------------------------------------------------------------------------
(* The chain follower.                                                       *)

\* A block is confirmed and on_new_block() called for it.
BlockConfirmed(K, s) ==
    /\ Free
    /\ follower = Idle
    /\ height < MaxHeight
    /\ s >= seconds
    /\ ValidBlock(confirmed, K, height + 1, s)
    /\ confirmed' = confirmed \cup K
    /\ height' = height + 1
    /\ seconds' = s
    /\ follower' = [at |-> "clearSeen", spent |-> SpentBy(K), before |-> chain]
    /\ UNCHANGED <<structures, submissions, returned, result>>

\* Mutant of ForgetSeen: the seen cache survives the block.
RememberSeen ==
    /\ follower.at = "clearSeen"
    /\ follower' = [follower EXCEPT !.at = "removeSpent"]
    /\ UNCHANGED <<structures, chain, submissions, returned, result>>

\* Step 0: so that bundles handed back can be submitted again.
ForgetSeen ==
    /\ follower.at = "clearSeen"
    /\ seen' = <<>>
    /\ follower' = [follower EXCEPT !.at = "removeSpent"]
    /\ UNCHANGED <<pool, pending, conflict, chain, submissions, returned, result>>

\* Mutant of RemoveSpentAndExpired: deadlines are not looked at.
RemoveSpentOnly ==
    /\ follower.at = "removeSpent"
    /\ pool' = Cascade(pool, Spenders(pool, follower.spent))
    /\ follower' = [at |-> "promote"]
    /\ Answers("NewBlock")
    /\ UNCHANGED <<pending, conflict, seen, chain, submissions, returned>>

\* Steps 1 and 2 under the pool's write lock.
RemoveSpentAndExpired ==
    /\ follower.at = "removeSpent"
    /\ pool' = AfterBlock(pool, follower.spent, height, seconds)
    /\ follower' = [at |-> "promote"]
    /\ Answers("NewBlock")
    /\ UNCHANGED <<pending, conflict, seen, chain, submissions, returned>>

\* Mutant of Promote: the mature bundles are handed back but not removed.
PromoteCopies ==
    /\ follower.at = "promote"
    /\ follower' = [at |-> "retry", promoted |-> Mature(pending, height, seconds)]
    /\ UNCHANGED <<structures, chain, submissions, returned, result>>

\* Step 3 under the pending pool's lock.
Promote ==
    LET mature == Mature(pending, height, seconds)
    IN  /\ follower.at = "promote"
        /\ pending' = PendingRemoved(pending, mature)
        /\ follower' = [at |-> "retry", promoted |-> mature]
        /\ UNCHANGED <<pool, conflict, seen, chain, submissions, returned, result>>

\* Step 4 under the pool's and the conflict cache's locks.
CollectRetries ==
    LET retries == Retryable(conflict, pool)
    IN  /\ follower.at = "retry"
        /\ conflict' = Uncached(conflict, retries)
        /\ follower' = [at |-> "record", handed |-> follower.promoted \cup retries]
        /\ UNCHANGED <<pool, pending, seen, chain, submissions, returned, result>>

\* Step 5, under the fee tracker's lock (module Restart), and the return.
RecordBlock ==
    /\ follower.at = "record"
    /\ returned' = returned \cup follower.handed
    /\ follower' = Idle
    /\ UNCHANGED <<structures, chain, submissions, result>>

\* clear() empties one structure after the other.
ClearPool ==
    /\ "clear" \in Calls
    /\ Free
    /\ follower = Idle
    /\ pool' = EmptyPool
    /\ Answers("Cleared")
    /\ follower' = [at |-> "clearPending"]
    /\ UNCHANGED <<pending, conflict, seen, chain, submissions, returned>>

ClearPending ==
    /\ follower.at = "clearPending"
    /\ pending' = EmptyPending
    /\ follower' = [at |-> "clearConflict"]
    /\ UNCHANGED <<pool, conflict, seen, chain, submissions, returned, result>>

ClearConflict ==
    /\ follower.at = "clearConflict"
    /\ conflict' = EmptyConflict
    /\ follower' = [at |-> "clearSeenOnly"]
    /\ UNCHANGED <<pool, pending, seen, chain, submissions, returned, result>>

ClearSeen ==
    /\ follower.at = "clearSeenOnly"
    /\ seen' = <<>>
    /\ follower' = Idle
    /\ UNCHANGED <<pool, pending, conflict, chain, submissions, returned, result>>

\* The drains, for callers that manage the lifecycle themselves.
DrainPending ==
    LET mature == Mature(pending, height, seconds)
    IN  /\ "drain" \in Calls
        /\ Free
        /\ follower = Idle
        /\ pending' = PendingRemoved(pending, mature)
        /\ returned' = returned \cup mature
        /\ UNCHANGED <<pool, conflict, seen, chain, submissions, follower, result>>

DrainConflict ==
    /\ "drain" \in Calls
    /\ Free
    /\ follower = Idle
    /\ conflict' = EmptyConflict
    /\ returned' = returned \cup conflict.cache
    /\ UNCHANGED <<pool, pending, seen, chain, submissions, follower, result>>

-----------------------------------------------------------------------------
SubmitStep(t) ==
    \/ CheckSeen(t) \/ CheckActive(t) \/ CheckPending(t) \/ CheckConflict(t)
    \/ Validate(t)
    \/ Queue(t)
    \/ FindAdmitted(t) \/ Refuse(t) \/ GiveUp(t) \/ Admit(t)

FollowerStep ==
    \/ ForgetSeen \/ RemoveSpentAndExpired \/ Promote \/ CollectRetries
    \/ RecordBlock \/ ClearPending \/ ClearConflict \/ ClearSeen

Next ==
    \/ \E t \in Callers : SubmitStep(t) \/ \E b \in Bundles : Submit(t, b)
    \/ FollowerStep
    \/ \E K \in SUBSET (Bundles \ confirmed), s \in 0..MaxSeconds :
            BlockConfirmed(K, s)
    \/ ClearPool
    \/ DrainPending \/ DrainConflict

Spec == Init /\ [][Next]_vars

-----------------------------------------------------------------------------
Steps == {"seen", "active", "pending", "conflict", "validate", "queue", "admit"}
Calling == [at : Steps, bundle : Bundles, height : Nat, seconds : Nat,
            known : SUBSET Coins, again : BOOLEAN]

Following ==
    {Idle}
        \cup [at : {"clearSeen", "removeSpent"}, spent : SUBSET Coins,
              before : (SUBSET Bundles) \X Nat \X Nat]
        \cup [at : {"promote", "clearPending", "clearConflict", "clearSeenOnly"}]
        \cup [at : {"retry"}, promoted : SUBSET Bundles]
        \cup [at : {"record"}, handed : SUBSET Bundles]

\* Type correctness of the four structures and of the calls in progress.
TypeOK ==
    /\ IsPool(pool)
    /\ IsPending(pending)
    /\ IsConflictCache(conflict)
    /\ seen \in Seq(Bundles)
    /\ confirmed \subseteq Bundles /\ height \in Nat /\ seconds \in Nat
    /\ submissions \in [Callers -> {Idle} \cup Calling]
    /\ follower \in Following
    /\ returned \subseteq Bundles

\* Whatever the threads' views of chain and pool were when their calls began,
\* the active pool stays consistent: exact accumulators, limits respected, no
\* dangling index, and no two bundles that spend the same coin.
ActiveConsistent ==
    /\ Accounts(pool)
    /\ WithinLimits(pool)
    /\ Resolves(pool)
    /\ Compatible(Active(pool))

\* So does the pending pool: its index holds the coins of its items and no
\* others, each for the one item that spends it, and its accumulated cost is
\* exact and within the limits, through replacements, promotions and drains.
PendingConsistent ==
    /\ DOMAIN pending.coinIndex = SpentBy(pending.items)
    /\ \A b \in pending.items : \A c \in Removals[b] : pending.coinIndex[c] = b
    /\ pending.cost = Total(VirtualCost, pending.items)
    /\ pending.cost <= MaxPendingCost
    /\ Cardinality(pending.items) <= MaxPendingCount

\* And the conflict cache, into which two submissions of one bundle may race.
ConflictConsistent ==
    /\ conflict.cost = Total(VirtualCost, conflict.cache)
    /\ conflict.cost <= MaxConflictCost
    /\ Cardinality(conflict.cache) <= MaxConflictCount

\* A bundle is in one place: active, pending, or waiting for a retry, and what
\* was handed back to the caller has left the mempool.
InOnePlace ==
    /\ Active(pool) \cap pending.items = {}
    /\ Active(pool) \cap conflict.cache = {}
    /\ pending.items \cap conflict.cache = {}
    /\ follower = Idle =>
        returned \cap (Active(pool) \cup pending.items \cup conflict.cache) = {}

\* Two callers with different heights may queue a bundle and admit it at once.
\* It is in both pools only until the next block drains the pending one, however
\* old the heights of the submissions are that run beside the block.
PromoteSeparates ==
    [][Promote => Active(pool') \cap pending'.items = {}]_vars

\* Pending items give way to a submission only if it spends all their coins and
\* outbids their fees together (POL-005); and if it is not queued then, there is
\* no room for it beside what is left.
PendingGivesWay ==
    [][\A t \in Callers : Queue(t) =>
        LET lost == pending.items \ pending'.items
            b == Bundle(t)
        IN  lost # {} =>
                /\ SpentBy(lost) \subseteq Removals[b]
                /\ Fee[b] >= Total(Fee, lost) + MinRbfFeeBump
                /\ \/ b \in pending'.items
                   \/ Total(VirtualCost, pending'.items \cup {b}) > MaxPendingCost]_vars

\* What on_new_block() hands back can be submitted again: the first submission
\* of such a bundle is turned away as already seen only while the mempool holds
\* the bundle or another call is at work on it.
HandedBackCanReturn ==
    [][\A t \in Callers :
        /\ At(t, "seen") /\ Bundle(t) \in Range(seen)
        /\ submissions'[t] = Idle
        /\ submissions[t].again
        =>  \/ Bundle(t) \in Active(pool) \cup pending.items \cup conflict.cache
            \/ \E u \in Callers \ {t} :
                submissions[u] # Idle /\ Bundle(u) = Bundle(t)]_vars

\* "If the parent is evicted between this call and submit(), Phase 2 will
\* reject with CoinNotFound": what is admitted spends coins that are on chain
\* or that an active bundle creates.
AdmittedCoinsExist ==
    [][\A b \in Active(pool') \ Active(pool) :
        Removals[b] \subseteq Unspent(confirmed) \cup DOMAIN pool.mempoolCoins]_vars

\* Calls made one at a time have the effects that ActivePool gives them in one
\* step each, the chain moving on when the pool is told.
Told ==
    IF follower.at \in {"clearSeen", "removeSpent"} THEN follower.before ELSE chain
Atomic == INSTANCE ActivePool WITH
    confirmed <- Told[1], height <- Told[2], seconds <- Told[3],
    Percents <- {}, Calls <- Calls \cap {"clear", "policy", "synthetic"}
=============================================================================
