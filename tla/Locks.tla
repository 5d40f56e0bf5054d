------------------------------- MODULE Locks --------------------------------
(* The locks behind the methods of Mempool, all of which take &self: what    *)
(* each call locks, in which mode and in which order, and what it still      *)
(* holds when it asks for more.                                              *)
(*                                                                           *)
(* A call is a sequence of critical sections.  A section is one lock that is *)
(* held from its start to its end, and the locks taken one after the other   *)
(* inside it; the code nests no deeper.  The data the locks protect is the   *)
(* subject of module Mempool.                                                *)
EXTENDS Integers, Sequences

CONSTANTS
    Threads,    \* the threads that use the mempool
    MaxCalls    \* bound: the calls they make between them

ASSUME CallsBounded == MaxCalls \in Nat

LockNames == {"seen", "bls", "pool", "pending", "conflict", "fee", "hooks"}

\* POL-010: "pool_lock -> pending_lock -> conflict_lock"; the list of hooks is
\* locked below them, and the others stand by themselves.
Rank == [seen |-> 0, bls |-> 0, fee |-> 0,
         pool |-> 1, pending |-> 2, conflict |-> 3, hooks |-> 4]

Read(lock) == [lock |-> lock, mode |-> "read"]
Write(lock) == [lock |-> lock, mode |-> "write"]

\* A section around others; a call may return early after an ending one.
Around(access, inner) == [outer |-> access, inner |-> inner, ends |-> FALSE]
Alone(access) == Around(access, <<>>)
Ending(access) == [Alone(access) EXCEPT !.ends = TRUE]

-----------------------------------------------------------------------------
(* The calls.                                                                *)

\* fire_hooks(), once for however many events there are.
Notify == Alone(Read("hooks"))

\* submit() before phase 2: the seen cache read, then written, the three pools
\* looked into, the coins of the active pool, and the signature cache's mutex.
Checks ==
    <<Ending(Read("seen")), Ending(Write("seen")), Ending(Read("pool")),
      Ending(Read("pending")), Ending(Read("conflict")), Alone(Read("pool")),
      Ending(Write("bls"))>>

\* Mutant of Refusal: the bundle is cached before the pool is locked, in the
\* section in which it is.
RefusalInside(cached) == Around(Write("conflict"), <<Write("pool")>>)

\* A lost replacement is cached while the pool is locked, and the hooks are
\* told under that lock too.
Refusal(cached) ==
    Around(Write("pool"),
           IF cached THEN <<Write("conflict"), Read("hooks")>>
           ELSE <<Write("conflict")>>)

\* Phase 2a, and the outcomes of phase 2b.
SubmitPaths ==
    {Checks \o <<Ending(Write("pending")), Notify>>,
     Checks \o <<Ending(Write("pool")), Notify>>}
        \cup {Checks \o <<Refusal(cached)>> : cached \in BOOLEAN}

\* on_new_block(): the conflict cache is drained beside the pool's coin index.
NewBlockPath ==
    <<Alone(Write("seen")), Alone(Write("pool")), Alone(Write("pending")),
      Around(Read("pool"), <<Write("conflict")>>),
      Ending(Write("fee")), Notify>>

ClearPath ==
    <<Alone(Write("pool")), Alone(Write("pending")), Alone(Write("conflict")),
      Ending(Write("seen")), Notify>>

\* evict_lowest_percent() and remove().
EvictPath == <<Ending(Write("pool")), Notify>>

\* Mutant of StatsPath: the pool's own read lock is taken again inside.
StatsPathTwice == <<Around(Read("pool"), <<Read("pool"), Read("conflict")>>)>>

StatsPath == <<Around(Read("pool"), <<Read("pending"), Read("conflict")>>)>>

\* select_for_block(); its first section is all there is to the other queries.
SelectPath == <<Ending(Read("pool")), Notify>>

SnapshotPath ==
    <<Alone(Read("pool")), Alone(Read("pending")), Alone(Read("conflict")),
      Alone(Read("fee"))>>

RestorePath ==
    <<Alone(Write("pool")), Alone(Write("pending")), Alone(Write("conflict")),
      Alone(Write("pool")), Alone(Write("pending")), Alone(Write("conflict")),
      Alone(Write("fee"))>>

\* add_to_conflict_cache() called from outside, and the drains.
CachePaths == {<<Ending(Write("conflict")), Notify>>, <<Alone(Write("pending"))>>}

\* add_event_hook(), and the fee estimates.
HookPath == <<Alone(Write("hooks"))>>
EstimatePaths == {<<Alone(Read("fee"))>>, <<Alone(Write("fee"))>>}

Paths ==
    SubmitPaths \cup CachePaths \cup EstimatePaths
        \cup {NewBlockPath, ClearPath, EvictPath, StatsPath, SelectPath,
              SnapshotPath, RestorePath, HookPath}

-----------------------------------------------------------------------------
VARIABLES
    rest,       \* thread -> the sections of its call from the current one on
    holds,      \* thread -> what it has locked, outermost first
    taken,      \* thread -> how many inner locks it has released again
    queued,     \* the threads that wait to write
    calls       \* calls made so far

vars == <<rest, holds, taken, queued, calls>>

Init ==
    /\ rest = [t \in Threads |-> <<>>]
    /\ holds = [t \in Threads |-> <<>>]
    /\ taken = [t \in Threads |-> 0]
    /\ queued = {}
    /\ calls = 0

Busy(t) == rest[t] # <<>>
Section(t) == Head(rest[t])

\* Whether the next thing t does is to lock, and what.
Locking(t) ==
    /\ Busy(t)
    /\ \/ holds[t] = <<>>
       \/ Len(holds[t]) = 1 /\ taken[t] < Len(Section(t).inner)
Wanted(t) ==
    IF holds[t] = <<>> THEN Section(t).outer ELSE Section(t).inner[taken[t] + 1]

Has(t, lock, modes) ==
    \E i \in DOMAIN holds[t] : holds[t][i].lock = lock /\ holds[t][i].mode \in modes

\* std::sync::RwLock, as it is on Linux: a reader waits for writers that came
\* before it, a writer until nobody has the lock.  (A Mutex is only written.)
Grantable(t) ==
    LET lock == Wanted(t).lock
    IN  IF Wanted(t).mode = "write"
        THEN \A u \in Threads : ~Has(u, lock, {"read", "write"})
        ELSE /\ \A u \in Threads : ~Has(u, lock, {"write"})
             /\ \A u \in queued \ {t} : Wanted(u).lock # lock

CanGoOn(t) == Busy(t) /\ (Locking(t) => Grantable(t))

-----------------------------------------------------------------------------
Call(t) ==
    /\ ~Busy(t)
    /\ calls < MaxCalls
    /\ \E path \in Paths : rest' = [rest EXCEPT ![t] = path]
    /\ calls' = calls + 1
    /\ UNCHANGED <<holds, taken, queued>>

Acquire(t) ==
    /\ Locking(t)
    /\ Grantable(t)
    /\ holds' = [holds EXCEPT ![t] = Append(@, Wanted(t))]
    /\ queued' = queued \ {t}
    /\ UNCHANGED <<rest, taken, calls>>

\* A writer that has to wait shuts out the readers that come after it.
Wait(t) ==
    /\ Locking(t)
    /\ ~Grantable(t)
    /\ Wanted(t).mode = "write"
    /\ t \notin queued
    /\ queued' = queued \cup {t}
    /\ UNCHANGED <<rest, holds, taken, calls>>

ReleaseInner(t) ==
    /\ Len(holds[t]) = 2
    /\ holds' = [holds EXCEPT ![t] = <<@[1]>>]
    /\ taken' = [taken EXCEPT ![t] = @ + 1]
    /\ UNCHANGED <<rest, queued, calls>>

ReleaseOuter(t) ==
    /\ Len(holds[t]) = 1
    /\ ~Locking(t)
    /\ holds' = [holds EXCEPT ![t] = <<>>]
    /\ taken' = [taken EXCEPT ![t] = 0]
    /\ \/ rest' = [rest EXCEPT ![t] = Tail(@)]
       \/ Section(t).ends /\ rest' = [rest EXCEPT ![t] = <<>>]
    /\ UNCHANGED <<queued, calls>>

Step(t) == Acquire(t) \/ Wait(t) \/ ReleaseInner(t) \/ ReleaseOuter(t)

Next == \E t \in Threads : Call(t) \/ Step(t)

\* The scheduler lets every thread go on that can.
Spec == Init /\ [][Next]_vars /\ \A t \in Threads : WF_vars(Step(t))

-----------------------------------------------------------------------------
\* What POL-010 asks for: a thread that has a lock only ever asks for one that
\* is further down the order, and so never for one it has.
LocksInOrder ==
    \A t \in Threads : Locking(t) =>
        \A i \in DOMAIN holds[t] : Rank[holds[t][i].lock] < Rank[Wanted(t).lock]

\* "Lock ordering prevents deadlocks": while any call is in progress, some
\* thread can go on, though readers wait for writers that only wait themselves.
NoDeadlock ==
    (\E t \in Threads : Busy(t)) => \E t \in Threads : CanGoOn(t)

\* Nor is a call passed over for ever, once no more calls keep coming: "All
\* submissions complete without deadlock", and so do all the others.
EveryCallReturns == \A t \in Threads : Busy(t) ~> ~Busy(t)
=============================================================================
